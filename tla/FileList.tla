------------------------------- MODULE FileList -------------------------------
(***************************************************************************)
(* "file list <limit> <page>": file_list and the queries behind it, for a  *)
(* client that asks for page after page while others register and upload.  *)
(* Rows are never changed or removed, and come in the order of their ids.  *)
(* Queries may fail, in the middle of a page too.                          *)
(*                                                                         *)
(* Abstracted: everything of a row but its owner and its permissions, and  *)
(* the wording of the reply.  A search by name dereferences a null pointer *)
(* (process_client_command) and is left out.                               *)
(***************************************************************************)
EXTENDS Integers, Sequences, FiniteSets

CONSTANTS
  Name,          \* names users may register
  Prefixes,      \* pairs of names the first of which begins the second
  Viewer,        \* names under which the client may be logged in
  Uid,           \* ids a row may carry; an anonymous session's is any id
  Limit,         \* page lengths the client asks for; 0 ends the process
  Garbage,       \* what full_count may be when nothing is assigned to it
  InitialUsers,  \* the users table as an earlier run left it
  MaxUsers,      \* bound: rows of the users table
  MaxFiles,      \* bound: rows of the files table
  MaxPages,      \* bound: pages the client asks for
  MaxFailures    \* bound: replies of which a query failed

ASSUME FileListAssumption ==
  /\ \A n \in Name : <<n, n>> \in Prefixes
  /\ Uid \subseteq Nat
  /\ Limit \subseteq Nat \ {0}
  /\ Garbage \subseteq Int
  /\ InitialUsers \in Seq(Name)
  /\ MaxUsers \in Nat
  /\ MaxFiles \in Nat
  /\ MaxPages \in Nat
  /\ MaxFailures \in Nat

VARIABLES
  users,     \* table users: the name of user i is users[i]
  files,     \* table files: [uid, permissions] of file i
  uname,     \* the name of the client's session
  limit,     \* the page length it asks for
  page,      \* pages it has asked for
  reply,     \* the last line of the last page
  shown,     \* the ids of the files on each page it was shown
  failures,  \* replies of which a query failed
  begun,     \* history: what there was for it to see with the first page
  steady,    \* history: every page before the last was full
  revealed   \* history: a registration made earlier rows appear meanwhile

listing == <<page, reply, shown, failures, begun, steady>>
vars == <<users, files, uname, limit, listing, revealed>>

File == [uid: Uid, permissions: {0, 1}]
Reply == [pages: Int, count: Nat, remaining: Int]

-----------------------------------------------------------------------------
(* The queries of db_get_files_data *)

(* FROM files JOIN users ON user_id = users.id *)
Joined == {i \in 1 .. Len(files) : files[i].uid \in 1 .. Len(users)}

(* ORDER BY files.id, in which db_get_files_data_db is called *)
Position(i) == Cardinality({j \in Joined : j <= i})

(* Mutants: the page as the offset; pages counted from 0. *)
OffsetIsPage(p) == p - 1
OffsetFromZero(p) == limit * p

Offset(p) == limit * (p - 1)

(* Mutant: no LIMIT. *)
RowsToTheEnd(p) == {i \in Joined : Offset(p) < Position(i)}

(* The first k rows of page p. *)
FirstRows(p, k) ==
  {i \in Joined : Position(i) - Offset(p) \in 1 .. k}

(* LIMIT ? OFFSET ? *)
Rows(p) == FirstRows(p, limit)

(* SELECT COUNT(id) FROM files, which does not join *)
FullCount == Len(files)

-----------------------------------------------------------------------------
(* file_list *)

(* strncmp with the length of the session's name *)
MayList(i) ==
  <<uname, users[files[i].uid]>> \in Prefixes \/ files[i].permissions # 0

(* A quotient of C is rounded towards 0. *)
PagesCount(full) ==
  LET q == IF full >= 0 THEN full \div limit ELSE -((-full) \div limit)
      pages_count == IF q = 0 THEN 1 ELSE q
  IN  IF full > limit /\ pages_count % limit # 0
      THEN pages_count + 1 ELSE pages_count

(* Mutant: what remains behind this page. *)
RemainingBehind(p, full) == full - p * limit

Remaining(p, full) == full - (p - 1) * limit

LastLine(p, count, full) ==
  [pages |-> PagesCount(full), count |-> count,
   remaining |-> Remaining(p, full)]

-----------------------------------------------------------------------------
Init ==
  /\ users = InitialUsers
  /\ files = <<>>
  /\ uname \in Viewer
  /\ limit \in Limit
  /\ page = 0
  /\ reply = [pages |-> 0, count |-> 0, remaining |-> 0]
  /\ shown = <<>>
  /\ failures = 0
  /\ begun = {}
  /\ steady = TRUE
  /\ revealed = FALSE

(* create_user of another session; ids are given in order *)
Register(n) ==
  /\ Len(users) < MaxUsers
  /\ \A i \in 1 .. Len(users) : users[i] # n
  /\ users' = Append(users, n)
  /\ revealed' = \/ revealed
                 \/ /\ page > 0
                    /\ \E i \in 1 .. Len(files) : files[i].uid = Len(users')
  /\ UNCHANGED <<files, uname, limit, listing>>

(* db_save_file of another session *)
SaveFile(f) ==
  /\ Len(files) < MaxFiles
  /\ files' = Append(files, f)
  /\ UNCHANGED <<users, uname, limit, listing, revealed>>

(* The client asks for the next page; rows were read, count is what        *)
(* db_get_files_data returned and full what it left in full_count.         *)
Listed(rows, count, full) ==
  /\ page < MaxPages
  /\ page' = page + 1
  /\ reply' = LastLine(page', count, full)
  /\ shown' = Append(shown, {i \in rows : MayList(i)})
  /\ begun' = IF page = 0 THEN {i \in Joined : MayList(i)} ELSE begun
  /\ steady' = (page = 0 \/ (steady /\ reply.count = limit))
  /\ UNCHANGED <<users, files, uname, limit, revealed>>

List ==
  LET rows == Rows(page + 1)
  IN  /\ Listed(rows, Cardinality(rows), FullCount)
      /\ UNCHANGED failures

QueryFails == failures < MaxFailures /\ failures' = failures + 1

(* A step fails behind k rows, which are taken for all (SQLite). *)
ListCutShort ==
  /\ QueryFails
  /\ \E k \in 0 .. Cardinality(Rows(page + 1)) - 1 :
       Listed(FirstRows(page + 1, k), k, FullCount)

(* The rows are not counted: the second query fails, or the first does and *)
(* there are no rows.  0 is returned, and the rows are shown all the same. *)
ListUncounted ==
  /\ QueryFails
  /\ \E k \in 0 .. Cardinality(Rows(page + 1)), full \in Garbage :
       Listed(FirstRows(page + 1, k), 0, full)

Next ==
  \/ \E n \in Name : Register(n)
  \/ \E f \in File : SaveFile(f)
  \/ List
  \/ ListCutShort
  \/ ListUncounted

Spec == Init /\ [][Next]_vars

-----------------------------------------------------------------------------
(* Properties *)

TypeOK ==
  /\ users \in Seq(Name)
  /\ files \in Seq(File)
  /\ uname \in Viewer
  /\ limit \in Limit
  /\ page \in 0 .. MaxPages
  /\ reply \in Reply /\ reply.count <= limit
  /\ shown \in Seq(SUBSET (1 .. MaxFiles)) /\ Len(shown) = page
  /\ failures \in 0 .. MaxFailures
  /\ begun \subseteq 1 .. MaxFiles
  /\ {steady, revealed} \subseteq BOOLEAN

WasShown(ids) == \A i \in ids : \E k \in 1 .. Len(shown) : i \in shown[k]

(* A client that pages through the list sees no file twice, and every file *)
(* before those with larger ids, while others upload and queries fail      *)
(* (file_list).  Exempt: a registration that gives an owner to rows that   *)
(* were uploaded under its id before.                                      *)
ListedOnce ==
  revealed \/
    \A j, k \in 1 .. Len(shown) :
      j < k => \A a \in shown[j], b \in shown[k] : a < b

(* A client that reads until a page is not full has seen every file that   *)
(* there was for it when it began, whatever was uploaded meanwhile: unless *)
(* a query failed, which passes for the end of the list (file_list).       *)
ListedAll ==
  page > 0 /\ failures = 0 /\ reply.count < limit => WasShown(begun)

(* "COUNT: n/r": so has a client that reads until n is r, though r counts  *)
(* rows that are not listed for want of an owner.  Queries may fail when   *)
(* the client does not believe a reply with n = 0, and every page before   *)
(* was full (file_list).                                                   *)
CountEndsListing ==
  page > 0 /\ reply.count = reply.remaining
    /\ (failures = 0 \/ (reply.count # 0 /\ steady)) => WasShown(begun)

(* "PAGE p/n": so has a client that reads the n pages there are. *)
PagesEndListing == page > 0 /\ page = reply.pages => WasShown(begun)
=============================================================================
