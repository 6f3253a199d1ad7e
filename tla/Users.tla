-------------------------------- MODULE Users --------------------------------
(***************************************************************************)
(* Who a session is: process_user_name, create_user and login (user.c)     *)
(* over the users table, as db_sqlite.c or db_postgresql.c keeps it.       *)
(* Sessions share the table and nothing else; each line is handled to its  *)
(* end.                                                                    *)
(*                                                                         *)
(* The code compares and stores whole lines, sscanf takes words from them: *)
(* a name or a password with a newline behind it is another one, which     *)
(* nobody can register.  A password is as good as its hash.                *)
(***************************************************************************)
EXTENDS Integers, Sequences

CONSTANTS
  Sd,            \* the sessions
  Name,          \* names that are registered
  Line,          \* lines that are entered for a name
  Pass,
  Email,
  Garbage,       \* what uid and privileges hold before they are assigned
  MaxUsers       \* bound: rows of the users table

(* "exit" and "anonymous" may be names, and so may a word that begins with *)
(* "register".                                                             *)
ASSUME UsersAssumption ==
  /\ Name \subseteq Line
  /\ "" \notin Line
  /\ Garbage \subseteq Int
  /\ MaxUsers \in Nat

VARIABLES
  db,            \* "sqlite" or "postgres", which the server is built with
  users,         \* table users; the id of a row is its position
  sessions,
  accepted,      \* history: accounts whose registration was answered "ok"
  lost           \* history: the insertion of a user was not committed

vars == <<db, users, sessions, accepted, lost>>

Account == [name : Name, pass : Pass, email : Email, privileges : Int]

Nobody == [name |-> "", pass |-> "", email |-> ""]

(* asked: history, the account the session asked for in its last step *)
Session ==
  [state : {"NULL", "OP_LOGIN_USR", "OP_LOGIN_PSS", "OP_WAIT"},
   uname : Line \cup {"", "anonymous"}, uid : Int, privileges : Int,
   asked : [name : Line, pass : Pass, email : Email \cup {""}] \cup {Nobody},
   reply : {"", "ok", "name exists", "email exists", "error", "again",
            "welcome"}]

NullSession ==
  [state |-> "NULL", uname |-> "", uid |-> 0, privileges |-> 0,
   asked |-> Nobody, reply |-> ""]

Init ==
  /\ db \in {"sqlite", "postgres"}
  /\ users = <<>>
  /\ sessions = [d \in Sd |-> NullSession]
  /\ accepted = {}
  /\ lost = FALSE

InState(d, st) == sessions[d].state = st
Become(d, s) == sessions' = [sessions EXCEPT ![d] = s]

(* Mutant: the state is not assigned either. *)
ConnectAsAllocated(d) ==
  /\ InState(d, "NULL")
  /\ Become(d, [NullSession EXCEPT !.state = "garbage"])
  /\ UNCHANGED <<db, users, accepted, lost>>

(* make_new_session assigns neither uid nor privileges. *)
Connect(d) ==
  /\ InState(d, "NULL")
  /\ \E garbage \in Garbage :
       Become(d, [NullSession EXCEPT !.state = "OP_LOGIN_USR",
                                     !.uid = garbage,
                                     !.privileges = garbage])
  /\ UNCHANGED <<db, users, accepted, lost>>

(* The client leaves, or enters "exit". *)
Close(d) ==
  /\ ~InState(d, "NULL")
  /\ Become(d, NullSession)
  /\ UNCHANGED <<db, users, accepted, lost>>

-----------------------------------------------------------------------------
(* create_user *)

NameTaken(n) == \E i \in DOMAIN users : users[i].name = n
EmailTaken(e) == \E i \in DOMAIN users : users[i].email = e

(* Mutant: the parameters of the insertion are bound in another order. *)
StoredSwapped(a) ==
  [users |-> Append(users, [a EXCEPT !.pass = a.email, !.email = a.pass]),
   res |-> Len(users) + 1]

(* What db_user_create leaves of the table, and what it returns. *)
Stored(a) == [users |-> Append(users, a), res |-> Len(users) + 1]
Refused(code) == [users |-> users, res |-> code]

(* Mutants: the email is not looked at; it is looked at first. *)
PostgresCreatesByName(a) ==
  IF NameTaken(a.name) THEN {Refused(-2)}
  ELSE {Stored(a), Refused(-1), Refused(-4)}
PostgresLooksForEmail(a) ==
  IF NameTaken(a.name) THEN {Refused(-3), Refused(-1)}
  ELSE IF EmailTaken(a.email) THEN {Refused(-2), Refused(-1)}
  ELSE {Stored(a), Refused(-1), Refused(-4)}

(* Two queries and an insertion, each of which may fail. *)
PostgresCreates(a) ==
  IF NameTaken(a.name) THEN {Refused(-2), Refused(-1)}
  ELSE IF EmailTaken(a.email) THEN {Refused(-3), Refused(-1)}
  ELSE {Stored(a), Refused(-1), Refused(-4)}

(* One insertion, which the UNIQUE constraints may refuse.  RETURNING      *)
(* gives the id before the step that commits, and may fail.                *)
SqliteCreates(a) ==
  IF NameTaken(a.name) \/ EmailTaken(a.email) THEN {Refused(0)}
  ELSE {Stored(a), Refused(0), Refused(Len(users) + 1)}

Created(a) ==
  IF db = "sqlite" THEN SqliteCreates(a) ELSE PostgresCreates(a)

ReplyOf(res) ==
  CASE res > 0 -> "ok"
    [] res = -2 -> "name exists"
    [] res = -3 -> "email exists"
    [] OTHER -> "error"

(* "register <name> <password> <email>" *)
Register(d, n, p, e) ==
  LET a == [name |-> n, pass |-> p, email |-> e, privileges |-> 1]
      s == [sessions[d] EXCEPT !.asked = [name |-> n, pass |-> p, email |-> e]]
  IN  /\ InState(d, "OP_LOGIN_USR")
      /\ \E c \in Created(a) :
           /\ Len(c.users) <= MaxUsers
           /\ users' = c.users
           /\ lost' = (lost \/ (c.res > 0 /\ c.users = users))
           /\ IF c.res > 0
              THEN /\ Become(d, [s EXCEPT
                        !.state = "OP_WAIT", !.reply = "ok", !.uname = n,
                        !.uid = c.res, !.privileges = 1])
                   /\ accepted' = accepted \cup {a}
              ELSE /\ Become(d, [s EXCEPT !.reply = ReplyOf(c.res)])
                   /\ UNCHANGED accepted
      /\ UNCHANGED db

(* Fewer than three words behind "register": no answer is sent. *)
RegisterMalformed(d) ==
  /\ InState(d, "OP_LOGIN_USR")
  /\ Become(d, [sessions[d] EXCEPT !.reply = "", !.asked = Nobody])
  /\ UNCHANGED <<db, users, accepted, lost>>

-----------------------------------------------------------------------------
(* process_user_name and login *)

(* Lines that are not taken for a name. *)
Reserved == {"exit", "anonymous", "register", "registered"}

EnterAnonymous(d) ==
  /\ InState(d, "OP_LOGIN_USR")
  /\ Become(d, [sessions[d] EXCEPT !.state = "OP_WAIT", !.reply = "welcome",
                                   !.uname = "anonymous", !.asked = Nobody])
  /\ UNCHANGED <<db, users, accepted, lost>>

EnterName(d, l) ==
  /\ InState(d, "OP_LOGIN_USR")
  /\ l \notin Reserved
  /\ Become(d, [sessions[d] EXCEPT !.state = "OP_LOGIN_PSS", !.reply = "",
                                   !.uname = l, !.asked = Nobody])
  /\ UNCHANGED <<db, users, accepted, lost>>

(* Mutant: whoever's password it is. *)
MatchingPassword(l, p) == {i \in DOMAIN users : users[i].pass = p}

(* The user with the name, if the password is his. *)
Matching(l, p) ==
  {i \in DOMAIN users : users[i].name = l /\ users[i].pass = p}

(* SQLite takes the privileges from column 6 of a result of 4 columns,     *)
(* which is 0; and login() gives the byte they are in to atoi(), of which  *)
(* the number itself is no digit: the right column would give 0 as well.   *)
(* PostgreSQL leaves the digit there, and atoi() may read on into what is  *)
(* behind it in o_auth_t.                                                  *)
PrivilegesRead(i) ==
  IF db = "sqlite" THEN {0} ELSE {users[i].privileges} \cup Garbage

LogIn(d, p) ==
  LET s == sessions[d]
  IN  /\ InState(d, "OP_LOGIN_PSS")
      /\ \E i \in Matching(s.uname, p) : \E privileges \in PrivilegesRead(i) :
           Become(d, [s EXCEPT !.state = "OP_WAIT", !.reply = "welcome",
                               !.uid = i, !.privileges = privileges,
                               !.asked = [name |-> s.uname, pass |-> p, email |-> ""]])
      /\ UNCHANGED <<db, users, accepted, lost>>

(* Name or password are wrong, or the query failed. *)
LogInFails(d) ==
  /\ InState(d, "OP_LOGIN_PSS")
  /\ Become(d, [sessions[d] EXCEPT !.state = "OP_LOGIN_USR",
                                   !.reply = "again"])
  /\ UNCHANGED <<db, users, accepted, lost>>

Next ==
  \E d \in Sd :
    \/ Connect(d) \/ Close(d)
    \/ \E n \in Name, p \in Pass, e \in Email : Register(d, n, p, e)
    \/ RegisterMalformed(d)
    \/ EnterAnonymous(d)
    \/ \E l \in Line : EnterName(d, l)
    \/ \E p \in Pass : LogIn(d, p)
    \/ LogInFails(d)

Spec == Init /\ [][Next]_vars

-----------------------------------------------------------------------------
(* Properties *)

TypeOK ==
  /\ db \in {"sqlite", "postgres"}
  /\ users \in Seq(Account) /\ Len(users) <= MaxUsers
  /\ sessions \in [Sd -> Session]
  /\ accepted \subseteq Account
  /\ lost \in BOOLEAN

(* No two accounts share a name or an email, over either database: SQLite  *)
(* has constraints, db_postgresql.c asks before it inserts.                *)
AccountsDistinct ==
  \A i, j \in DOMAIN users :
    users[i].name = users[j].name \/ users[i].email = users[j].email => i = j

(* A session that registered or logged in, after whatever it tried before, *)
(* carries the id of the account whose name and password it gave: no two   *)
(* clients are the same user without knowing his password (login,          *)
(* create_user).  Anonymous sessions have no id; and an insertion that     *)
(* SQLite did not commit leaves an id that the next account gets.          *)
SessionIsItsUser ==
  \A d \in Sd :
    LET s == sessions[d]
    IN  InState(d, "OP_WAIT") /\ ~lost =>
          \/ s.uname = "anonymous" /\ s.reply = "welcome"
          \/ /\ s.uid \in DOMAIN users
             /\ users[s.uid].name = s.uname
             /\ users[s.uid].pass = s.asked.pass

(* Of whom was answered "ok" the table has a row that the name and the     *)
(* password he gave match in login(), over either database, unless it was  *)
(* not committed or the name is taken for a command (create_user, login).  *)
AcceptedAccountsEnter ==
  ~lost =>
    \A a \in accepted :
      a.name \in Reserved \/ Matching(a.name, a.pass) # {}

(* A refused client that is told the reason is told the true one           *)
(* (create_user, by the codes of db_user_create).                          *)
RefusalIsTrue ==
  \A d \in Sd :
    LET s == sessions[d]
    IN  /\ s.reply = "name exists" => NameTaken(s.asked.name)
        /\ s.reply = "email exists" => EmailTaken(s.asked.email)

(* "by default": a user has the privilege to add files, which the table    *)
(* stores as 1, also when he logs in (user.c).                             *)
PrivilegesOfAccount ==
  \A d \in Sd :
    LET s == sessions[d]
    IN  InState(d, "OP_WAIT") /\ s.uname # "anonymous" => s.privileges # 0
=============================================================================
