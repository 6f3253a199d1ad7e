-------------------------------- MODULE Board --------------------------------
(***************************************************************************)
(* The server at the grain of its handlers: one process, many sessions     *)
(* multiplexed by pselect, so that every handler runs to its end before    *)
(* the next one starts, in any order of the sessions.  The state is what   *)
(* the handlers share: the descriptor table of the process, the sessions,  *)
(* the storage folder, the working directory, and the two database tables. *)
(*                                                                         *)
(* Abstracted: the contents of files and descriptions (Transfer counts the *)
(* bytes), the wording of replies, and file names: which                   *)
(* stored row a name denotes is any visible row, or none.  The hash of a   *)
(* name with its growing seed ends in some path that does not exist.       *)
(***************************************************************************)
EXTENDS Transfer, Sequences, FiniteSets

CONSTANTS
  Desc,          \* the descriptors the process may open (EMFILE beyond them)
  NoFd,          \* the descriptor -1
  Name,          \* names users may register
  Anonymous,     \* the name "anonymous"
  NoName,        \* uname == NULL
  Path,          \* the paths a hash can give
  NoPath,        \* the path of no file
  Garbage,       \* what the uid of a session may hold before it is assigned
  Size,          \* file sizes clients announce
  PackageSize,   \* package sizes clients announce
  Capacity,      \* bytes the file system has for the storage folder
  Postgres,      \* TRUE: db_postgresql.c, FALSE: db_sqlite.c
  InitialUsers,  \* the users table as an earlier run left it
  MaxUsers,      \* bound: rows of the users table
  MaxFiles       \* bound: rows of the files table

ASSUME BoardAssumption ==
  /\ NoFd \notin Desc
  /\ NoPath \notin Path
  /\ NoName \notin Name
  /\ Anonymous # NoName
  /\ Garbage \subseteq Int
  /\ Size \subseteq SizeT
  /\ PackageSize \subseteq SizeT
  /\ Capacity \in Nat
  /\ Capacity < SizeMod
  /\ Postgres \in BOOLEAN
  /\ InitialUsers \in Seq(Name)
  /\ MaxUsers \in Nat
  /\ MaxFiles \in Nat

VARIABLES
  open,         \* descriptors the process holds
  connections,  \* the session of every descriptor
  disk,         \* bytes of every path of the storage folder, or Absent
  free,         \* free bytes of the file system
  cwd,          \* working directory of the process
  users,        \* table users: the name of user i is users[i]
  files,        \* table files
  torn,         \* history: paths of files one of whose writes was short
  told          \* history: paths the server has answered "is saved!" for

vars == <<open, connections, disk, free, cwd, users, files, torn, told>>

-----------------------------------------------------------------------------
(* Sessions *)

Absent == -1

LoginStates == {"OP_LOGIN_USR", "OP_LOGIN_PSS"}
(* States in which the main loop serves the file instead of the socket. *)
TransferStates == {"OP_UPLOAD", "OP_DOWNLOAD"}
(* States whose handlers dereference sess->file. *)
FileStates ==
  TransferStates \cup
    {"OP_UPLOAD_DESCRIPTION", "OP_DOWNLOAD_WAIT_CONFIRM_PACKAGE"}
(* States of a session that owns a file it is storing. *)
StoringStates == {"OP_UPLOAD", "OP_UPLOAD_DESCRIPTION"}
State == LoginStates \cup FileStates \cup {"OP_WAIT", "ERR", "NULL"}

File == [path: Path \cup {NoPath}, size: SizeT, rest: SizeT,
         package_rest: SizeT]

(* sess->file == NULL *)
NullFile == [path |-> NoPath, size |-> 0, rest |-> 0, package_rest |-> 0]

Session == [state: State, uname: Name \cup {Anonymous, NoName}, uid: Int,
            fd: Desc \cup {NoFd}, file: File]

(* connections[i] == NULL *)
NullSession == [state |-> "NULL", uname |-> NoName, uid |-> 0, fd |-> NoFd,
                file |-> NullFile]

Row == [uid: Int, size: SizeT, path: Path,
        by: Name \cup {Anonymous, NoName}]  \* by: history, who uploaded it

Connected == {d \in Desc : connections[d].state # "NULL"}

(* Paths of the uploads under way. *)
Storing(d) == connections[d].state \in StoringStates
(* Paths the files table refers to. *)
Published == {files[i].path : i \in 1 .. Len(files)}

(* db_get_file joins users: a row whose user does not exist is not found. *)
Visible == {i \in 1 .. Len(files) : files[i].uid \in 1 .. Len(users)}

-----------------------------------------------------------------------------
(* What several handlers do *)

(* Mutants: the descriptor is closed but kept; it is not closed. *)
ClearedKeepingFd(s) ==
  IF s.file = NullFile THEN s ELSE [s EXCEPT !.file = NullFile]
ClosedByNothing(s) == {}

(* The session after clear_file_from_sess, and the descriptors it closed:  *)
(* when there is no file, nothing is done, an open fd included.            *)
Cleared(s) ==
  IF s.file = NullFile THEN s ELSE [s EXCEPT !.file = NullFile, !.fd = NoFd]

ClosedBy(s) == IF s.file = NullFile THEN {} ELSE {s.fd}

Become(d, s) == connections' = [connections EXCEPT ![d] = s]

(* clear_file_from_sess, then the state st *)
ClearFile(d, st) ==
  /\ Become(d, [Cleared(connections[d]) EXCEPT !.state = st])
  /\ open' = open \ ClosedBy(connections[d])

(* unlink(path), a path relative to the working directory.  A file that    *)
(* held the bytes of disk[p] + extra gives them back.                      *)
Unlink(p, extra) ==
  IF cwd = "work"
  THEN /\ disk' = [disk EXCEPT ![p] = Absent]
       /\ free' = IF disk[p] = Absent THEN free ELSE free + disk[p]
  ELSE /\ disk' = IF disk[p] = Absent
                  THEN disk ELSE [disk EXCEPT ![p] = @ + extra]
       /\ free' = IF disk[p] = Absent THEN free ELSE free - extra

InState(d, st) == connections[d].state = st

-----------------------------------------------------------------------------
Init ==
  /\ open = {}
  /\ connections = [d \in Desc |-> NullSession]
  /\ disk = [p \in Path |-> Absent]
  /\ free = Capacity
  /\ cwd = "work"
  /\ users = InitialUsers
  /\ files = <<>>
  /\ torn = {}
  /\ told = {}

(* accept_client and make_new_session: uid is left as malloc gave it. *)
Accept(d) ==
  /\ d \notin open
  /\ \E garbage \in Garbage :
       Become(d, [NullSession EXCEPT !.state = "OP_LOGIN_USR",
                                     !.uid = garbage])
  /\ open' = open \cup {d}
  /\ UNCHANGED <<disk, free, cwd, users, files, torn, told>>

(* close_session, from every way to it: read() gave 0 or an error, "exit"  *)
(* was entered, or a session that a failed download left in ERR has become *)
(* readable.  A transferring session is never read by the main loop.       *)
Close(d) ==
  /\ d \in Connected
  /\ connections[d].state \notin TransferStates
  /\ Become(d, NullSession)
  /\ open' = open \ ({d} \cup ClosedBy(connections[d]))
  /\ UNCHANGED <<disk, free, cwd, users, files, torn, told>>

-----------------------------------------------------------------------------
(* Logging in *)

(* create_user with a name and an email that are free; over SQLite the id  *)
(* is returned also when the step that commits fails.  A refused           *)
(* registration changes nothing.                                           *)
Register(d, n) ==
  /\ InState(d, "OP_LOGIN_USR")
  /\ Len(users) < MaxUsers
  /\ \A i \in 1 .. Len(users) : users[i] # n
  /\ \/ users' = Append(users, n)
     \/ ~Postgres /\ users' = users
  /\ Become(d, [connections[d] EXCEPT !.state = "OP_WAIT", !.uname = n,
                                      !.uid = Len(users) + 1])
  /\ UNCHANGED <<open, disk, free, cwd, files, torn, told>>

(* process_user_name, "anonymous": uid is not assigned. *)
EnterAnonymous(d) ==
  /\ InState(d, "OP_LOGIN_USR")
  /\ Become(d, [connections[d] EXCEPT !.state = "OP_WAIT",
                                      !.uname = Anonymous])
  /\ UNCHANGED <<open, disk, free, cwd, users, files, torn, told>>

(* process_user_name, any other line *)
EnterName(d, n) ==
  /\ InState(d, "OP_LOGIN_USR")
  /\ n # Anonymous
  /\ Become(d, [connections[d] EXCEPT !.state = "OP_LOGIN_PSS",
                                      !.uname = n])
  /\ UNCHANGED <<open, disk, free, cwd, users, files, torn, told>>

(* Mutant: uid is not assigned. *)
LogInWithoutUid(d) ==
  /\ InState(d, "OP_LOGIN_PSS")
  /\ \E i \in 1 .. Len(users) : users[i] = connections[d].uname
  /\ Become(d, [connections[d] EXCEPT !.state = "OP_WAIT"])
  /\ UNCHANGED <<open, disk, free, cwd, users, files, torn, told>>

(* login, with the password of the user *)
LogIn(d) ==
  /\ InState(d, "OP_LOGIN_PSS")
  /\ \E i \in 1 .. Len(users) :
       /\ users[i] = connections[d].uname
       /\ Become(d, [connections[d] EXCEPT !.state = "OP_WAIT", !.uid = i])
  /\ UNCHANGED <<open, disk, free, cwd, users, files, torn, told>>

(* login, with a wrong password or an unknown name *)
LogInFails(d) ==
  /\ InState(d, "OP_LOGIN_PSS")
  /\ Become(d, [connections[d] EXCEPT !.state = "OP_LOGIN_USR"])
  /\ UNCHANGED <<open, disk, free, cwd, users, files, torn, told>>

-----------------------------------------------------------------------------
(* file upload: file_receive_prepare *)

(* The file record that file_receive_prepare allocates replaces the one a  *)
(* transfer may have left, and every failure after that clears it: the     *)
(* descriptor of the session is closed with it.                            *)
DropNewFile(d) ==
  /\ Become(d, [connections[d] EXCEPT !.file = NullFile, !.fd = NoFd])
  /\ open' = open \ {connections[d].fd}

(* -5, -6, -7 (and -4, -5, -6 of file_send_prepare): no file name *)
PrepareWithoutName(d) ==
  /\ InState(d, "OP_WAIT")
  /\ ClearFile(d, "OP_WAIT")
  /\ UNCHANGED <<disk, free, cwd, users, files, torn, told>>

(* -1, -2: the name is too long, or the file would not fit *)
UploadRefused(d) ==
  /\ InState(d, "OP_WAIT")
  /\ DropNewFile(d)
  /\ UNCHANGED <<disk, free, cwd, users, files, torn, told>>

(* -4: mkdir failed between chdir(STORAGE_FOLDER) and chdir("../") *)
UploadDirectoryFails(d) ==
  /\ InState(d, "OP_WAIT")
  /\ DropNewFile(d)
  /\ cwd' = "storage"
  /\ UNCHANGED <<disk, free, users, files, torn, told>>

(* -3: open failed.  A process that was left in the storage folder stays   *)
(* in it on the first chdir and leaves it on the second.                   *)
UploadOpenFails(d) ==
  /\ InState(d, "OP_WAIT")
  /\ DropNewFile(d)
  /\ cwd' = "work"
  /\ UNCHANGED <<disk, free, users, files, torn, told>>

(* Mutant: open without O_EXCL. *)
UploadTakesAnyPath(d, p, size, fd) ==
  /\ InState(d, "OP_WAIT")
  /\ size <= free
  /\ fd \notin open
  /\ Become(d, [connections[d] EXCEPT
                  !.state = "OP_UPLOAD", !.fd = fd,
                  !.file = [path |-> p, size |-> size, rest |-> size,
                            package_rest |-> 0]])
  /\ open' = open \cup {fd}
  /\ disk' = [disk EXCEPT ![p] = 0]
  /\ cwd' = "work"
  /\ torn' = torn \ {p}
  /\ UNCHANGED <<free, users, files, told>>

(* 0: O_CREAT | O_EXCL gave a new file; a descriptor the session still     *)
(* held is overwritten.                                                    *)
UploadAccepted(d, p, size, fd) ==
  /\ InState(d, "OP_WAIT")
  /\ size <= free
  /\ disk[p] = Absent
  /\ fd \notin open
  /\ Become(d, [connections[d] EXCEPT
                  !.state = "OP_UPLOAD", !.fd = fd,
                  !.file = [path |-> p, size |-> size, rest |-> size,
                            package_rest |-> 0]])
  /\ open' = open \cup {fd}
  /\ disk' = [disk EXCEPT ![p] = 0]
  /\ cwd' = "work"
  /\ torn' = torn \ {p}
  /\ UNCHANGED <<free, users, files, told>>

-----------------------------------------------------------------------------
(* Uploading: file_upload *)

(* The bytes that p can still take: what is free, and no file outgrows the *)
(* file system.                                                            *)
Room(p) == Lesser(free, Capacity - disk[p])

(* write() of n bytes with room for space: it fails only when nothing fits *)
(* (or when the bytes lie outside buf), and may otherwise be short.        *)
WriteMayFail(n, space) == n > INBUFSIZE \/ (n > 0 /\ space = 0)
WriteMayPass(n, space) == n < SizeMod - 1 /\ (n > 0 => space > 0)

Upload(d, rlen, sig, ps) ==
  LET f == connections[d].file
  IN  UploadStep(f.rest, f.package_rest, rlen, sig, ps)

(* file_upload_write failed, or a "cancel" header: the file is removed,    *)
(* with the bytes this call has just written to it.                        *)
AbortUpload(d, written) ==
  /\ Unlink(connections[d].file.path, written)
  /\ ClearFile(d, "OP_WAIT")
  /\ UNCHANGED <<cwd, users, files, torn, told>>

(* rlen bytes were received (-1: an error), and both writes passed. *)
UploadReceives(d, rlen, sig, ps) ==
  LET u == Upload(d, rlen, sig, ps)
      p == connections[d].file.path
      w1 == Lesser(u.first, Room(p))
      w2 == Lesser(u.second, Room(p) - w1)
  IN  /\ InState(d, "OP_UPLOAD")
      /\ ~u.cancel
      /\ WriteMayPass(u.first, Room(p))
      /\ WriteMayPass(u.second, Room(p) - w1)
      /\ disk' = [disk EXCEPT ![p] = @ + w1 + w2]
      /\ free' = free - w1 - w2
      /\ torn' = IF w1 + w2 < u.first + u.second THEN torn \cup {p} ELSE torn
      /\ Become(d, [connections[d] EXCEPT
                      !.file.rest = u.rest,
                      !.file.package_rest = u.package_rest,
                      !.state = IF u.rest = 0 THEN "OP_UPLOAD_DESCRIPTION"
                                              ELSE "OP_UPLOAD"])
      /\ UNCHANGED <<open, cwd, users, files, told>>

UploadCancelled(d, rlen, sig, ps) ==
  LET u == Upload(d, rlen, sig, ps)
      room == Room(connections[d].file.path)
  IN  /\ InState(d, "OP_UPLOAD")
      /\ u.cancel
      /\ WriteMayPass(u.first, room)
      /\ AbortUpload(d, Lesser(u.first, room))

UploadWriteFails(d, rlen, sig, ps) ==
  LET u == Upload(d, rlen, sig, ps)
      room == Room(connections[d].file.path)
      w1 == Lesser(u.first, room)
  IN  /\ InState(d, "OP_UPLOAD")
      /\ \/ /\ WriteMayFail(u.first, room)
            /\ AbortUpload(d, 0)
         \/ /\ WriteMayPass(u.first, room)
            /\ WriteMayFail(u.second, room - w1)
            /\ AbortUpload(d, w1)

(* Mutant: the file is not removed. *)
UploadEofKeepsFile(d) ==
  /\ InState(d, "OP_UPLOAD")
  /\ connections[d].file.rest # 0
  /\ ClearFile(d, "OP_WAIT")
  /\ UNCHANGED <<disk, free, cwd, users, files, torn, told>>

(* read() returned 0.  With nothing left to come, only the state changes:  *)
(* the session keeps the file and the descriptor.                          *)
UploadEof(d) ==
  /\ InState(d, "OP_UPLOAD")
  /\ connections[d].file.rest # 0
  /\ AbortUpload(d, 0)

UploadEofOfEmptyFile(d) ==
  /\ InState(d, "OP_UPLOAD")
  /\ connections[d].file.rest = 0
  /\ Become(d, [connections[d] EXCEPT !.state = "OP_WAIT"])
  /\ UNCHANGED <<open, disk, free, cwd, users, files, torn, told>>

-----------------------------------------------------------------------------
(* Publishing: the end of the description was found                        *)

(* Mutants: the answer does not depend on the insertion; it is inverted. *)
AlwaysReturnsTrue ==
  {[stored |-> TRUE, returned |-> TRUE], [stored |-> FALSE, returned |-> TRUE]}
ReturnsZeroOnSuccess ==
  {[stored |-> TRUE, returned |-> FALSE], [stored |-> FALSE, returned |-> TRUE]}

(* db_save_file: whether the row is in the table in the end, and whether   *)
(* what was returned is true in C.  SQLite returns the id or -1, and the   *)
(* id also when the step that commits fails; PostgreSQL the id or 0.       *)
SaveOutcome ==
  IF Postgres
  THEN {[stored |-> TRUE, returned |-> TRUE],
        [stored |-> FALSE, returned |-> FALSE]}
  ELSE {[stored |-> TRUE, returned |-> TRUE],
        [stored |-> FALSE, returned |-> TRUE]}

RowOf(s) ==
  [uid |-> s.uid, size |-> s.file.size, path |-> s.file.path,
   by |-> s.uname]

SaveFile(d) ==
  LET s == connections[d]
  IN  /\ InState(d, "OP_UPLOAD_DESCRIPTION")
      /\ Len(files) < MaxFiles
      /\ \E o \in SaveOutcome :
           /\ files' = IF o.stored THEN Append(files, RowOf(s)) ELSE files
           /\ IF o.returned
              THEN told' = told \cup {s.file.path} /\ UNCHANGED <<disk, free>>
              ELSE Unlink(s.file.path, 0) /\ UNCHANGED told
      /\ ClearFile(d, "OP_WAIT")
      /\ UNCHANGED <<cwd, users, torn>>

-----------------------------------------------------------------------------
(* file download: file_send_prepare *)

FileOf(row) ==
  [path |-> row.path, size |-> row.size, rest |-> row.size,
   package_rest |-> 0]

(* -1: no such row; sess->file is overwritten, the descriptor stays. *)
DownloadNotFound(d) ==
  /\ InState(d, "OP_WAIT")
  /\ Become(d, [connections[d] EXCEPT !.file = NullFile])
  /\ UNCHANGED <<open, disk, free, cwd, users, files, torn, told>>

(* -2: open failed; the file record stays, the descriptor too. *)
DownloadOpenFails(d, i) ==
  /\ InState(d, "OP_WAIT")
  /\ cwd # "work" \/ disk[files[i].path] = Absent \/ open = Desc
  /\ Become(d, [connections[d] EXCEPT !.file = FileOf(files[i])])
  /\ UNCHANGED <<open, disk, free, cwd, users, files, torn, told>>

(* -3: the sizes differ; the descriptor just opened is forgotten. *)
DownloadDamaged(d, i, fd) ==
  /\ InState(d, "OP_WAIT")
  /\ cwd = "work"
  /\ disk[files[i].path] \notin {Absent, files[i].size}
  /\ fd \notin open
  /\ Become(d, [connections[d] EXCEPT !.file = FileOf(files[i])])
  /\ open' = open \cup {fd}
  /\ UNCHANGED <<disk, free, cwd, users, files, torn, told>>

DownloadAccepted(d, i, fd) ==
  /\ InState(d, "OP_WAIT")
  /\ cwd = "work"
  /\ disk[files[i].path] = files[i].size
  /\ fd \notin open
  /\ Become(d, [connections[d] EXCEPT
                  !.state = "OP_DOWNLOAD", !.fd = fd,
                  !.file = [FileOf(files[i]) EXCEPT
                              !.package_rest = PACKAGE_SIZE]])
  /\ open' = open \cup {fd}
  /\ UNCHANGED <<disk, free, cwd, users, files, torn, told>>

-----------------------------------------------------------------------------
(* Downloading: file_download and download_confirm *)

(* The bytes read() returns: no more than asked for, no more than the file *)
(* has behind what was read before.                                        *)
ReadLen(f) ==
  Lesser(DownloadLen(f.rest, f.package_rest),
         disk[f.path] - (f.size - f.rest))

(* The package is used up before anything was read. *)
DownloadPauses(d) ==
  /\ InState(d, "OP_DOWNLOAD")
  /\ connections[d].file.package_rest = 0
  /\ Become(d, [connections[d] EXCEPT
                  !.state = "OP_DOWNLOAD_WAIT_CONFIRM_PACKAGE"])
  /\ UNCHANGED <<open, disk, free, cwd, users, files, torn, told>>

DownloadEof(d) ==
  LET f == connections[d].file
  IN  /\ InState(d, "OP_DOWNLOAD")
      /\ f.package_rest # 0
      /\ ReadLen(f) = 0
      /\ IF f.rest # 0
         THEN ClearFile(d, "OP_WAIT")
         ELSE /\ Become(d, [connections[d] EXCEPT !.state = "OP_WAIT"])
              /\ UNCHANGED open
      /\ UNCHANGED <<disk, free, cwd, users, files, torn, told>>

(* write() to the client failed *)
DownloadWriteFails(d) ==
  /\ InState(d, "OP_DOWNLOAD")
  /\ connections[d].file.package_rest # 0
  /\ ReadLen(connections[d].file) # 0
  /\ ClearFile(d, "ERR")
  /\ UNCHANGED <<disk, free, cwd, users, files, torn, told>>

DownloadSends(d) ==
  LET f == connections[d].file
      rest == Minus(f.rest, ReadLen(f))
      package_rest == Minus(f.package_rest, ReadLen(f))
  IN  /\ InState(d, "OP_DOWNLOAD")
      /\ f.package_rest # 0
      /\ ReadLen(f) # 0
      /\ IF rest = 0
         THEN ClearFile(d, "OP_WAIT")
         ELSE /\ Become(d, [connections[d] EXCEPT
                              !.file.rest = rest,
                              !.file.package_rest = package_rest,
                              !.state =
                                IF package_rest = 0
                                THEN "OP_DOWNLOAD_WAIT_CONFIRM_PACKAGE"
                                ELSE "OP_DOWNLOAD"])
              /\ UNCHANGED open
      /\ UNCHANGED <<disk, free, cwd, users, files, torn, told>>

ConfirmContinue(d, ps) ==
  /\ InState(d, "OP_DOWNLOAD_WAIT_CONFIRM_PACKAGE")
  /\ Become(d, [connections[d] EXCEPT !.state = "OP_DOWNLOAD",
                                      !.file.package_rest = ps])
  /\ UNCHANGED <<open, disk, free, cwd, users, files, torn, told>>

(* Mutant: the state stays. *)
ConfirmCancelStays(d) ==
  /\ InState(d, "OP_DOWNLOAD_WAIT_CONFIRM_PACKAGE")
  /\ ClearFile(d, "OP_DOWNLOAD_WAIT_CONFIRM_PACKAGE")
  /\ UNCHANGED <<disk, free, cwd, users, files, torn, told>>

ConfirmCancel(d) ==
  /\ InState(d, "OP_DOWNLOAD_WAIT_CONFIRM_PACKAGE")
  /\ ClearFile(d, "OP_WAIT")
  /\ UNCHANGED <<disk, free, cwd, users, files, torn, told>>

-----------------------------------------------------------------------------
(* The process ends (a signal, or a client that makes it crash) and is     *)
(* started again: files and tables stay as they are.                       *)
Restart ==
  /\ open # {}
  /\ open' = {}
  /\ connections' = [d \in Desc |-> NullSession]
  /\ cwd' = "work"
  /\ UNCHANGED <<disk, free, users, files, torn, told>>

LoginStep(d) ==
  \/ \E n \in Name : Register(d, n) \/ EnterName(d, n)
  \/ EnterAnonymous(d)
  \/ LogIn(d)
  \/ LogInFails(d)

UploadCommand(d) ==
  \/ PrepareWithoutName(d)
  \/ UploadRefused(d)
  \/ UploadDirectoryFails(d)
  \/ UploadOpenFails(d)
  \/ \E p \in Path, size \in Size, fd \in Desc : UploadAccepted(d, p, size, fd)

UploadTransfer(d) ==
  \/ \E rlen \in {-1} \cup 1 .. INBUFSIZE, sig \in Signal, ps \in PackageSize :
       \/ UploadReceives(d, rlen, sig, ps)
       \/ UploadCancelled(d, rlen, sig, ps)
       \/ UploadWriteFails(d, rlen, sig, ps)
  \/ UploadEof(d)
  \/ UploadEofOfEmptyFile(d)

DownloadCommand(d) ==
  \/ DownloadNotFound(d)
  \/ \E i \in Visible :
       \/ DownloadOpenFails(d, i)
       \/ \E fd \in Desc : DownloadDamaged(d, i, fd) \/ DownloadAccepted(d, i, fd)

DownloadTransfer(d) ==
  \/ DownloadPauses(d)
  \/ DownloadEof(d)
  \/ DownloadWriteFails(d)
  \/ DownloadSends(d)
  \/ \E ps \in PackageSize : ConfirmContinue(d, ps)
  \/ ConfirmCancel(d)

Next ==
  \/ \E d \in Desc : \/ Accept(d)
                     \/ Close(d)
                     \/ LoginStep(d)
                     \/ UploadCommand(d)
                     \/ UploadTransfer(d)
                     \/ SaveFile(d)
                     \/ DownloadCommand(d)
                     \/ DownloadTransfer(d)
  \/ Restart

Spec == Init /\ [][Next]_vars

-----------------------------------------------------------------------------
(* Properties *)

TypeOK ==
  /\ open \subseteq Desc
  /\ connections \in [Desc -> Session]
  /\ disk \in [Path -> {Absent} \cup 0 .. Capacity]
  /\ free \in Nat
  /\ cwd \in {"work", "storage"}
  /\ users \in Seq(Name)
  /\ files \in Seq(Row)
  /\ torn \subseteq Path
  /\ told \subseteq Path

(* No handler dereferences a null sess->file or uses descriptor -1 for its *)
(* file: the states entered by file_receive_prepare and file_send_prepare  *)
(* are left by everything that clears the file.  A session that transfers  *)
(* without a descriptor would never be served again.                       *)
TransferHasFile ==
  \A d \in Desc :
    connections[d].state \in FileStates =>
      connections[d].file # NullFile /\ connections[d].fd # NoFd

(* Every descriptor the server uses is open, and belongs to one session in *)
(* one role: nobody reads from, writes to or closes another session's      *)
(* socket or file.                                                         *)
DescriptorsOwned ==
  /\ Connected \subseteq open
  /\ \A d \in Desc :
       connections[d].fd # NoFd =>
         /\ connections[d].fd \in open \ Connected
         /\ \A e \in Desc :
              connections[e].fd = connections[d].fd => e = d

(* A path belongs to one upload or to one row, and the file exists: no     *)
(* abort unlinks, and no upload overwrites, what another upload stores or  *)
(* what is published.                                                      *)
PathsOwned ==
  /\ \A d \in Desc :
       Storing(d) =>
         /\ disk[connections[d].file.path] # Absent
         /\ connections[d].file.path \notin Published
         /\ \A e \in Desc :
              Storing(e) /\ connections[e].file.path = connections[d].file.path
                => e = d
  /\ \A i \in 1 .. Len(files) :
       /\ disk[files[i].path] # Absent
       /\ \A j \in 1 .. Len(files) :
            files[j].path = files[i].path => j = i

(* The size in the table is the size of the file, whatever package sizes   *)
(* the client chose, unless the disk filled up while the file was written  *)
(* (write() was short, which file_upload does not look at).                *)
RowsIntact ==
  \A i \in 1 .. Len(files) :
    files[i].path \notin torn => disk[files[i].path] = files[i].size

(* The user id stored with a file is the id of the user who uploaded it.   *)
(* Anonymous uploads are exempt: their sessions never assign uid.          *)
(* Over SQLite a registration that was not stored has an id without a row. *)
RowOwnerIsUploader ==
  \A i \in 1 .. Len(files) :
    files[i].by # Anonymous =>
      /\ files[i].uid \in 1 .. Len(users)
      /\ users[files[i].uid] = files[i].by

(* Without empty files and without a full disk the server gives back every *)
(* descriptor: it holds the sockets and the files of its sessions and      *)
(* nothing else.                                                           *)
DescriptorsReturned ==
  (0 \notin Size /\ torn = {}) =>
    open = Connected \cup ({connections[d].fd : d \in Desc} \ {NoFd})

(* A file on disk that no upload stores and no row refers to. *)
Orphan(p) ==
  /\ disk[p] # Absent
  /\ p \notin Published
  /\ \A d \in Desc : Storing(d) => connections[d].file.path # p

(* A file stays behind without a row only when the process stopped, when   *)
(* its description was being entered, when the file was empty, or when the *)
(* process had been left in the storage folder, where unlink misses it.    *)
OrphansOnlyWhileDescribing ==
  [][\A p \in Path :
       Orphan(p)' /\ ~Orphan(p) =>
         \/ open' = {}
         \/ cwd # "work"
         \/ \E d \in Desc :
              /\ Storing(d)
              /\ connections[d].file.path = p
              /\ \/ InState(d, "OP_UPLOAD_DESCRIPTION")
                 \/ connections[d].file.size = 0]_vars

(* The files table with the files it refers to, as its readers see it. *)
PublishedStore ==
  [i \in 1 .. Len(files) |->
     [uid |-> files[i].uid, bytes |-> disk[files[i].path]]]

AbstractStore == INSTANCE Store WITH store <- PublishedStore

(* What is published stays, with its owner and its bytes, through aborted  *)
(* uploads, closed sessions, full disks and restarts of the process.       *)
ImplementsStore == AbstractStore!Spec

(* "File is saved!" is said of files that are in the table (session.c). *)
SavedReplyIsTrue == told \subseteq Published

-----------------------------------------------------------------------------
(* The inductive invariant behind the properties (see BoardProofs)         *)

DownloadStates == {"OP_DOWNLOAD", "OP_DOWNLOAD_WAIT_CONFIRM_PACKAGE"}

(* What was written and what is still to come make up the announced size,  *)
(* modulo 2^w.                                                             *)
Accounted(f) == disk[f.path] + f.rest \in {f.size, f.size + SizeMod}

(* One session and the storage. *)
SessionInv(s) ==
  /\ s.file = NullFile \/ s.file.path \in Path
  /\ s.state \in FileStates => s.file.path \in Path /\ s.fd \in Desc
  /\ s.state \in StoringStates =>
       /\ disk[s.file.path] # Absent
       /\ s.file.path \notin Published
       /\ s.file.path \notin torn => Accounted(s.file)
  /\ s.state = "OP_UPLOAD_DESCRIPTION" => s.file.rest = 0
  /\ s.state \in DownloadStates =>
       /\ s.file.path \in Published
       /\ disk[s.file.path] = s.file.size
       /\ s.file.rest <= s.file.size

(* No two sessions store the same file. *)
StoresApart(d, e) ==
  Storing(d) /\ Storing(e) /\ connections[d].file.path = connections[e].file.path
    => d = e

IInv ==
  /\ TypeOK
  /\ \A d \in Desc : SessionInv(connections[d])
  /\ \A d, e \in Desc : StoresApart(d, e)
  /\ \A i \in 1 .. Len(files) : disk[files[i].path] # Absent
  /\ \A i, j \in 1 .. Len(files) : files[i].path = files[j].path => i = j
  /\ RowsIntact
=============================================================================
