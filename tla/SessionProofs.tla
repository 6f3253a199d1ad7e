---------------------------- MODULE SessionProofs ----------------------------
(***************************************************************************)
(* Theorems about the sessions of Board: whose descriptors they use, as    *)
(* whom they act, and what they leave behind.                              *)
(*                                                                         *)
(* DescriptorsOwned is inductive once the types are known (IInv).  A step  *)
(* of a handler does one of three things to the descriptors: it leaves the *)
(* one of its session as it is (KeepsFd), closes it (DropsFd), or replaces *)
(* it by one that open() has just given (TakesFd).                         *)
(*                                                                         *)
(* RowOwnerIsUploader is not inductive: it needs to know that a session    *)
(* behind the login has the id of its name (ActsAsItself), which only the  *)
(* handlers of the login change.                                           *)
(***************************************************************************)
EXTENDS BoardProofs

-----------------------------------------------------------------------------
(* Descriptors                                                             *)

(* A handler that works with the descriptor its session has. *)
LEMMA KeepsFd ==
  ASSUME IInv, DescriptorsOwned, NEW d \in Connected, NEW s,
         Become(d, s),
         s.state # "NULL",
         s.fd = connections[d].fd,
         open \subseteq open'
  PROVE  DescriptorsOwned'
<1>1. \A e \in Desc :
        connections'[e] = IF e = d THEN s ELSE connections[e]
  BY DEF IInv, TypeOK, Become
<1>2. Connected' = Connected
  BY <1>1 DEF Connected
<1>3. \A e \in Desc : connections'[e].fd = connections[e].fd
  BY <1>1
<1> QED
  BY <1>2, <1>3 DEF DescriptorsOwned

(* A handler that closes it. *)
LEMMA DropsFd ==
  ASSUME IInv, DescriptorsOwned, NEW d \in Connected, NEW s,
         Become(d, s),
         s.state # "NULL",
         s.fd = NoFd,
         open' = open \ {connections[d].fd}
  PROVE  DescriptorsOwned'
<1>1. \A e \in Desc :
        connections'[e] = IF e = d THEN s ELSE connections[e]
  BY DEF IInv, TypeOK, Become
<1>2. Connected' = Connected /\ Connected \subseteq Desc
  BY <1>1 DEF Connected
<1>3. d \in Desc /\ NoFd \notin Desc
  BY BoardAssumption DEF Connected
<1>4. connections[d].fd \notin Connected
  BY <1>2, <1>3 DEF DescriptorsOwned
<1> QED
  BY <1>1, <1>2, <1>3, <1>4 DEF DescriptorsOwned

(* A handler that opens a file; what it had before stays open, unused. *)
LEMMA TakesFd ==
  ASSUME IInv, DescriptorsOwned, NEW d \in Connected, NEW s,
         NEW fd \in Desc \ open,
         Become(d, s),
         s.state # "NULL",
         s.fd = fd,
         open' = open \cup {fd}
  PROVE  DescriptorsOwned'
<1>1. \A e \in Desc :
        connections'[e] = IF e = d THEN s ELSE connections[e]
  BY DEF IInv, TypeOK, Become
<1>2. Connected' = Connected
  BY <1>1 DEF Connected
<1>3. fd # NoFd
  BY BoardAssumption
<1>4. fd \notin Connected /\ \A e \in Desc : connections[e].fd # fd
  BY <1>3 DEF DescriptorsOwned
<1> QED
  BY <1>1, <1>2, <1>3, <1>4 DEF DescriptorsOwned

(* clear_file_from_sess does the first or the second of them. *)
LEMMA ClearFileOwned ==
  ASSUME IInv, DescriptorsOwned, NEW d \in Connected, NEW st \in State,
         st # "NULL",
         ClearFile(d, st)
  PROVE  DescriptorsOwned'
<1> DEFINE c == connections[d]
           s == [Cleared(c) EXCEPT !.state = st]
<1>1. c \in Session
  BY DEF IInv, TypeOK, Connected
<1>2. CASE c.file = NullFile
  <2>1. s.state = st /\ s.fd = c.fd
    BY <1>1, <1>2 DEF Cleared, Session
  <2>2. Become(d, s) /\ open' = open
    BY <1>2 DEF ClearFile, ClosedBy
  <2> HIDE DEF s
  <2> QED
    BY <2>1, <2>2, KeepsFd
<1>3. CASE c.file # NullFile
  <2>1. s.state = st /\ s.fd = NoFd
    BY <1>1, <1>3 DEF Cleared, Session
  <2>2. Become(d, s) /\ open' = open \ {c.fd}
    BY <1>3 DEF ClearFile, ClosedBy
  <2> HIDE DEF s
  <2> QED
    BY <2>1, <2>2, DropsFd
<1> QED
  BY <1>2, <1>3

(* A session in a given state is connected. *)
LEMMA ConnectedIn ==
  ASSUME NEW d \in Desc, NEW st, st # "NULL", InState(d, st)
  PROVE  d \in Connected
BY DEF InState, Connected

(* accept_client: the new socket is nobody's file. *)
LEMMA AcceptOwned ==
  ASSUME IInv, DescriptorsOwned, NEW d \in Desc, Accept(d)
  PROVE  DescriptorsOwned'
<1>1. PICK garbage \in Garbage :
        Become(d, [NullSession EXCEPT !.state = "OP_LOGIN_USR",
                                      !.uid = garbage])
  BY DEF Accept
<1> DEFINE s == [NullSession EXCEPT !.state = "OP_LOGIN_USR", !.uid = garbage]
<1>2. s.state # "NULL" /\ s.fd = NoFd
  BY DEF NullSession
<1>3. \A e \in Desc :
        connections'[e] = IF e = d THEN s ELSE connections[e]
  BY <1>1 DEF IInv, TypeOK, Become
<1> HIDE DEF s
<1>4. d \notin open /\ open' = open \cup {d}
  BY DEF Accept
<1>5. Connected' = Connected \cup {d}
  BY <1>2, <1>3 DEF Connected
<1> QED
  BY <1>2, <1>3, <1>4, <1>5 DEF DescriptorsOwned

(* close_session *)
LEMMA CloseOwned ==
  ASSUME IInv, DescriptorsOwned, NEW d \in Desc, Close(d)
  PROVE  DescriptorsOwned'
<1> DEFINE c == connections[d]
<1>1. \A e \in Desc :
        connections'[e] = IF e = d THEN NullSession ELSE connections[e]
  BY DEF Close, IInv, TypeOK, Become
<1>2. NullSession.state = "NULL" /\ NullSession.fd = NoFd
  BY DEF NullSession
<1>3. Connected' = Connected \ {d}
  BY <1>1, <1>2 DEF Connected
<1>4. d \in Connected /\ Connected \subseteq Desc /\ NoFd \notin Desc
  BY BoardAssumption DEF Close, Connected
<1>5. open' = open \ {d} \/ open' = open \ {d, c.fd}
  BY DEF Close, ClosedBy
<1>6. c.fd \notin Connected
  BY <1>4 DEF DescriptorsOwned
<1> QED
  BY <1>1, <1>2, <1>3, <1>4, <1>5, <1>6 DEF DescriptorsOwned

(* process_user_name, create_user and login open and close nothing. *)
LEMMA LoginOwned ==
  ASSUME IInv, DescriptorsOwned, NEW d \in Desc, LoginStep(d)
  PROVE  DescriptorsOwned'
<1> DEFINE c == connections[d]
<1>1. ASSUME NEW s, Become(d, s), s.state # "NULL", s.fd = c.fd,
             InState(d, "OP_LOGIN_USR") \/ InState(d, "OP_LOGIN_PSS"),
             open' = open
      PROVE  DescriptorsOwned'
  BY <1>1, ConnectedIn, KeepsFd
<1>2. c \in Session
  BY DEF IInv, TypeOK
<1>3. ASSUME NEW n \in Name, Register(d, n)
      PROVE  DescriptorsOwned'
  <2> DEFINE s == [c EXCEPT !.state = "OP_WAIT", !.uname = n,
                            !.uid = Len(users) + 1]
  <2>1. s.state # "NULL" /\ s.fd = c.fd
    BY <1>2 DEF Session
  <2>2. Become(d, s)
    BY <1>3 DEF Register
  <2> HIDE DEF s
  <2> QED
    BY <1>1, <1>3, <2>1, <2>2 DEF Register
<1>4. ASSUME NEW n \in Name, EnterName(d, n)
      PROVE  DescriptorsOwned'
  <2> DEFINE s == [c EXCEPT !.state = "OP_LOGIN_PSS", !.uname = n]
  <2>1. s.state # "NULL" /\ s.fd = c.fd
    BY <1>2 DEF Session
  <2>2. Become(d, s)
    BY <1>4 DEF EnterName
  <2> HIDE DEF s
  <2> QED
    BY <1>1, <1>4, <2>1, <2>2 DEF EnterName
<1>5. CASE EnterAnonymous(d)
  <2> DEFINE s == [c EXCEPT !.state = "OP_WAIT", !.uname = Anonymous]
  <2>1. s.state # "NULL" /\ s.fd = c.fd
    BY <1>2 DEF Session
  <2>2. Become(d, s)
    BY <1>5 DEF EnterAnonymous
  <2> HIDE DEF s
  <2> QED
    BY <1>1, <1>5, <2>1, <2>2 DEF EnterAnonymous
<1>6. CASE LogIn(d)
  <2>1. PICK i \in 1 .. Len(users) :
          Become(d, [c EXCEPT !.state = "OP_WAIT", !.uid = i])
    BY <1>6 DEF LogIn
  <2> DEFINE s == [c EXCEPT !.state = "OP_WAIT", !.uid = i]
  <2>2. s.state # "NULL" /\ s.fd = c.fd
    BY <1>2 DEF Session
  <2>3. Become(d, s)
    BY <2>1
  <2> HIDE DEF s
  <2> QED
    BY <1>1, <1>6, <2>2, <2>3 DEF LogIn
<1>7. CASE LogInFails(d)
  <2> DEFINE s == [c EXCEPT !.state = "OP_LOGIN_USR"]
  <2>1. s.state # "NULL" /\ s.fd = c.fd
    BY <1>2 DEF Session
  <2>2. Become(d, s)
    BY <1>7 DEF LogInFails
  <2> HIDE DEF s
  <2> QED
    BY <1>1, <1>7, <2>1, <2>2 DEF LogInFails
<1> QED
  BY <1>3, <1>4, <1>5, <1>6, <1>7 DEF LoginStep

(* file upload: a refusal closes the descriptor, the new file brings one. *)
LEMMA UploadCommandOwned ==
  ASSUME IInv, DescriptorsOwned, NEW d \in Desc, UploadCommand(d)
  PROVE  DescriptorsOwned'
<1> DEFINE c == connections[d]
<1>1. c \in Session
  BY DEF IInv, TypeOK
<1>2. CASE PrepareWithoutName(d)
  BY <1>2, NoFileStates, ConnectedIn, ClearFileOwned DEF PrepareWithoutName
<1>3. CASE UploadRefused(d) \/ UploadDirectoryFails(d) \/ UploadOpenFails(d)
  <2> DEFINE s == [c EXCEPT !.file = NullFile, !.fd = NoFd]
  <2>1. InState(d, "OP_WAIT") /\ Become(d, s) /\ open' = open \ {c.fd}
    BY <1>3 DEF UploadRefused, UploadDirectoryFails, UploadOpenFails,
                DropNewFile
  <2>2. s.state # "NULL" /\ s.fd = NoFd
    BY <1>1, <2>1 DEF Session, InState
  <2> HIDE DEF s
  <2> QED
    BY <2>1, <2>2, ConnectedIn, DropsFd
<1>4. ASSUME NEW p \in Path, NEW size \in Size, NEW fd \in Desc,
             UploadAccepted(d, p, size, fd)
      PROVE  DescriptorsOwned'
  <2> DEFINE s == [c EXCEPT !.state = "OP_UPLOAD", !.fd = fd,
                            !.file = [path |-> p, size |-> size,
                                      rest |-> size, package_rest |-> 0]]
  <2>1. /\ InState(d, "OP_WAIT")
        /\ fd \notin open
        /\ Become(d, s)
        /\ open' = open \cup {fd}
    BY <1>4 DEF UploadAccepted
  <2>2. s.state # "NULL" /\ s.fd = fd
    BY <1>1 DEF Session
  <2> HIDE DEF s
  <2> QED
    BY <2>1, <2>2, ConnectedIn, TakesFd
<1> QED
  BY <1>2, <1>3, <1>4 DEF UploadCommand

(* file_upload keeps the file open or closes it at the end. *)
LEMMA UploadTransferOwned ==
  ASSUME IInv, DescriptorsOwned, NEW d \in Desc, UploadTransfer(d)
  PROVE  DescriptorsOwned'
<1> DEFINE c == connections[d]
<1>1. c \in Session /\ c.file \in File
  BY DEF IInv, TypeOK, Session
<1>2. ASSUME NEW written, InState(d, "OP_UPLOAD"), AbortUpload(d, written)
      PROVE  DescriptorsOwned'
  BY <1>2, NoFileStates, ConnectedIn, ClearFileOwned DEF AbortUpload
<1>3. ASSUME NEW rlen \in {-1} \cup 1 .. INBUFSIZE, NEW sig \in Signal,
             NEW ps \in PackageSize, UploadReceives(d, rlen, sig, ps)
      PROVE  DescriptorsOwned'
  <2> DEFINE u == Upload(d, rlen, sig, ps)
             st == IF u.rest = 0 THEN "OP_UPLOAD_DESCRIPTION" ELSE "OP_UPLOAD"
             s == [c EXCEPT !.file.rest = u.rest,
                            !.file.package_rest = u.package_rest,
                            !.state = st]
  <2>1. InState(d, "OP_UPLOAD") /\ Become(d, s) /\ open' = open
    BY <1>3 DEF UploadReceives
  <2>2. st # "NULL"
    OBVIOUS
  <2> HIDE DEF u, st
  <2>3. s.state # "NULL" /\ s.fd = c.fd
    BY <1>1, <2>2 DEF Session
  <2> HIDE DEF s
  <2> QED
    BY <2>1, <2>3, ConnectedIn, KeepsFd
<1>4. ASSUME NEW rlen \in {-1} \cup 1 .. INBUFSIZE, NEW sig \in Signal,
             NEW ps \in PackageSize,
             \/ UploadCancelled(d, rlen, sig, ps)
             \/ UploadWriteFails(d, rlen, sig, ps)
      PROVE  DescriptorsOwned'
  BY <1>2, <1>4 DEF UploadCancelled, UploadWriteFails
<1>5. CASE UploadEof(d)
  BY <1>2, <1>5 DEF UploadEof
<1>6. CASE UploadEofOfEmptyFile(d)
  <2> DEFINE s == [c EXCEPT !.state = "OP_WAIT"]
  <2>1. InState(d, "OP_UPLOAD") /\ Become(d, s) /\ open' = open
    BY <1>6 DEF UploadEofOfEmptyFile
  <2>2. s.state # "NULL" /\ s.fd = c.fd
    BY <1>1 DEF Session
  <2> HIDE DEF s
  <2> QED
    BY <2>1, <2>2, ConnectedIn, KeepsFd
<1> QED
  BY <1>3, <1>4, <1>5, <1>6 DEF UploadTransfer

(* file download: what the session had open it keeps, or forgets. *)
LEMMA DownloadCommandOwned ==
  ASSUME IInv, DescriptorsOwned, NEW d \in Desc, DownloadCommand(d)
  PROVE  DescriptorsOwned'
<1> DEFINE c == connections[d]
<1>1. c \in Session
  BY DEF IInv, TypeOK
<1>2. ASSUME NEW f, InState(d, "OP_WAIT"), Become(d, [c EXCEPT !.file = f]),
             open \subseteq open'
      PROVE  DescriptorsOwned'
  <2> DEFINE s == [c EXCEPT !.file = f]
  <2>1. s.state # "NULL" /\ s.fd = c.fd
    BY <1>1, <1>2 DEF Session, InState
  <2>2. Become(d, s)
    BY <1>2
  <2> HIDE DEF s
  <2> QED
    BY <1>2, <2>1, <2>2, ConnectedIn, KeepsFd
<1>3. CASE DownloadNotFound(d)
  BY <1>2, <1>3 DEF DownloadNotFound
<1>4. ASSUME NEW i \in Visible, DownloadOpenFails(d, i)
      PROVE  DescriptorsOwned'
  BY <1>2, <1>4 DEF DownloadOpenFails
<1>5. ASSUME NEW i \in Visible, NEW fd \in Desc, DownloadDamaged(d, i, fd)
      PROVE  DescriptorsOwned'
  BY <1>2, <1>5 DEF DownloadDamaged
<1>6. ASSUME NEW i \in Visible, NEW fd \in Desc, DownloadAccepted(d, i, fd)
      PROVE  DescriptorsOwned'
  <2> DEFINE f == [FileOf(files[i]) EXCEPT !.package_rest = PACKAGE_SIZE]
             s == [c EXCEPT !.state = "OP_DOWNLOAD", !.fd = fd, !.file = f]
  <2>1. /\ InState(d, "OP_WAIT")
        /\ fd \notin open
        /\ Become(d, s)
        /\ open' = open \cup {fd}
    BY <1>6 DEF DownloadAccepted
  <2> HIDE DEF f
  <2>2. s.state # "NULL" /\ s.fd = fd
    BY <1>1 DEF Session
  <2> HIDE DEF s
  <2> QED
    BY <2>1, <2>2, ConnectedIn, TakesFd
<1> QED
  BY <1>3, <1>4, <1>5, <1>6 DEF DownloadCommand

(* file_download and download_confirm *)
LEMMA DownloadTransferOwned ==
  ASSUME IInv, DescriptorsOwned, NEW d \in Desc, DownloadTransfer(d)
  PROVE  DescriptorsOwned'
<1> DEFINE c == connections[d]
           f == c.file
<1>1. c \in Session /\ f \in File
  BY DEF IInv, TypeOK, Session
<1>2. ASSUME d \in Connected, NEW s, Become(d, s), s.state # "NULL",
             s.fd = c.fd, UNCHANGED open
      PROVE  DescriptorsOwned'
  BY <1>2, KeepsFd
<1>3. /\ InState(d, "OP_DOWNLOAD") => d \in Connected
      /\ InState(d, "OP_DOWNLOAD_WAIT_CONFIRM_PACKAGE") => d \in Connected
  BY ConnectedIn
<1>4. ASSUME NEW st, st # "NULL", d \in Connected, UNCHANGED open,
             Become(d, [c EXCEPT !.state = st])
      PROVE  DescriptorsOwned'
  <2> DEFINE s == [c EXCEPT !.state = st]
  <2>1. s.state # "NULL" /\ s.fd = c.fd
    BY <1>1, <1>4 DEF Session
  <2>2. Become(d, s)
    BY <1>4
  <2> HIDE DEF s
  <2> QED
    BY <1>2, <1>4, <2>1, <2>2
<1>5. CASE DownloadPauses(d)
  BY <1>3, <1>4, <1>5 DEF DownloadPauses
<1>6. CASE DownloadEof(d)
  <2>1. CASE f.rest # 0
    BY <1>3, <1>6, <2>1, NoFileStates, ClearFileOwned DEF DownloadEof
  <2>2. CASE f.rest = 0
    BY <1>3, <1>4, <1>6, <2>2 DEF DownloadEof
  <2> QED
    BY <2>1, <2>2
<1>7. CASE DownloadWriteFails(d)
  BY <1>3, <1>7, NoFileStates, ClearFileOwned DEF DownloadWriteFails
<1>8. CASE DownloadSends(d)
  <2> DEFINE rest == Minus(f.rest, ReadLen(f))
             package_rest == Minus(f.package_rest, ReadLen(f))
             st == IF package_rest = 0
                   THEN "OP_DOWNLOAD_WAIT_CONFIRM_PACKAGE"
                   ELSE "OP_DOWNLOAD"
             s == [c EXCEPT !.file.rest = rest,
                            !.file.package_rest = package_rest,
                            !.state = st]
  <2>1. CASE rest = 0
    BY <1>3, <1>8, <2>1, NoFileStates, ClearFileOwned DEF DownloadSends
  <2>2. CASE rest # 0
    <3>1. d \in Connected /\ Become(d, s) /\ UNCHANGED open
      BY <1>3, <1>8, <2>2 DEF DownloadSends
    <3>2. st # "NULL"
      OBVIOUS
    <3> HIDE DEF rest, package_rest, st
    <3>3. s.state # "NULL" /\ s.fd = c.fd
      BY <1>1, <3>2 DEF Session
    <3> HIDE DEF s
    <3> QED
      BY <1>2, <3>1, <3>3
  <2> QED
    BY <2>1, <2>2
<1>9. ASSUME NEW ps \in PackageSize, ConfirmContinue(d, ps)
      PROVE  DescriptorsOwned'
  <2> DEFINE s == [c EXCEPT !.state = "OP_DOWNLOAD",
                            !.file.package_rest = ps]
  <2>1. d \in Connected /\ Become(d, s) /\ UNCHANGED open
    BY <1>3, <1>9 DEF ConfirmContinue
  <2>2. s.state # "NULL" /\ s.fd = c.fd
    BY <1>1 DEF Session
  <2> HIDE DEF s
  <2> QED
    BY <1>2, <2>1, <2>2
<1>10. CASE ConfirmCancel(d)
  BY <1>3, <1>10, NoFileStates, ClearFileOwned DEF ConfirmCancel
<1> QED
  BY <1>5, <1>6, <1>7, <1>8, <1>9, <1>10 DEF DownloadTransfer

(* Any step of the server. *)
LEMMA NextOwned ==
  ASSUME IInv, DescriptorsOwned, [Next]_vars
  PROVE  DescriptorsOwned'
<1>1. ASSUME NEW d \in Desc, SaveFile(d)
      PROVE  DescriptorsOwned'
  BY <1>1, NoFileStates, ConnectedIn, ClearFileOwned DEF SaveFile
<1>2. CASE Restart
  <2>1. \A d \in Desc : /\ connections'[d].state = "NULL"
                        /\ connections'[d].fd = NoFd
    BY <1>2 DEF Restart, NullSession
  <2> QED
    BY <2>1 DEF DescriptorsOwned, Connected
<1>3. CASE UNCHANGED vars
  BY <1>3 DEF vars, DescriptorsOwned, Connected
<1> QED
  BY <1>1, <1>2, <1>3, AcceptOwned, CloseOwned, LoginOwned,
     UploadCommandOwned, UploadTransferOwned, DownloadCommandOwned,
     DownloadTransferOwned DEF Next

(* Nobody reads from, writes to or closes another session's socket or      *)
(* file, however often descriptors are closed, leaked and given again.     *)
THEOREM OwnerOfEveryDescriptor ==
  Spec => []DescriptorsOwned
<1>1. Init => DescriptorsOwned
  BY DEF Init, DescriptorsOwned, Connected, NullSession
<1> QED
  BY <1>1, Invariance, NextOwned, PTL DEF Spec

-----------------------------------------------------------------------------
(* Users.  Over PostgreSQL a registration that is answered is stored; over *)
(* SQLite it need not be (Register), and what follows does not hold.       *)

LoggedIn(s) == s.state \notin LoginStates \cup {"NULL"}

(* Whoever is logged in under a name has the id of that name. *)
ActsAsItself ==
  \A d \in Desc :
    LoggedIn(connections[d]) /\ connections[d].uname # Anonymous =>
      /\ connections[d].uid \in 1 .. Len(users)
      /\ users[connections[d].uid] = connections[d].uname

(* What a handler behind the login does to the users: nothing. *)
SameUsers(d) ==
  /\ LoggedIn(connections[d])
  /\ \A e \in Desc \ {d} : connections'[e] = connections[e]
  /\ connections'[d].uname = connections[d].uname
  /\ connections'[d].uid = connections[d].uid
  /\ users' = users

LEMMA SameUsersStep ==
  ASSUME ActsAsItself, NEW d \in Desc, SameUsers(d)
  PROVE  ActsAsItself'
BY DEF ActsAsItself, SameUsers

(* Become with a session of the same user. *)
LEMMA BecomesSameUser ==
  ASSUME IInv, NEW d \in Desc, NEW s, Become(d, s),
         LoggedIn(connections[d]),
         s.uname = connections[d].uname,
         s.uid = connections[d].uid,
         users' = users
  PROVE  SameUsers(d)
BY DEF IInv, TypeOK, Become, SameUsers

LEMMA ClearFileSameUser ==
  ASSUME IInv, NEW d \in Desc, NEW st, LoggedIn(connections[d]),
         ClearFile(d, st), users' = users
  PROVE  SameUsers(d)
<1> DEFINE s == [Cleared(connections[d]) EXCEPT !.state = st]
<1>1. connections[d] \in Session
  BY DEF IInv, TypeOK
<1>2. s.uname = connections[d].uname /\ s.uid = connections[d].uid
  BY <1>1, ClearedSession DEF Session
<1>3. Become(d, s)
  BY DEF ClearFile
<1> HIDE DEF s
<1> QED
  BY <1>2, <1>3, BecomesSameUser

(* The states of the handlers that follow. *)
LEMMA LoggedInStates ==
  ASSUME NEW d \in Desc,
         connections[d].state \in FileStates \cup {"OP_WAIT", "ERR"}
  PROVE  LoggedIn(connections[d])
BY DEF LoggedIn, LoginStates, FileStates, TransferStates

(* file upload and file_upload *)
LEMMA UploadSameUsers ==
  ASSUME IInv, NEW d \in Desc, UploadCommand(d) \/ UploadTransfer(d)
  PROVE  SameUsers(d)
<1> DEFINE c == connections[d]
<1>1. c \in Session /\ c.file \in File
  BY DEF IInv, TypeOK, Session
<1>2. InState(d, "OP_WAIT") \/ InState(d, "OP_UPLOAD") => LoggedIn(c)
  BY LoggedInStates DEF InState, FileStates, TransferStates
<1>3. CASE PrepareWithoutName(d)
  BY <1>2, <1>3, ClearFileSameUser DEF PrepareWithoutName
<1>4. CASE UploadRefused(d) \/ UploadDirectoryFails(d) \/ UploadOpenFails(d)
  <2> DEFINE s == [c EXCEPT !.file = NullFile, !.fd = NoFd]
  <2>1. InState(d, "OP_WAIT") /\ Become(d, s) /\ users' = users
    BY <1>4 DEF UploadRefused, UploadDirectoryFails, UploadOpenFails,
                DropNewFile
  <2>2. s.uname = c.uname /\ s.uid = c.uid
    BY <1>1 DEF Session
  <2> HIDE DEF s
  <2> QED
    BY <1>2, <2>1, <2>2, BecomesSameUser
<1>5. ASSUME NEW p \in Path, NEW size \in Size, NEW fd \in Desc,
             UploadAccepted(d, p, size, fd)
      PROVE  SameUsers(d)
  <2> DEFINE s == [c EXCEPT !.state = "OP_UPLOAD", !.fd = fd,
                            !.file = [path |-> p, size |-> size,
                                      rest |-> size, package_rest |-> 0]]
  <2>1. InState(d, "OP_WAIT") /\ Become(d, s) /\ users' = users
    BY <1>5 DEF UploadAccepted
  <2>2. s.uname = c.uname /\ s.uid = c.uid
    BY <1>1 DEF Session
  <2> HIDE DEF s
  <2> QED
    BY <1>2, <2>1, <2>2, BecomesSameUser
<1>6. ASSUME NEW written, InState(d, "OP_UPLOAD"), AbortUpload(d, written)
      PROVE  SameUsers(d)
  BY <1>2, <1>6, ClearFileSameUser DEF AbortUpload
<1>7. ASSUME NEW rlen \in {-1} \cup 1 .. INBUFSIZE, NEW sig \in Signal,
             NEW ps \in PackageSize, UploadReceives(d, rlen, sig, ps)
      PROVE  SameUsers(d)
  <2> DEFINE u == Upload(d, rlen, sig, ps)
             s == [c EXCEPT !.file.rest = u.rest,
                            !.file.package_rest = u.package_rest,
                            !.state = IF u.rest = 0
                                      THEN "OP_UPLOAD_DESCRIPTION"
                                      ELSE "OP_UPLOAD"]
  <2>1. InState(d, "OP_UPLOAD") /\ Become(d, s) /\ users' = users
    BY <1>7 DEF UploadReceives
  <2> HIDE DEF u
  <2>2. s.uname = c.uname /\ s.uid = c.uid
    BY <1>1 DEF Session
  <2> HIDE DEF s
  <2> QED
    BY <1>2, <2>1, <2>2, BecomesSameUser
<1>8. ASSUME NEW rlen \in {-1} \cup 1 .. INBUFSIZE, NEW sig \in Signal,
             NEW ps \in PackageSize,
             \/ UploadCancelled(d, rlen, sig, ps)
             \/ UploadWriteFails(d, rlen, sig, ps)
      PROVE  SameUsers(d)
  BY <1>6, <1>8 DEF UploadCancelled, UploadWriteFails
<1>9. CASE UploadEof(d)
  BY <1>6, <1>9 DEF UploadEof
<1>10. CASE UploadEofOfEmptyFile(d)
  <2> DEFINE s == [c EXCEPT !.state = "OP_WAIT"]
  <2>1. InState(d, "OP_UPLOAD") /\ Become(d, s) /\ users' = users
    BY <1>10 DEF UploadEofOfEmptyFile
  <2>2. s.uname = c.uname /\ s.uid = c.uid
    BY <1>1 DEF Session
  <2> HIDE DEF s
  <2> QED
    BY <1>2, <2>1, <2>2, BecomesSameUser
<1> QED
  BY <1>3, <1>4, <1>5, <1>7, <1>8, <1>9, <1>10
     DEF UploadCommand, UploadTransfer

(* file download, file_download and download_confirm *)
LEMMA DownloadSameUsers ==
  ASSUME IInv, NEW d \in Desc, DownloadCommand(d) \/ DownloadTransfer(d)
  PROVE  SameUsers(d)
<1> DEFINE c == connections[d]
           f == c.file
<1>1. c \in Session /\ f \in File
  BY DEF IInv, TypeOK, Session
<1>2. /\ InState(d, "OP_WAIT") => LoggedIn(c)
      /\ InState(d, "OP_DOWNLOAD") => LoggedIn(c)
      /\ InState(d, "OP_DOWNLOAD_WAIT_CONFIRM_PACKAGE") => LoggedIn(c)
  BY LoggedInStates DEF InState, FileStates, TransferStates
<1>3. ASSUME NEW g, InState(d, "OP_WAIT"), Become(d, [c EXCEPT !.file = g]),
             users' = users
      PROVE  SameUsers(d)
  <2> DEFINE s == [c EXCEPT !.file = g]
  <2>1. s.uname = c.uname /\ s.uid = c.uid
    BY <1>1 DEF Session
  <2>2. Become(d, s)
    BY <1>3
  <2> HIDE DEF s
  <2> QED
    BY <1>2, <1>3, <2>1, <2>2, BecomesSameUser
<1>4. CASE DownloadNotFound(d)
  BY <1>3, <1>4 DEF DownloadNotFound
<1>5. ASSUME NEW i \in Visible,
             \/ DownloadOpenFails(d, i)
             \/ \E fd \in Desc : DownloadDamaged(d, i, fd)
      PROVE  SameUsers(d)
  BY <1>3, <1>5 DEF DownloadOpenFails, DownloadDamaged
<1>6. ASSUME NEW i \in Visible, NEW fd \in Desc, DownloadAccepted(d, i, fd)
      PROVE  SameUsers(d)
  <2> DEFINE g == [FileOf(files[i]) EXCEPT !.package_rest = PACKAGE_SIZE]
             s == [c EXCEPT !.state = "OP_DOWNLOAD", !.fd = fd, !.file = g]
  <2>1. InState(d, "OP_WAIT") /\ Become(d, s) /\ users' = users
    BY <1>6 DEF DownloadAccepted
  <2> HIDE DEF g
  <2>2. s.uname = c.uname /\ s.uid = c.uid
    BY <1>1 DEF Session
  <2> HIDE DEF s
  <2> QED
    BY <1>2, <2>1, <2>2, BecomesSameUser
<1>7. ASSUME NEW st, LoggedIn(c), Become(d, [c EXCEPT !.state = st]),
             users' = users
      PROVE  SameUsers(d)
  <2> DEFINE s == [c EXCEPT !.state = st]
  <2>1. s.uname = c.uname /\ s.uid = c.uid
    BY <1>1 DEF Session
  <2>2. Become(d, s)
    BY <1>7
  <2> HIDE DEF s
  <2> QED
    BY <1>7, <2>1, <2>2, BecomesSameUser
<1>8. CASE DownloadPauses(d)
  BY <1>2, <1>7, <1>8 DEF DownloadPauses
<1>9. CASE DownloadEof(d)
  <2>1. CASE f.rest # 0
    BY <1>2, <1>9, <2>1, ClearFileSameUser DEF DownloadEof
  <2>2. CASE f.rest = 0
    BY <1>2, <1>7, <1>9, <2>2 DEF DownloadEof
  <2> QED
    BY <2>1, <2>2
<1>10. CASE DownloadWriteFails(d)
  BY <1>2, <1>10, ClearFileSameUser DEF DownloadWriteFails
<1>11. CASE DownloadSends(d)
  <2> DEFINE rest == Minus(f.rest, ReadLen(f))
             package_rest == Minus(f.package_rest, ReadLen(f))
             st == IF package_rest = 0
                   THEN "OP_DOWNLOAD_WAIT_CONFIRM_PACKAGE"
                   ELSE "OP_DOWNLOAD"
             s == [c EXCEPT !.file.rest = rest,
                            !.file.package_rest = package_rest,
                            !.state = st]
  <2>1. CASE rest = 0
    BY <1>2, <1>11, <2>1, ClearFileSameUser DEF DownloadSends
  <2>2. CASE rest # 0
    <3>1. LoggedIn(c) /\ Become(d, s) /\ users' = users
      BY <1>2, <1>11, <2>2 DEF DownloadSends
    <3> HIDE DEF rest, package_rest, st
    <3>2. s.uname = c.uname /\ s.uid = c.uid
      BY <1>1 DEF Session
    <3> HIDE DEF s
    <3> QED
      BY <3>1, <3>2, BecomesSameUser
  <2> QED
    BY <2>1, <2>2
<1>12. ASSUME NEW ps \in PackageSize, ConfirmContinue(d, ps)
       PROVE  SameUsers(d)
  <2> DEFINE s == [c EXCEPT !.state = "OP_DOWNLOAD",
                            !.file.package_rest = ps]
  <2>1. LoggedIn(c) /\ Become(d, s) /\ users' = users
    BY <1>2, <1>12 DEF ConfirmContinue
  <2>2. s.uname = c.uname /\ s.uid = c.uid
    BY <1>1 DEF Session
  <2> HIDE DEF s
  <2> QED
    BY <2>1, <2>2, BecomesSameUser
<1>13. CASE ConfirmCancel(d)
  BY <1>2, <1>13, ClearFileSameUser DEF ConfirmCancel
<1> QED
  BY <1>4, <1>5, <1>6, <1>8, <1>9, <1>10, <1>11, <1>12, <1>13
     DEF DownloadCommand, DownloadTransfer

(* Logging in, by registering or by the password of the user of the name. *)
LEMMA LoginActsAsItself ==
  ASSUME Postgres, IInv, ActsAsItself, NEW d \in Desc, LoginStep(d)
  PROVE  ActsAsItself'
<1> DEFINE c == connections[d]
<1>1. c \in Session /\ users \in Seq(Name)
  BY DEF IInv, TypeOK
<1>2. ASSUME NEW s, Become(d, s), users' = users,
             LoggedIn(s) /\ s.uname # Anonymous =>
               s.uid \in 1 .. Len(users) /\ users[s.uid] = s.uname
      PROVE  ActsAsItself'
  <2>1. \A e \in Desc :
          connections'[e] = IF e = d THEN s ELSE connections[e]
    BY <1>2 DEF IInv, TypeOK, Become
  <2> QED
    BY <1>2, <2>1 DEF ActsAsItself
<1>3. ASSUME NEW n \in Name, Register(d, n)
      PROVE  ActsAsItself'
  <2> DEFINE s == [c EXCEPT !.state = "OP_WAIT", !.uname = n,
                            !.uid = Len(users) + 1]
  <2>1. s.uname = n /\ s.uid = Len(users) + 1
    BY <1>1 DEF Session
  <2>2. Become(d, s) /\ users' = Append(users, n)
    BY <1>3 DEF Register
  <2> HIDE DEF s
  <2>3. \A e \in Desc :
          connections'[e] = IF e = d THEN s ELSE connections[e]
    BY <2>2 DEF IInv, TypeOK, Become
  <2>4. /\ Len(users') = Len(users) + 1
        /\ Len(users) \in Nat
        /\ users'[Len(users) + 1] = n
        /\ \A i \in 1 .. Len(users) : users'[i] = users[i]
    BY <1>1, <2>2
  <2>5. ASSUME NEW e \in Desc, e # d, LoggedIn(connections[e]),
               connections[e].uname # Anonymous
        PROVE  /\ connections[e].uid \in 1 .. Len(users')
               /\ users'[connections[e].uid] = connections[e].uname
    BY <2>4, <2>5 DEF ActsAsItself
  <2>6. s.uid \in 1 .. Len(users') /\ users'[s.uid] = s.uname
    BY <2>1, <2>4
  <2> QED
    BY <2>3, <2>5, <2>6 DEF ActsAsItself
<1>4. ASSUME NEW n \in Name, EnterName(d, n)
      PROVE  ActsAsItself'
  <2> DEFINE s == [c EXCEPT !.state = "OP_LOGIN_PSS", !.uname = n]
  <2>1. ~LoggedIn(s)
    BY <1>1 DEF Session, LoggedIn, LoginStates
  <2>2. Become(d, s) /\ users' = users
    BY <1>4 DEF EnterName
  <2> HIDE DEF s
  <2> QED
    BY <1>2, <2>1, <2>2
<1>5. CASE EnterAnonymous(d)
  <2> DEFINE s == [c EXCEPT !.state = "OP_WAIT", !.uname = Anonymous]
  <2>1. s.uname = Anonymous
    BY <1>1 DEF Session
  <2>2. Become(d, s) /\ users' = users
    BY <1>5 DEF EnterAnonymous
  <2> HIDE DEF s
  <2> QED
    BY <1>2, <2>1, <2>2
<1>6. CASE LogIn(d)
  <2>1. PICK i \in 1 .. Len(users) :
          /\ users[i] = c.uname
          /\ Become(d, [c EXCEPT !.state = "OP_WAIT", !.uid = i])
    BY <1>6 DEF LogIn
  <2> DEFINE s == [c EXCEPT !.state = "OP_WAIT", !.uid = i]
  <2>2. s.uname = c.uname /\ s.uid = i
    BY <1>1 DEF Session
  <2>3. Become(d, s) /\ users' = users
    BY <1>6, <2>1 DEF LogIn
  <2> HIDE DEF s
  <2> QED
    BY <1>2, <2>1, <2>2, <2>3
<1>7. CASE LogInFails(d)
  <2> DEFINE s == [c EXCEPT !.state = "OP_LOGIN_USR"]
  <2>1. ~LoggedIn(s)
    BY <1>1 DEF Session, LoggedIn, LoginStates
  <2>2. Become(d, s) /\ users' = users
    BY <1>7 DEF LogInFails
  <2> HIDE DEF s
  <2> QED
    BY <1>2, <2>1, <2>2
<1> QED
  BY <1>3, <1>4, <1>5, <1>6, <1>7 DEF LoginStep

(* Any step of the server; SaveFile is a handler behind the login. *)
LEMMA SaveFileSameUsers ==
  ASSUME IInv, NEW d \in Desc, SaveFile(d)
  PROVE  SameUsers(d)
<1>1. LoggedIn(connections[d])
  BY LoggedInStates DEF SaveFile, InState, FileStates, TransferStates
<1> QED
  BY <1>1, ClearFileSameUser DEF SaveFile

LEMMA NextActsAsItself ==
  ASSUME Postgres, IInv, ActsAsItself, [Next]_vars
  PROVE  ActsAsItself'
<1>1. ASSUME NEW d \in Desc, NEW s, ~LoggedIn(s), users' = users, Become(d, s)
      PROVE  ActsAsItself'
  <2>1. \A e \in Desc :
          connections'[e] = IF e = d THEN s ELSE connections[e]
    BY <1>1 DEF IInv, TypeOK, Become
  <2> QED
    BY <1>1, <2>1 DEF ActsAsItself
<1>2. ASSUME NEW d \in Desc, Accept(d)
      PROVE  ActsAsItself'
  <2>1. PICK garbage \in Garbage :
          Become(d, [NullSession EXCEPT !.state = "OP_LOGIN_USR",
                                        !.uid = garbage])
    BY <1>2 DEF Accept
  <2> DEFINE s == [NullSession EXCEPT !.state = "OP_LOGIN_USR",
                                      !.uid = garbage]
  <2>2. ~LoggedIn(s)
    BY DEF NullSession, LoggedIn, LoginStates
  <2>3. Become(d, s) /\ users' = users
    BY <1>2, <2>1 DEF Accept
  <2> HIDE DEF s
  <2> QED
    BY <1>1, <2>2, <2>3
<1>3. ASSUME NEW d \in Desc, Close(d)
      PROVE  ActsAsItself'
  <2>1. ~LoggedIn(NullSession)
    BY NullSessionType DEF LoggedIn
  <2> QED
    BY <1>1, <1>3, <2>1 DEF Close
<1>4. ASSUME NEW d \in Desc,
             \/ UploadCommand(d) \/ UploadTransfer(d)
             \/ SaveFile(d)
             \/ DownloadCommand(d) \/ DownloadTransfer(d)
      PROVE  ActsAsItself'
  BY <1>4, UploadSameUsers, SaveFileSameUsers, DownloadSameUsers, SameUsersStep
<1>5. CASE Restart
  <2>1. \A d \in Desc : ~LoggedIn(connections'[d])
    BY <1>5 DEF Restart, NullSession, LoggedIn
  <2> QED
    BY <2>1 DEF ActsAsItself
<1>6. CASE UNCHANGED vars
  BY <1>6 DEF vars, ActsAsItself
<1> QED
  BY <1>2, <1>3, <1>4, <1>5, <1>6, LoginActsAsItself DEF Next

(* What a step may do to the tables and to what was answered. *)
LEMMA TablesStep ==
  ASSUME Postgres, IInv, [Next]_vars
  PROVE  /\ users' = users \/ \E n \in Name : users' = Append(users, n)
         /\ \/ files' = files /\ told' = told
            \/ \E d \in Desc :
                 /\ InState(d, "OP_UPLOAD_DESCRIPTION")
                 /\ users' = users
                 /\ files' = Append(files, RowOf(connections[d]))
                 /\ told' = told \cup {connections[d].file.path}
<1>1. ASSUME NEW d \in Desc, Accept(d) \/ Close(d) \/ LoginStep(d)
      PROVE  /\ users' = users \/ \E n \in Name : users' = Append(users, n)
             /\ files' = files /\ told' = told
  BY <1>1 DEF Accept, Close, LoginStep, Register, EnterName, EnterAnonymous,
              LogIn, LogInFails
<1>2. ASSUME NEW d \in Desc, UploadCommand(d)
      PROVE  UNCHANGED <<users, files, told>>
  BY <1>2 DEF UploadCommand, PrepareWithoutName, UploadRefused,
              UploadDirectoryFails, UploadOpenFails, UploadAccepted
<1>3. ASSUME NEW d \in Desc, UploadTransfer(d)
      PROVE  UNCHANGED <<users, files, told>>
  <2>1. ASSUME NEW rlen, NEW sig, NEW ps, UploadReceives(d, rlen, sig, ps)
        PROVE  UNCHANGED <<users, files, told>>
    BY <2>1 DEF UploadReceives
  <2>2. ASSUME NEW rlen, NEW sig, NEW ps,
               \/ UploadCancelled(d, rlen, sig, ps)
               \/ UploadWriteFails(d, rlen, sig, ps)
        PROVE  UNCHANGED <<users, files, told>>
    BY <2>2 DEF UploadCancelled, UploadWriteFails, AbortUpload
  <2>3. CASE UploadEof(d) \/ UploadEofOfEmptyFile(d)
    BY <2>3 DEF UploadEof, UploadEofOfEmptyFile, AbortUpload
  <2> QED
    BY <1>3, <2>1, <2>2, <2>3 DEF UploadTransfer
<1>4. ASSUME NEW d \in Desc, DownloadCommand(d)
      PROVE  UNCHANGED <<users, files, told>>
  BY <1>4 DEF DownloadCommand, DownloadNotFound, DownloadOpenFails,
              DownloadDamaged, DownloadAccepted
<1>5. ASSUME NEW d \in Desc, DownloadTransfer(d)
      PROVE  UNCHANGED <<users, files, told>>
  BY <1>5 DEF DownloadTransfer, DownloadPauses, DownloadEof,
              DownloadWriteFails, DownloadSends, ConfirmContinue,
              ConfirmCancel
<1>6. ASSUME NEW d \in Desc, SaveFile(d)
      PROVE  /\ InState(d, "OP_UPLOAD_DESCRIPTION")
             /\ users' = users
             /\ \/ files' = files /\ told' = told
                \/ /\ files' = Append(files, RowOf(connections[d]))
                   /\ told' = told \cup {connections[d].file.path}
  BY <1>6 DEF SaveFile, SaveOutcome
<1>7. CASE Restart \/ UNCHANGED vars
  BY <1>7 DEF Restart, vars
<1> QED
  BY <1>1, <1>2, <1>3, <1>4, <1>5, <1>6, <1>7 DEF Next

(* What was answered stays true, and a row names its uploader. *)
LEMMA NextRows ==
  ASSUME Postgres, IInv, ActsAsItself, RowOwnerIsUploader, SavedReplyIsTrue,
         [Next]_vars
  PROVE  RowOwnerIsUploader' /\ SavedReplyIsTrue'
<1>1. /\ users \in Seq(Name) /\ Len(users) \in Nat
      /\ files \in Seq(Row) /\ Len(files) \in Nat
  BY DEF IInv, TypeOK
<1>2. CASE files' = files /\ told' = told
  <2>1. SavedReplyIsTrue'
    BY <1>2 DEF SavedReplyIsTrue, Published
  <2>2. /\ Len(users') \in Nat /\ Len(users) <= Len(users')
        /\ \A i \in 1 .. Len(users) : users'[i] = users[i]
    <3>1. CASE users' = users
      BY <1>1, <3>1
    <3>2. ASSUME NEW n \in Name, users' = Append(users, n)
          PROVE  /\ Len(users') \in Nat /\ Len(users) <= Len(users')
                 /\ \A i \in 1 .. Len(users) : users'[i] = users[i]
      BY <1>1, <3>2
    <3> QED
      BY <3>1, <3>2, TablesStep
  <2>3. RowOwnerIsUploader'
    BY <1>1, <1>2, <2>2 DEF RowOwnerIsUploader
  <2> QED
    BY <2>1, <2>3
<1>3. ASSUME NEW d \in Desc, InState(d, "OP_UPLOAD_DESCRIPTION"),
             users' = users,
             files' = Append(files, RowOf(connections[d])),
             told' = told \cup {connections[d].file.path}
      PROVE  RowOwnerIsUploader' /\ SavedReplyIsTrue'
  <2> DEFINE c == connections[d]
             r == RowOf(c)
  <2>1. r \in Row
    BY <1>3, RowOfSession
  <2>2. r.uid = c.uid /\ r.by = c.uname /\ r.path = c.file.path
    BY DEF RowOf
  <2>3. LoggedIn(c)
    BY <1>3, LoggedInStates DEF InState, FileStates, TransferStates
  <2> HIDE DEF r
  <2>4. /\ Len(files') = Len(files) + 1
        /\ files'[Len(files) + 1] = r
        /\ \A i \in 1 .. Len(files) : files'[i] = files[i]
    BY <1>1, <1>3, <2>1 DEF r
  <2>5. RowOwnerIsUploader'
    <3> SUFFICES ASSUME NEW i \in 1 .. Len(files'), files'[i].by # Anonymous
                 PROVE  /\ files'[i].uid \in 1 .. Len(users)
                        /\ users[files'[i].uid] = files'[i].by
      BY <1>3 DEF RowOwnerIsUploader
    <3>1. CASE i = Len(files) + 1
      BY <2>2, <2>3, <2>4, <3>1 DEF ActsAsItself
    <3>2. CASE i \in 1 .. Len(files)
      BY <2>4, <3>2 DEF RowOwnerIsUploader
    <3> QED
      BY <1>1, <2>4, <3>1, <3>2
  <2>6. c.file.path \in Published' /\ Published \subseteq Published'
    BY <1>1, <2>2, <2>4 DEF Published
  <2> QED
    BY <1>3, <2>5, <2>6 DEF SavedReplyIsTrue
<1> QED
  BY <1>2, <1>3, TablesStep

(* All of them together hold in every state. *)
LEMMA RowsTold ==
  ASSUME Postgres
  PROVE  Spec => [](ActsAsItself /\ RowOwnerIsUploader /\ SavedReplyIsTrue)
<1> DEFINE Rows == ActsAsItself /\ RowOwnerIsUploader /\ SavedReplyIsTrue
<1>1. Init => Rows
  <2> SUFFICES ASSUME Init
               PROVE  Rows
    OBVIOUS
  <2>1. \A d \in Desc : ~LoggedIn(connections[d])
    BY NullSessionType DEF Init, LoggedIn
  <2>2. Len(files) = 0 /\ told = {}
    BY DEF Init
  <2> QED
    BY <2>1, <2>2 DEF ActsAsItself, RowOwnerIsUploader, SavedReplyIsTrue
<1>2. IInv /\ Rows /\ [Next]_vars => Rows'
  BY NextActsAsItself, NextRows
<1> QED
  BY <1>1, <1>2, Invariance, PTL DEF Spec

(* Over PostgreSQL a file in the table belongs to the user who uploaded    *)
(* it, whatever uid the memory of his session held before the login.       *)
THEOREM OwnerOfEveryRow ==
  ASSUME Postgres
  PROVE  Spec => []RowOwnerIsUploader
BY RowsTold, PTL

(* Over PostgreSQL "File is saved!" is said of files in the table only,    *)
(* and they stay in it: db_save_file returned the id of a row.             *)
THEOREM SavedIsInTable ==
  ASSUME Postgres
  PROVE  Spec => []SavedReplyIsTrue
BY RowsTold, PTL

-----------------------------------------------------------------------------
(* Descriptors that are given back                                         *)
(*                                                                         *)
(* The code loses a descriptor in two places: an empty transfer ends       *)
(* without clear_file_from_sess, and a damaged file is opened and not      *)
(* closed.  Without empty files there is no first one (IdleSession: behind *)
(* a transfer a session has no descriptor).  The second one needs a row    *)
(* whose file was written short, and such a row stays in the table: the    *)
(* history torn may lose other paths, but never that one (Damaged).        *)

(* The invariant of a session where files have bytes. *)
IdleSession(s) ==
  /\ s.state \notin FileStates => s.fd = NoFd
  /\ s.state \in FileStates \ {"OP_UPLOAD_DESCRIPTION"} => s.file.rest # 0
  /\ s.state \in StoringStates => s.file.size # 0

Returned == open = Connected \cup ({connections[d].fd : d \in Desc} \ {NoFd})

(* A row refers to a file that was written short. *)
Damaged == \E p \in torn : p \in Published

LeakInv ==
  /\ \A d \in Desc : IdleSession(connections[d])
  /\ \A i \in 1 .. Len(files) : files[i].size # 0
  /\ Returned \/ Damaged

(* The three things a handler may do to the descriptor of its session,     *)
(* which becomes s.                                                        *)
FdStep(d, s) ==
  \/ s.fd = connections[d].fd /\ open' = open
  \/ s.fd = NoFd /\ open' = open \ {connections[d].fd}
  \/ /\ connections[d].fd = NoFd
     /\ s.fd \in Desc \ open
     /\ open' = open \cup {s.fd}

(* A handler that gives back what it does not use. *)
GivesBack(d) ==
  /\ d \in Connected
  /\ \E s : /\ Become(d, s)
            /\ s.state # "NULL"
            /\ IdleSession(s)
            /\ FdStep(d, s)

LEMMA GivesBackStep ==
  ASSUME IInv, DescriptorsOwned, NEW d \in Desc, GivesBack(d),
         \A e \in Desc : IdleSession(connections[e])
  PROVE  /\ \A e \in Desc : IdleSession(connections'[e])
         /\ Returned => Returned'
<1>1. PICK s : /\ Become(d, s)
               /\ s.state # "NULL"
               /\ IdleSession(s)
               /\ FdStep(d, s)
  BY DEF GivesBack
<1>2. \A e \in Desc :
        connections'[e] = IF e = d THEN s ELSE connections[e]
  BY <1>1 DEF IInv, TypeOK, Become
<1>3. d \in Connected /\ Connected \subseteq Desc /\ NoFd \notin Desc
  BY BoardAssumption DEF GivesBack, Connected
<1>4. Connected' = Connected
  BY <1>1, <1>2, <1>3 DEF Connected
<1>5. \A e \in Desc : IdleSession(connections'[e])
  BY <1>1, <1>2
<1>6. ASSUME Returned
      PROVE  Returned'
  <2>1. CASE s.fd = connections[d].fd /\ open' = open
    <3>1. \A e \in Desc : connections'[e].fd = connections[e].fd
      BY <1>2, <2>1
    <3> QED
      BY <1>4, <1>6, <2>1, <3>1 DEF Returned
  <2>2. CASE s.fd = NoFd /\ open' = open \ {connections[d].fd}
    <3>1. connections[d].fd \notin Connected
      BY <1>3 DEF DescriptorsOwned
    <3>2. \A e \in Desc : connections[e].fd = connections[d].fd =>
                            e = d \/ connections[e].fd = NoFd
      BY DEF DescriptorsOwned
    <3> QED
      BY <1>2, <1>4, <1>6, <2>2, <3>1, <3>2 DEF Returned
  <2>3. CASE /\ connections[d].fd = NoFd
             /\ s.fd \in Desc \ open
             /\ open' = open \cup {s.fd}
    BY <1>2, <1>3, <1>4, <1>6, <2>3 DEF Returned
  <2> QED
    BY <1>1, <2>1, <2>2, <2>3 DEF FdStep
<1> QED
  BY <1>5, <1>6

(* A session without a file has no descriptor. *)
LEMMA NoFileNoFd ==
  ASSUME IInv, NEW d \in Desc, IdleSession(connections[d]),
         connections[d].file = NullFile
  PROVE  connections[d].fd = NoFd
<1>1. connections[d].file.path \notin Path
  BY BoardAssumption DEF NullFile
<1> QED
  BY <1>1 DEF IInv, SessionInv, IdleSession

LEMMA ClearFileGivesBack ==
  ASSUME IInv, NEW d \in Connected, IdleSession(connections[d]),
         NEW st \in State \ FileStates, st # "NULL",
         ClearFile(d, st)
  PROVE  GivesBack(d)
<1> DEFINE c == connections[d]
           s == [Cleared(c) EXCEPT !.state = st]
<1>1. c \in Session /\ d \in Desc
  BY DEF IInv, TypeOK, Connected
<1>2. Become(d, s)
  BY DEF ClearFile
<1>3. s.state = st /\ s.fd = Cleared(c).fd
  BY <1>1, ClearedSession DEF Session
<1>4. s.fd = NoFd
  <2>1. CASE c.file = NullFile
    BY <1>1, <1>3, <2>1, NoFileNoFd DEF Cleared
  <2>2. CASE c.file # NullFile
    BY <1>1, <1>3, <2>2 DEF Cleared, Session
  <2> QED
    BY <2>1, <2>2
<1>5. st \notin StoringStates
  BY DEF FileStates, StoringStates, TransferStates
<1>6. c.file = NullFile => c.fd = NoFd
  BY <1>1, NoFileNoFd
<1>7. open' = open \/ open' = open \ {c.fd}
  BY DEF ClearFile, ClosedBy
<1>8. open' = open => c.file = NullFile \/ open' = open \ {c.fd}
  BY DEF ClearFile, ClosedBy
<1> HIDE DEF s
<1>9. IdleSession(s)
  BY <1>3, <1>4, <1>5 DEF IdleSession
<1>10. FdStep(d, s)
  BY <1>4, <1>6, <1>7, <1>8 DEF FdStep
<1> QED
  BY <1>2, <1>3, <1>9, <1>10 DEF GivesBack

(* What IdleSession asks of a session at the prompt or at the login. *)
LEMMA IdleWithoutFd ==
  ASSUME NEW s, s.state \notin FileStates, s.fd = NoFd
  PROVE  IdleSession(s)
BY DEF IdleSession, FileStates, StoringStates, TransferStates

LEMMA AtPrompt ==
  ASSUME NEW d \in Desc, NEW st, InState(d, st),
         st \in LoginStates \cup {"OP_WAIT"},
         IdleSession(connections[d])
  PROVE  d \in Connected /\ connections[d].fd = NoFd
BY DEF InState, IdleSession, Connected, LoginStates, FileStates,
       TransferStates

(* process_user_name, create_user and login *)
LEMMA LoginGivesBack ==
  ASSUME IInv, NEW d \in Desc, IdleSession(connections[d]), LoginStep(d)
  PROVE  GivesBack(d)
<1> DEFINE c == connections[d]
<1>1. c \in Session
  BY DEF IInv, TypeOK
<1>2. /\ InState(d, "OP_LOGIN_USR") => d \in Connected /\ c.fd = NoFd
      /\ InState(d, "OP_LOGIN_PSS") => d \in Connected /\ c.fd = NoFd
  BY AtPrompt DEF LoginStates
<1>3. ASSUME NEW s, Become(d, s), d \in Connected,
             s.state \in LoginStates \cup {"OP_WAIT"},
             s.fd = c.fd, c.fd = NoFd, open' = open
      PROVE  GivesBack(d)
  <2>1. s.state \notin FileStates /\ s.state # "NULL"
    BY <1>3 DEF LoginStates, FileStates, TransferStates
  <2> QED
    BY <1>3, <2>1, IdleWithoutFd DEF GivesBack, FdStep
<1>4. ASSUME NEW n \in Name, Register(d, n)
      PROVE  GivesBack(d)
  <2> DEFINE s == [c EXCEPT !.state = "OP_WAIT", !.uname = n,
                            !.uid = Len(users) + 1]
  <2>1. s.state = "OP_WAIT" /\ s.fd = c.fd
    BY <1>1 DEF Session
  <2>2. Become(d, s)
    BY <1>4 DEF Register
  <2> HIDE DEF s
  <2> QED
    BY <1>2, <1>3, <1>4, <2>1, <2>2 DEF Register
<1>5. ASSUME NEW n \in Name, EnterName(d, n)
      PROVE  GivesBack(d)
  <2> DEFINE s == [c EXCEPT !.state = "OP_LOGIN_PSS", !.uname = n]
  <2>1. s.state \in LoginStates /\ s.fd = c.fd
    BY <1>1 DEF Session, LoginStates
  <2>2. Become(d, s)
    BY <1>5 DEF EnterName
  <2> HIDE DEF s
  <2> QED
    BY <1>2, <1>3, <1>5, <2>1, <2>2 DEF EnterName
<1>6. CASE EnterAnonymous(d)
  <2> DEFINE s == [c EXCEPT !.state = "OP_WAIT", !.uname = Anonymous]
  <2>1. s.state = "OP_WAIT" /\ s.fd = c.fd
    BY <1>1 DEF Session
  <2>2. Become(d, s)
    BY <1>6 DEF EnterAnonymous
  <2> HIDE DEF s
  <2> QED
    BY <1>2, <1>3, <1>6, <2>1, <2>2 DEF EnterAnonymous
<1>7. CASE LogIn(d)
  <2>1. PICK i \in 1 .. Len(users) :
          Become(d, [c EXCEPT !.state = "OP_WAIT", !.uid = i])
    BY <1>7 DEF LogIn
  <2> DEFINE s == [c EXCEPT !.state = "OP_WAIT", !.uid = i]
  <2>2. s.state = "OP_WAIT" /\ s.fd = c.fd
    BY <1>1 DEF Session
  <2>3. Become(d, s)
    BY <2>1
  <2> HIDE DEF s
  <2> QED
    BY <1>2, <1>3, <1>7, <2>2, <2>3 DEF LogIn
<1>8. CASE LogInFails(d)
  <2> DEFINE s == [c EXCEPT !.state = "OP_LOGIN_USR"]
  <2>1. s.state \in LoginStates /\ s.fd = c.fd
    BY <1>1 DEF Session, LoginStates
  <2>2. Become(d, s)
    BY <1>8 DEF LogInFails
  <2> HIDE DEF s
  <2> QED
    BY <1>2, <1>3, <1>8, <2>1, <2>2 DEF LogInFails
<1> QED
  BY <1>4, <1>5, <1>6, <1>7, <1>8 DEF LoginStep

(* file upload *)
LEMMA UploadCommandGivesBack ==
  ASSUME 0 \notin Size, IInv, NEW d \in Desc, IdleSession(connections[d]),
         UploadCommand(d)
  PROVE  GivesBack(d)
<1> DEFINE c == connections[d]
<1>1. c \in Session
  BY DEF IInv, TypeOK
<1>2. InState(d, "OP_WAIT") => d \in Connected /\ c.fd = NoFd
  BY AtPrompt
<1>3. CASE PrepareWithoutName(d)
  BY <1>2, <1>3, NoFileStates, ClearFileGivesBack DEF PrepareWithoutName
<1>4. CASE UploadRefused(d) \/ UploadDirectoryFails(d) \/ UploadOpenFails(d)
  <2> DEFINE s == [c EXCEPT !.file = NullFile, !.fd = NoFd]
  <2>1. InState(d, "OP_WAIT") /\ Become(d, s) /\ open' = open \ {c.fd}
    BY <1>4 DEF UploadRefused, UploadDirectoryFails, UploadOpenFails,
                DropNewFile
  <2>2. s.state = "OP_WAIT" /\ s.fd = NoFd
    BY <1>1, <2>1 DEF Session, InState
  <2> HIDE DEF s
  <2>3. IdleSession(s) /\ FdStep(d, s)
    BY <2>1, <2>2, NoFileStates, IdleWithoutFd DEF FdStep
  <2> QED
    BY <1>2, <2>1, <2>2, <2>3 DEF GivesBack
<1>5. ASSUME NEW p \in Path, NEW size \in Size, NEW fd \in Desc,
             UploadAccepted(d, p, size, fd)
      PROVE  GivesBack(d)
  <2> DEFINE f == [path |-> p, size |-> size, rest |-> size,
                   package_rest |-> 0]
             s == [c EXCEPT !.state = "OP_UPLOAD", !.fd = fd, !.file = f]
  <2>1. /\ InState(d, "OP_WAIT")
        /\ fd \notin open
        /\ Become(d, s)
        /\ open' = open \cup {fd}
    BY <1>5 DEF UploadAccepted
  <2>2. f.rest # 0 /\ f.size # 0
    OBVIOUS
  <2> HIDE DEF f
  <2>3. s.state = "OP_UPLOAD" /\ s.fd = fd /\ s.file = f
    BY <1>1 DEF Session
  <2> HIDE DEF s
  <2>4. IdleSession(s)
    BY <2>2, <2>3 DEF IdleSession, FileStates, TransferStates
  <2> QED
    BY <1>2, <2>1, <2>3, <2>4 DEF GivesBack, FdStep
<1> QED
  BY <1>3, <1>4, <1>5 DEF UploadCommand

(* file_upload *)
LEMMA UploadTransferGivesBack ==
  ASSUME IInv, NEW d \in Desc, IdleSession(connections[d]),
         UploadTransfer(d)
  PROVE  GivesBack(d)
<1> DEFINE c == connections[d]
<1>1. c \in Session /\ c.file \in File
  BY DEF IInv, TypeOK, Session
<1>2. InState(d, "OP_UPLOAD") =>
        d \in Connected /\ c.file.rest # 0 /\ c.file.size # 0
  BY ConnectedIn
     DEF InState, IdleSession, FileStates, TransferStates, StoringStates
<1>3. ASSUME NEW written, InState(d, "OP_UPLOAD"), AbortUpload(d, written)
      PROVE  GivesBack(d)
  BY <1>2, <1>3, NoFileStates, ClearFileGivesBack DEF AbortUpload
<1>4. ASSUME NEW rlen \in {-1} \cup 1 .. INBUFSIZE, NEW sig \in Signal,
             NEW ps \in PackageSize, UploadReceives(d, rlen, sig, ps)
      PROVE  GivesBack(d)
  <2> DEFINE u == Upload(d, rlen, sig, ps)
             st == IF u.rest = 0 THEN "OP_UPLOAD_DESCRIPTION" ELSE "OP_UPLOAD"
             s == [c EXCEPT !.file.rest = u.rest,
                            !.file.package_rest = u.package_rest,
                            !.state = st]
  <2>1. InState(d, "OP_UPLOAD") /\ Become(d, s) /\ open' = open
    BY <1>4 DEF UploadReceives
  <2>2. st \in StoringStates /\ (u.rest = 0 => st = "OP_UPLOAD_DESCRIPTION")
    BY DEF StoringStates
  <2> HIDE DEF u, st
  <2>3. /\ s.state = st
        /\ s.fd = c.fd
        /\ s.file.rest = u.rest
        /\ s.file.size = c.file.size
    BY <1>1 DEF Session, File
  <2> HIDE DEF s
  <2>4. IdleSession(s)
    BY <1>2, <2>1, <2>2, <2>3
       DEF IdleSession, FileStates, TransferStates, StoringStates
  <2>5. s.state # "NULL" /\ FdStep(d, s)
    BY <2>1, <2>2, <2>3 DEF FdStep, StoringStates
  <2> QED
    BY <1>2, <2>1, <2>4, <2>5 DEF GivesBack
<1>5. ASSUME NEW rlen \in {-1} \cup 1 .. INBUFSIZE, NEW sig \in Signal,
             NEW ps \in PackageSize,
             \/ UploadCancelled(d, rlen, sig, ps)
             \/ UploadWriteFails(d, rlen, sig, ps)
      PROVE  GivesBack(d)
  BY <1>3, <1>5 DEF UploadCancelled, UploadWriteFails
<1>6. CASE UploadEof(d)
  BY <1>3, <1>6 DEF UploadEof
<1>7. ~UploadEofOfEmptyFile(d)
  BY <1>2 DEF UploadEofOfEmptyFile
<1> QED
  BY <1>4, <1>5, <1>6, <1>7 DEF UploadTransfer

(* file download, but for a damaged file *)
LEMMA DownloadCommandGivesBack ==
  ASSUME IInv, LeakInv, NEW d \in Desc,
         \/ DownloadNotFound(d)
         \/ \E i \in Visible :
              \/ DownloadOpenFails(d, i)
              \/ \E fd \in Desc : DownloadAccepted(d, i, fd)
  PROVE  GivesBack(d)
<1> DEFINE c == connections[d]
<1>1. c \in Session /\ IdleSession(c)
  BY DEF IInv, TypeOK, LeakInv
<1>2. InState(d, "OP_WAIT") => d \in Connected /\ c.fd = NoFd
  BY <1>1, AtPrompt
<1>3. ASSUME NEW f, InState(d, "OP_WAIT"), Become(d, [c EXCEPT !.file = f]),
             open' = open
      PROVE  GivesBack(d)
  <2> DEFINE s == [c EXCEPT !.file = f]
  <2>1. s.state = "OP_WAIT" /\ s.fd = c.fd
    BY <1>1, <1>3 DEF Session, InState
  <2>2. Become(d, s)
    BY <1>3
  <2> HIDE DEF s
  <2>3. IdleSession(s) /\ FdStep(d, s)
    BY <1>2, <1>3, <2>1, NoFileStates, IdleWithoutFd DEF FdStep
  <2> QED
    BY <1>2, <1>3, <2>1, <2>2, <2>3 DEF GivesBack
<1>4. CASE DownloadNotFound(d)
  BY <1>3, <1>4 DEF DownloadNotFound
<1>5. ASSUME NEW i \in Visible, DownloadOpenFails(d, i)
      PROVE  GivesBack(d)
  BY <1>3, <1>5 DEF DownloadOpenFails
<1>6. ASSUME NEW i \in Visible, NEW fd \in Desc, DownloadAccepted(d, i, fd)
      PROVE  GivesBack(d)
  <2> DEFINE f == [FileOf(files[i]) EXCEPT !.package_rest = PACKAGE_SIZE]
             s == [c EXCEPT !.state = "OP_DOWNLOAD", !.fd = fd, !.file = f]
  <2>1. /\ InState(d, "OP_WAIT")
        /\ fd \notin open
        /\ Become(d, s)
        /\ open' = open \cup {fd}
    BY <1>6 DEF DownloadAccepted
  <2>2. f.rest = files[i].size
    BY DEF FileOf
  <2>3. files[i].size # 0
    BY DEF LeakInv, Visible
  <2> HIDE DEF f
  <2>4. s.state = "OP_DOWNLOAD" /\ s.fd = fd /\ s.file = f
    BY <1>1 DEF Session
  <2> HIDE DEF s
  <2>5. IdleSession(s)
    BY <2>2, <2>3, <2>4
       DEF IdleSession, FileStates, TransferStates, StoringStates
  <2> QED
    BY <1>2, <2>1, <2>4, <2>5 DEF GivesBack, FdStep
<1> QED
  BY <1>4, <1>5, <1>6

(* file_download and download_confirm *)
LEMMA DownloadTransferGivesBack ==
  ASSUME IInv, NEW d \in Desc, IdleSession(connections[d]),
         DownloadTransfer(d)
  PROVE  GivesBack(d)
<1> DEFINE c == connections[d]
           f == c.file
<1>1. c \in Session /\ f \in File
  BY DEF IInv, TypeOK, Session
<1>2. /\ InState(d, "OP_DOWNLOAD") => d \in Connected /\ f.rest # 0
      /\ InState(d, "OP_DOWNLOAD_WAIT_CONFIRM_PACKAGE") =>
           d \in Connected /\ f.rest # 0
  BY ConnectedIn DEF InState, IdleSession, FileStates, TransferStates
<1>3. ASSUME NEW s, Become(d, s), d \in Connected,
             s.state \in DownloadStates,
             s.fd = c.fd, s.file.rest # 0, open' = open
      PROVE  GivesBack(d)
  <2>1. IdleSession(s) /\ s.state # "NULL"
    BY <1>3 DEF IdleSession, DownloadStates, FileStates, TransferStates,
                StoringStates
  <2> QED
    BY <1>3, <2>1 DEF GivesBack, FdStep
<1>4. CASE DownloadPauses(d)
  <2> DEFINE s == [c EXCEPT !.state = "OP_DOWNLOAD_WAIT_CONFIRM_PACKAGE"]
  <2>1. s.state \in DownloadStates /\ s.fd = c.fd /\ s.file = f
    BY <1>1 DEF Session, DownloadStates
  <2>2. Become(d, s)
    BY <1>4 DEF DownloadPauses
  <2> HIDE DEF s
  <2> QED
    BY <1>2, <1>3, <1>4, <2>1, <2>2 DEF DownloadPauses
<1>5. CASE DownloadEof(d)
  BY <1>2, <1>5, NoFileStates, ClearFileGivesBack DEF DownloadEof
<1>6. CASE DownloadWriteFails(d)
  BY <1>2, <1>6, NoFileStates, ClearFileGivesBack DEF DownloadWriteFails
<1>7. CASE DownloadSends(d)
  <2> DEFINE rest == Minus(f.rest, ReadLen(f))
             package_rest == Minus(f.package_rest, ReadLen(f))
             st == IF package_rest = 0
                   THEN "OP_DOWNLOAD_WAIT_CONFIRM_PACKAGE"
                   ELSE "OP_DOWNLOAD"
             s == [c EXCEPT !.file.rest = rest,
                            !.file.package_rest = package_rest,
                            !.state = st]
  <2>1. CASE rest = 0
    BY <1>2, <1>7, <2>1, NoFileStates, ClearFileGivesBack DEF DownloadSends
  <2>2. CASE rest # 0
    <3>1. d \in Connected /\ Become(d, s) /\ UNCHANGED open
      BY <1>2, <1>7, <2>2 DEF DownloadSends
    <3>2. st \in DownloadStates
      BY DEF DownloadStates
    <3> HIDE DEF rest, package_rest, st
    <3>3. s.state = st /\ s.fd = c.fd /\ s.file.rest = rest
      BY <1>1 DEF Session, File
    <3> HIDE DEF s
    <3> QED
      BY <1>3, <2>2, <3>1, <3>2, <3>3
  <2> QED
    BY <2>1, <2>2
<1>8. ASSUME NEW ps \in PackageSize, ConfirmContinue(d, ps)
      PROVE  GivesBack(d)
  <2> DEFINE s == [c EXCEPT !.state = "OP_DOWNLOAD",
                            !.file.package_rest = ps]
  <2>1. s.state \in DownloadStates /\ s.fd = c.fd /\ s.file.rest = f.rest
    BY <1>1 DEF Session, File, DownloadStates
  <2>2. Become(d, s)
    BY <1>8 DEF ConfirmContinue
  <2> HIDE DEF s
  <2> QED
    BY <1>2, <1>3, <1>8, <2>1, <2>2 DEF ConfirmContinue
<1>9. CASE ConfirmCancel(d)
  BY <1>2, <1>9, NoFileStates, ClearFileGivesBack DEF ConfirmCancel
<1> QED
  BY <1>4, <1>5, <1>6, <1>7, <1>8, <1>9 DEF DownloadTransfer

(* accept_client: a session that is not there has no descriptor. *)
LEMMA AcceptReturned ==
  ASSUME IInv, DescriptorsOwned, NEW d \in Desc, Accept(d),
         \A e \in Desc : IdleSession(connections[e])
  PROVE  /\ \A e \in Desc : IdleSession(connections'[e])
         /\ Returned => Returned'
<1>1. PICK garbage \in Garbage :
        Become(d, [NullSession EXCEPT !.state = "OP_LOGIN_USR",
                                      !.uid = garbage])
  BY DEF Accept
<1> DEFINE s == [NullSession EXCEPT !.state = "OP_LOGIN_USR", !.uid = garbage]
<1>2. s.state = "OP_LOGIN_USR" /\ s.fd = NoFd
  BY DEF NullSession
<1>3. \A e \in Desc :
        connections'[e] = IF e = d THEN s ELSE connections[e]
  BY <1>1 DEF IInv, TypeOK, Become
<1> HIDE DEF s
<1>4. IdleSession(s)
  BY <1>2, IdleWithoutFd DEF FileStates, TransferStates
<1>5. d \notin open /\ open' = open \cup {d}
  BY DEF Accept
<1>6. connections[d].state = "NULL" /\ connections[d].fd = NoFd
  <2>1. connections[d].state = "NULL"
    BY <1>5 DEF DescriptorsOwned, Connected
  <2> QED
    BY <2>1 DEF IdleSession, FileStates, TransferStates
<1>7. Connected' = Connected \cup {d}
  BY <1>2, <1>3 DEF Connected
<1> QED
  BY <1>2, <1>3, <1>4, <1>5, <1>6, <1>7 DEF Returned

(* close_session *)
LEMMA CloseReturned ==
  ASSUME IInv, DescriptorsOwned, NEW d \in Desc, Close(d),
         \A e \in Desc : IdleSession(connections[e])
  PROVE  /\ \A e \in Desc : IdleSession(connections'[e])
         /\ Returned => Returned'
<1> DEFINE c == connections[d]
<1>1. \A e \in Desc :
        connections'[e] = IF e = d THEN NullSession ELSE connections[e]
  BY DEF Close, IInv, TypeOK, Become
<1>2. NullSession.state = "NULL" /\ NullSession.fd = NoFd
  BY DEF NullSession
<1>3. IdleSession(NullSession)
  BY <1>2, IdleWithoutFd DEF FileStates, TransferStates
<1>4. Connected' = Connected \ {d}
  BY <1>1, <1>2 DEF Connected
<1>5. d \in Connected /\ Connected \subseteq Desc /\ NoFd \notin Desc
  BY BoardAssumption DEF Close, Connected
<1>6. c.file = NullFile => c.fd = NoFd
  BY NoFileNoFd
<1>7. IF c.fd = NoFd
      THEN open' = open \ {d} \/ open' = open \ {d, NoFd}
      ELSE open' = open \ {d, c.fd}
  BY <1>6 DEF Close, ClosedBy
<1>8. ASSUME NEW e \in Desc, connections[e].fd # NoFd
      PROVE  /\ connections[e].fd # d
             /\ connections[e].fd \notin Connected
             /\ connections[e].fd = c.fd => e = d
  BY <1>5, <1>8 DEF DescriptorsOwned
<1>9. ASSUME Returned
      PROVE  Returned'
  <2>1. {connections'[e].fd : e \in Desc} \ {NoFd} =
          ({connections[e].fd : e \in Desc} \ {NoFd}) \ {c.fd}
    BY <1>1, <1>2, <1>8
  <2>2. NoFd \notin open
    BY <1>5, <1>9 DEF Returned
  <2>3. open' = open \ {d, c.fd}
    BY <1>7, <2>2
  <2> QED
    BY <1>4, <1>5, <1>8, <1>9, <2>1, <2>3 DEF Returned
<1> QED
  BY <1>1, <1>3, <1>9

-----------------------------------------------------------------------------
(* Rows and files that were written short                                  *)

(* torn loses a path only when the path is taken anew, and then no row     *)
(* refers to it.                                                           *)
LEMMA DamagedStays ==
  ASSUME IInv, Damaged, [Next]_vars
  PROVE  Damaged'
<1>1. Published \subseteq Published'
  <2>1. CASE Kept
    BY <2>1 DEF Kept, Published
  <2>2. ASSUME NEW r \in Row, files' = Append(files, r)
        PROVE  Published \subseteq Published'
    <3>1. files \in Seq(Row) /\ Len(files) \in Nat
      BY DEF IInv, TypeOK
    <3>2. \A i \in 1 .. Len(files) :
            i \in 1 .. Len(files') /\ files'[i] = files[i]
      BY <2>2, <3>1
    <3> QED
      BY <3>2 DEF Published
  <2> QED
    BY <2>1, <2>2, StepKeepsOrAppends
<1>2. PICK p \in torn : p \in Published
  BY DEF Damaged
<1>3. ASSUME NEW d \in Desc, UploadCommand(d)
      PROVE  p \in torn'
  <2>1. ASSUME NEW q \in Path, NEW size \in Size, NEW fd \in Desc,
               UploadAccepted(d, q, size, fd)
        PROVE  p \in torn'
    BY <1>2, <2>1, AbsentUnpublished DEF UploadAccepted
  <2>2. CASE \/ PrepareWithoutName(d)
             \/ UploadRefused(d)
             \/ UploadDirectoryFails(d)
             \/ UploadOpenFails(d)
    BY <1>2, <2>2 DEF PrepareWithoutName, UploadRefused,
                      UploadDirectoryFails, UploadOpenFails
  <2> QED
    BY <1>3, <2>1, <2>2 DEF UploadCommand
<1>4. ASSUME NEW d \in Desc, UploadTransfer(d)
      PROVE  p \in torn'
  <2>1. ASSUME NEW rlen, NEW sig, NEW ps, UploadReceives(d, rlen, sig, ps)
        PROVE  p \in torn'
    BY <1>2, <2>1 DEF UploadReceives
  <2>2. ASSUME NEW rlen, NEW sig, NEW ps,
               \/ UploadCancelled(d, rlen, sig, ps)
               \/ UploadWriteFails(d, rlen, sig, ps)
        PROVE  p \in torn'
    BY <1>2, <2>2 DEF UploadCancelled, UploadWriteFails, AbortUpload
  <2>3. CASE UploadEof(d) \/ UploadEofOfEmptyFile(d)
    BY <1>2, <2>3 DEF UploadEof, UploadEofOfEmptyFile, AbortUpload
  <2> QED
    BY <1>4, <2>1, <2>2, <2>3 DEF UploadTransfer
<1>5. ASSUME NEW d \in Desc,
             Accept(d) \/ Close(d) \/ LoginStep(d) \/ SaveFile(d)
      PROVE  p \in torn'
  BY <1>2, <1>5 DEF Accept, Close, LoginStep, Register, EnterName,
                    EnterAnonymous, LogIn, LogInFails, SaveFile
<1>6. ASSUME NEW d \in Desc, DownloadCommand(d)
      PROVE  p \in torn'
  BY <1>2, <1>6 DEF DownloadCommand, DownloadNotFound, DownloadOpenFails,
                    DownloadDamaged, DownloadAccepted
<1>7. ASSUME NEW d \in Desc, DownloadTransfer(d)
      PROVE  p \in torn'
  BY <1>2, <1>7 DEF DownloadTransfer, DownloadPauses, DownloadEof,
                    DownloadWriteFails, DownloadSends, ConfirmContinue,
                    ConfirmCancel
<1>8. Restart \/ UNCHANGED vars => p \in torn'
  BY <1>2 DEF Restart, vars
<1>9. p \in torn'
  BY <1>2, <1>3, <1>4, <1>5, <1>6, <1>7, <1>8 DEF Next
<1> QED
  BY <1>1, <1>2, <1>9 DEF Damaged

(* file_send_prepare opens a file of another size than its row says: the   *)
(* descriptor is lost, and RowsIntact names the cause.                     *)
LEMMA DownloadDamagedIsDamaged ==
  ASSUME IInv, LeakInv, NEW d \in Desc, NEW i \in Visible, NEW fd \in Desc,
         DownloadDamaged(d, i, fd)
  PROVE  /\ Damaged
         /\ \A e \in Desc : IdleSession(connections'[e])
<1> DEFINE c == connections[d]
           s == [c EXCEPT !.file = FileOf(files[i])]
<1>1. i \in 1 .. Len(files) /\ disk[files[i].path] # files[i].size
  BY DEF DownloadDamaged, Visible
<1>2. Damaged
  BY <1>1 DEF IInv, RowsIntact, Damaged, Published
<1>3. c \in Session /\ IdleSession(c) /\ InState(d, "OP_WAIT")
  BY DEF IInv, TypeOK, LeakInv, DownloadDamaged
<1>4. \A e \in Desc :
        connections'[e] = IF e = d THEN s ELSE connections[e]
  BY DEF DownloadDamaged, IInv, TypeOK, Become
<1>5. s.state = "OP_WAIT" /\ s.fd = c.fd
  BY <1>3 DEF Session, InState
<1> HIDE DEF s
<1>6. IdleSession(s)
  BY <1>3, <1>5, AtPrompt, NoFileStates, IdleWithoutFd
<1> QED
  BY <1>2, <1>4, <1>6 DEF LeakInv

(* A row gets the size of the file its session stored. *)
LEMMA RowsHaveBytes ==
  ASSUME IInv, LeakInv, [Next]_vars
  PROVE  \A i \in 1 .. Len(files') : files'[i].size # 0
<1>1. CASE files' = files
  BY <1>1 DEF LeakInv
<1>2. ASSUME NEW d \in Desc, SaveFile(d), files' # files
      PROVE  \A i \in 1 .. Len(files') : files'[i].size # 0
  <2> DEFINE r == RowOf(connections[d])
  <2>1. InState(d, "OP_UPLOAD_DESCRIPTION") /\ files' = Append(files, r)
    BY <1>2 DEF SaveFile
  <2>2. r \in Row
    BY <2>1, RowOfSession
  <2>3. r.size # 0
    BY <2>1 DEF RowOf, LeakInv, IdleSession, InState, StoringStates
  <2>4. files \in Seq(Row) /\ Len(files) \in Nat
    BY DEF IInv, TypeOK
  <2> HIDE DEF r
  <2>5. /\ Len(files') = Len(files) + 1
        /\ files'[Len(files) + 1] = r
        /\ \A i \in 1 .. Len(files) : files'[i] = files[i]
    BY <2>1, <2>2, <2>4
  <2>6. \A i \in 1 .. Len(files') : i \in 1 .. Len(files) \/ i = Len(files) + 1
    BY <2>4, <2>5
  <2> QED
    BY <2>3, <2>5, <2>6 DEF LeakInv
<1>3. ASSUME NEW d \in Desc, Accept(d) \/ Close(d) \/ LoginStep(d)
      PROVE  files' = files
  BY <1>3 DEF Accept, Close, LoginStep, Register, EnterName, EnterAnonymous,
              LogIn, LogInFails
<1>4. ASSUME NEW d \in Desc, UploadCommand(d)
      PROVE  files' = files
  BY <1>4, UploadCommandKeeps DEF Kept
<1>5. ASSUME NEW d \in Desc, UploadTransfer(d)
      PROVE  files' = files
  BY <1>5, UploadTransferKeeps DEF Kept
<1>6. ASSUME NEW d \in Desc, DownloadCommand(d)
      PROVE  files' = files
  BY <1>6 DEF DownloadCommand, DownloadNotFound, DownloadOpenFails,
              DownloadDamaged, DownloadAccepted
<1>7. ASSUME NEW d \in Desc, DownloadTransfer(d)
      PROVE  files' = files
  BY <1>7 DEF DownloadTransfer, DownloadPauses, DownloadEof,
              DownloadWriteFails, DownloadSends, ConfirmContinue,
              ConfirmCancel
<1>8. CASE Restart \/ UNCHANGED vars
  BY <1>1, <1>8 DEF Restart, vars
<1> QED
  BY <1>1, <1>2, <1>3, <1>4, <1>5, <1>6, <1>7, <1>8 DEF Next

-----------------------------------------------------------------------------
LEMMA NextLeakInv ==
  ASSUME 0 \notin Size, IInv, DescriptorsOwned, LeakInv, [Next]_vars
  PROVE  LeakInv'
<1>1. ASSUME \A e \in Desc : IdleSession(connections'[e]),
             Returned => Returned'
      PROVE  LeakInv'
  <2>1. \A e \in Desc : IdleSession(connections[e])'
    BY <1>1 DEF IdleSession
  <2>2. Returned' \/ Damaged'
    BY <1>1, DamagedStays DEF LeakInv
  <2> QED
    BY <2>1, <2>2, RowsHaveBytes DEF LeakInv
<1>2. ASSUME NEW d \in Desc, GivesBack(d)
      PROVE  LeakInv'
  BY <1>1, <1>2, GivesBackStep DEF LeakInv
<1>3. \A d \in Desc : IdleSession(connections[d])
  BY DEF LeakInv
<1>4. ASSUME NEW d \in Desc, Accept(d) \/ Close(d)
      PROVE  LeakInv'
  BY <1>1, <1>3, <1>4, AcceptReturned, CloseReturned
<1>5. ASSUME NEW d \in Desc,
             \/ LoginStep(d)
             \/ UploadCommand(d) \/ UploadTransfer(d)
             \/ DownloadTransfer(d)
      PROVE  LeakInv'
  BY <1>2, <1>3, <1>5, LoginGivesBack, UploadCommandGivesBack,
     UploadTransferGivesBack, DownloadTransferGivesBack
<1>6. ASSUME NEW d \in Desc, SaveFile(d)
      PROVE  LeakInv'
  BY <1>2, <1>3, <1>6, NoFileStates, ConnectedIn, ClearFileGivesBack
     DEF SaveFile
<1>7. ASSUME NEW d \in Desc, DownloadCommand(d)
      PROVE  LeakInv'
  <2>1. CASE \E i \in Visible, fd \in Desc : DownloadDamaged(d, i, fd)
    <3>1. Damaged /\ \A e \in Desc : IdleSession(connections'[e])
      BY <2>1, DownloadDamagedIsDamaged
    <3>2. \A e \in Desc : IdleSession(connections[e])'
      BY <3>1 DEF IdleSession
    <3> QED
      BY <3>1, <3>2, DamagedStays, RowsHaveBytes DEF LeakInv
  <2>2. CASE \/ DownloadNotFound(d)
             \/ \E i \in Visible :
                  \/ DownloadOpenFails(d, i)
                  \/ \E fd \in Desc : DownloadAccepted(d, i, fd)
    BY <1>2, <2>2, DownloadCommandGivesBack
  <2> QED
    BY <1>7, <2>1, <2>2 DEF DownloadCommand
<1>8. CASE Restart
  <2>1. \A d \in Desc : connections'[d] = NullSession
    BY <1>8 DEF Restart
  <2>2. NullSession.state = "NULL" /\ NullSession.fd = NoFd
    BY DEF NullSession
  <2>3. IdleSession(NullSession)
    BY <2>2, IdleWithoutFd DEF FileStates, TransferStates
  <2>4. Returned'
    <3>1. Connected' = {}
      BY <2>1, <2>2 DEF Connected
    <3> QED
      BY <1>8, <2>1, <2>2, <3>1 DEF Restart, Returned
  <2> QED
    BY <1>1, <2>1, <2>3, <2>4
<1>9. CASE UNCHANGED vars
  BY <1>1, <1>3, <1>9 DEF vars, Returned, Connected
<1> QED
  BY <1>4, <1>5, <1>6, <1>7, <1>8, <1>9 DEF Next

(* Without empty files and without a short write the server holds the      *)
(* sockets and the files of its sessions and nothing else, however many    *)
(* transfers are refused, aborted or closed.                               *)
THEOREM NoDescriptorLost ==
  Spec => []DescriptorsReturned
<1>1. CASE 0 \in Size
  <2>1. DescriptorsReturned
    BY <1>1 DEF DescriptorsReturned
  <2> QED
    BY <2>1, PTL
<1>2. CASE 0 \notin Size
  <2>1. Init => LeakInv
    <3> SUFFICES ASSUME Init
                 PROVE  LeakInv
      OBVIOUS
    <3>1. \A d \in Desc : connections[d] = NullSession
      BY DEF Init
    <3>2. NullSession.state = "NULL" /\ NullSession.fd = NoFd
      BY DEF NullSession
    <3>3. IdleSession(NullSession)
      BY <3>2, IdleWithoutFd DEF FileStates, TransferStates
    <3>4. Returned
      BY <3>1, <3>2 DEF Init, Returned, Connected
    <3> QED
      BY <3>1, <3>3, <3>4 DEF Init, LeakInv
  <2>2. IInv /\ DescriptorsOwned /\ LeakInv /\ [Next]_vars => LeakInv'
    BY <1>2, NextLeakInv
  <2>3. LeakInv => DescriptorsReturned
    BY DEF LeakInv, DescriptorsReturned, Returned, Damaged
  <2> QED
    BY <2>1, <2>2, <2>3, Invariance, OwnerOfEveryDescriptor, PTL DEF Spec
<1> QED
  BY <1>1, <1>2

-----------------------------------------------------------------------------
(* Orphans                                                                 *)
(*                                                                         *)
(* An orphan appears when a session stops storing its file while the file  *)
(* stays.  A session in OP_UPLOAD is served by file_upload alone, since    *)
(* its descriptor is its own (DescriptorsOwned), and every end of          *)
(* file_upload unlinks, but for the end of a file without bytes: those are *)
(* the files that are in OP_UPLOAD with nothing left (EmptyFirst).         *)

(* file_upload leaves OP_UPLOAD with the last byte. *)
EmptyFirst ==
  \A d \in Desc :
    InState(d, "OP_UPLOAD") /\ connections[d].file.rest = 0 =>
      connections[d].file.size = 0

(* A handler works on one session. *)
LEMMA OtherSessions ==
  ASSUME IInv, NEW d \in Desc,
         \/ Accept(d) \/ Close(d) \/ LoginStep(d)
         \/ UploadCommand(d) \/ UploadTransfer(d)
         \/ SaveFile(d)
         \/ DownloadCommand(d) \/ DownloadTransfer(d),
         NEW e \in Desc \ {d}
  PROVE  connections'[e] = connections[e]
<1>1. ASSUME NEW s, Become(d, s)
      PROVE  connections'[e] = connections[e]
  BY <1>1 DEF IInv, TypeOK, Become
<1>2. CASE Accept(d) \/ Close(d)
  BY <1>1, <1>2 DEF Accept, Close
<1>3. CASE LoginStep(d)
  BY <1>1, <1>3 DEF LoginStep, Register, EnterName, EnterAnonymous, LogIn,
                    LogInFails
<1>4. CASE \/ UploadCommand(d) \/ UploadTransfer(d)
           \/ SaveFile(d)
           \/ DownloadCommand(d) \/ DownloadTransfer(d)
  BY <1>4, UploadSameUsers, SaveFileSameUsers, DownloadSameUsers
     DEF SameUsers
<1> QED
  BY <1>2, <1>3, <1>4

-----------------------------------------------------------------------------
(* EmptyFirst is an invariant.                                             *)

(* A handler that ends in another state. *)
LEMMA NotUploading ==
  ASSUME IInv, NEW d \in Desc,
         \/ Accept(d) \/ Close(d) \/ LoginStep(d)
         \/ SaveFile(d)
         \/ DownloadCommand(d) \/ DownloadTransfer(d)
  PROVE  connections'[d].state # "OP_UPLOAD"
<1> DEFINE c == connections[d]
<1>1. c \in Session /\ c.file \in File
  BY DEF IInv, TypeOK, Session
<1>2. ASSUME NEW s, Become(d, s)
      PROVE  connections'[d] = s
  BY <1>2 DEF IInv, TypeOK, Become
<1>3. ASSUME NEW st, st # "OP_UPLOAD", ClearFile(d, st)
      PROVE  connections'[d].state # "OP_UPLOAD"
  BY <1>1, <1>2, <1>3, ClearedSession DEF ClearFile, Session
<1>4. CASE Accept(d)
  BY <1>2, <1>4 DEF Accept, NullSession
<1>5. CASE Close(d)
  BY <1>2, <1>5, NullSessionType DEF Close
<1>6. CASE LoginStep(d)
  BY <1>1, <1>2, <1>6
     DEF LoginStep, Register, EnterName, EnterAnonymous, LogIn, LogInFails,
         Session
<1>7. CASE SaveFile(d)
  BY <1>3, <1>7 DEF SaveFile
<1>8. CASE DownloadCommand(d)
  BY <1>1, <1>2, <1>8
     DEF DownloadCommand, DownloadNotFound, DownloadOpenFails,
         DownloadDamaged, DownloadAccepted, InState, Session
<1>9. CASE DownloadTransfer(d)
  <2>1. CASE DownloadEof(d) \/ DownloadWriteFails(d) \/ ConfirmCancel(d)
    BY <1>1, <1>2, <1>3, <2>1
       DEF DownloadEof, DownloadWriteFails, ConfirmCancel, Session
  <2>2. CASE DownloadPauses(d)
    BY <1>1, <1>2, <2>2 DEF DownloadPauses, Session
  <2>3. CASE DownloadSends(d)
    BY <1>1, <1>2, <1>3, <2>3 DEF DownloadSends, Session
  <2>4. ASSUME NEW ps \in PackageSize, ConfirmContinue(d, ps)
        PROVE  connections'[d].state # "OP_UPLOAD"
    BY <1>1, <1>2, <2>4 DEF ConfirmContinue, Session
  <2> QED
    BY <1>9, <2>1, <2>2, <2>3, <2>4 DEF DownloadTransfer
<1> QED
  BY <1>4, <1>5, <1>6, <1>7, <1>8, <1>9

(* file_receive_prepare and file_upload *)
LEMMA UploadingRest ==
  ASSUME IInv, EmptyFirst, NEW d \in Desc,
         UploadCommand(d) \/ UploadTransfer(d),
         connections'[d].state = "OP_UPLOAD",
         connections'[d].file.rest = 0
  PROVE  connections'[d].file.size = 0
<1> DEFINE c == connections[d]
<1>1. c \in Session /\ c.file \in File
  BY DEF IInv, TypeOK, Session
<1>2. ASSUME NEW s, Become(d, s)
      PROVE  connections'[d] = s
  BY <1>2 DEF IInv, TypeOK, Become
<1>3. ~ClearFile(d, "OP_WAIT")
  BY <1>1, <1>2, ClearedSession DEF ClearFile, Session
<1>4. /\ ~PrepareWithoutName(d)
      /\ \A written : ~AbortUpload(d, written)
  BY <1>3 DEF PrepareWithoutName, AbortUpload
<1>5. ~UploadRefused(d) /\ ~UploadDirectoryFails(d) /\ ~UploadOpenFails(d)
  BY <1>1, <1>2 DEF UploadRefused, UploadDirectoryFails, UploadOpenFails,
                    DropNewFile, InState, Session
<1>6. ~UploadEofOfEmptyFile(d)
  BY <1>1, <1>2 DEF UploadEofOfEmptyFile, Session
<1>7. ASSUME NEW p \in Path, NEW size \in Size, NEW fd \in Desc,
             UploadAccepted(d, p, size, fd)
      PROVE  connections'[d].file.size = 0
  <2> DEFINE f == [path |-> p, size |-> size, rest |-> size,
                   package_rest |-> 0]
             s == [c EXCEPT !.state = "OP_UPLOAD", !.fd = fd, !.file = f]
  <2>1. connections'[d] = s
    BY <1>2, <1>7 DEF UploadAccepted
  <2>2. f.rest = f.size
    OBVIOUS
  <2> HIDE DEF f
  <2>3. s.file = f
    BY <1>1 DEF Session
  <2> QED
    BY <2>1, <2>2, <2>3
<1>8. ASSUME NEW rlen, NEW sig, NEW ps, UploadReceives(d, rlen, sig, ps)
      PROVE  FALSE
  <2> DEFINE u == Upload(d, rlen, sig, ps)
             st == IF u.rest = 0 THEN "OP_UPLOAD_DESCRIPTION" ELSE "OP_UPLOAD"
             s == [c EXCEPT !.file.rest = u.rest,
                            !.file.package_rest = u.package_rest,
                            !.state = st]
  <2>1. connections'[d] = s
    BY <1>2, <1>8 DEF UploadReceives
  <2>2. u.rest = 0 => st # "OP_UPLOAD"
    OBVIOUS
  <2> HIDE DEF u, st
  <2>3. s.state = st /\ s.file.rest = u.rest
    BY <1>1 DEF Session, File
  <2> QED
    BY <2>1, <2>2, <2>3
<1>9. /\ \A rlen, sig, ps : /\ ~UploadCancelled(d, rlen, sig, ps)
                            /\ ~UploadWriteFails(d, rlen, sig, ps)
      /\ ~UploadEof(d)
  BY <1>4 DEF UploadCancelled, UploadWriteFails, UploadEof
<1> QED
  BY <1>4, <1>5, <1>6, <1>7, <1>8, <1>9 DEF UploadCommand, UploadTransfer

LEMMA NextEmptyFirst ==
  ASSUME IInv, EmptyFirst, [Next]_vars
  PROVE  EmptyFirst'
<1>1. ASSUME NEW d \in Desc,
             \/ Accept(d) \/ Close(d) \/ LoginStep(d)
             \/ UploadCommand(d) \/ UploadTransfer(d)
             \/ SaveFile(d)
             \/ DownloadCommand(d) \/ DownloadTransfer(d)
      PROVE  EmptyFirst'
  <2>1. \A e \in Desc \ {d} : connections'[e] = connections[e]
    BY <1>1, OtherSessions
  <2>2. connections'[d].state = "OP_UPLOAD" /\ connections'[d].file.rest = 0 =>
          connections'[d].file.size = 0
    BY <1>1, NotUploading, UploadingRest
  <2> QED
    BY <2>1, <2>2 DEF EmptyFirst, InState
<1>2. CASE Restart
  <2>1. \A d \in Desc : connections'[d].state = "NULL"
    BY <1>2 DEF Restart, NullSession
  <2> QED
    BY <2>1 DEF EmptyFirst, InState
<1>3. CASE UNCHANGED vars
  BY <1>3 DEF vars, EmptyFirst, InState
<1> QED
  BY <1>1, <1>2, <1>3 DEF Next

-----------------------------------------------------------------------------
(* Where an orphan can come from                                           *)

(* file_upload goes on, removes the file, or ends a file without bytes.    *)
LEMMA UploadEnds ==
  ASSUME IInv, EmptyFirst, cwd = "work",
         NEW d \in Desc, InState(d, "OP_UPLOAD"),
         connections[d].file.size # 0,
         UploadTransfer(d),
         NEW p \in Path, p = connections[d].file.path
  PROVE  \/ disk'[p] = Absent
         \/ Storing(d)' /\ connections'[d].file.path = p
<1> DEFINE c == connections[d]
<1>1. c \in Session /\ c.file \in File
  BY DEF IInv, TypeOK, Session
<1>2. ASSUME NEW written, AbortUpload(d, written)
      PROVE  disk'[p] = Absent
  BY <1>2 DEF AbortUpload, Unlink, IInv, TypeOK
<1>3. ASSUME NEW rlen, NEW sig, NEW ps, UploadReceives(d, rlen, sig, ps)
      PROVE  Storing(d)' /\ connections'[d].file.path = p
  <2> DEFINE u == Upload(d, rlen, sig, ps)
             st == IF u.rest = 0 THEN "OP_UPLOAD_DESCRIPTION" ELSE "OP_UPLOAD"
             s == [c EXCEPT !.file.rest = u.rest,
                            !.file.package_rest = u.package_rest,
                            !.state = st]
  <2>1. connections'[d] = s
    BY <1>3 DEF UploadReceives, IInv, TypeOK, Become
  <2>2. st \in StoringStates
    BY DEF StoringStates
  <2> HIDE DEF u, st
  <2>3. s.state = st /\ s.file.path = c.file.path
    BY <1>1 DEF Session, File
  <2> HIDE DEF s
  <2> QED
    BY <2>1, <2>2, <2>3 DEF Storing
<1>4. ASSUME NEW rlen, NEW sig, NEW ps,
             \/ UploadCancelled(d, rlen, sig, ps)
             \/ UploadWriteFails(d, rlen, sig, ps)
      PROVE  disk'[p] = Absent
  BY <1>2, <1>4 DEF UploadCancelled, UploadWriteFails
<1>5. CASE UploadEof(d)
  BY <1>2, <1>5 DEF UploadEof
<1>6. ~UploadEofOfEmptyFile(d)
  BY DEF UploadEofOfEmptyFile, EmptyFirst
<1> QED
  BY <1>3, <1>4, <1>5, <1>6 DEF UploadTransfer

(* The main loop serves such a session with file_upload only. *)
LEMMA OnlyUploadTransfer ==
  ASSUME DescriptorsOwned, NEW d \in Desc, InState(d, "OP_UPLOAD")
  PROVE  /\ ~Accept(d) /\ ~Close(d) /\ ~LoginStep(d)
         /\ ~UploadCommand(d) /\ ~SaveFile(d)
         /\ ~DownloadCommand(d) /\ ~DownloadTransfer(d)
<1>1. d \in open
  BY DEF DescriptorsOwned, Connected, InState
<1>2. ~Accept(d) /\ ~Close(d) /\ ~SaveFile(d)
  BY <1>1 DEF Accept, Close, SaveFile, InState, TransferStates
<1>3. ~LoginStep(d)
  BY DEF LoginStep, Register, EnterName, EnterAnonymous, LogIn, LogInFails,
         InState
<1>4. ~UploadCommand(d)
  BY DEF UploadCommand, PrepareWithoutName, UploadRefused,
         UploadDirectoryFails, UploadOpenFails, UploadAccepted, InState
<1>5. ~DownloadCommand(d)
  BY DEF DownloadCommand, DownloadNotFound, DownloadOpenFails,
         DownloadDamaged, DownloadAccepted, InState
<1>6. ~DownloadTransfer(d)
  BY DEF DownloadTransfer, DownloadPauses, DownloadEof, DownloadWriteFails,
         DownloadSends, ConfirmContinue, ConfirmCancel, InState
<1> QED
  BY <1>2, <1>3, <1>4, <1>5, <1>6

(* A file appears as the file of a session that stores it. *)
LEMMA NewFileIsStored ==
  ASSUME IInv, [Next]_vars, NEW p \in Path,
         disk[p] = Absent, disk'[p] # Absent
  PROVE  \E d \in Desc : Storing(d)' /\ connections'[d].file.path = p
<1>1. disk' # disk
  OBVIOUS
<1>2. ASSUME NEW written, NEW q, Unlink(q, written)
      PROVE  FALSE
  BY <1>2 DEF Unlink, IInv, TypeOK
<1>3. ASSUME NEW d \in Desc, UploadCommand(d)
      PROVE  Storing(d)' /\ connections'[d].file.path = p
  <2>1. PICK q \in Path, size \in Size, fd \in Desc :
          UploadAccepted(d, q, size, fd)
    BY <1>1, <1>3 DEF UploadCommand, PrepareWithoutName, UploadRefused,
                      UploadDirectoryFails, UploadOpenFails
  <2>2. p = q
    BY <2>1 DEF UploadAccepted, IInv, TypeOK
  <2> DEFINE s == [connections[d] EXCEPT
                     !.state = "OP_UPLOAD", !.fd = fd,
                     !.file = [path |-> q, size |-> size, rest |-> size,
                               package_rest |-> 0]]
  <2>3. connections'[d] = s /\ connections[d] \in Session
    BY <2>1 DEF UploadAccepted, IInv, TypeOK, Become
  <2>4. s.state = "OP_UPLOAD" /\ s.file.path = q
    BY <2>3 DEF Session
  <2> HIDE DEF s
  <2> QED
    BY <2>2, <2>3, <2>4 DEF Storing, StoringStates
<1>4. ASSUME NEW d \in Desc, UploadTransfer(d)
      PROVE  FALSE
  <2>1. ASSUME InState(d, "OP_UPLOAD")
        PROVE  disk[connections[d].file.path] # Absent
    BY <2>1 DEF IInv, SessionInv, InState, StoringStates
  <2>2. ASSUME NEW rlen, NEW sig, NEW ps, UploadReceives(d, rlen, sig, ps)
        PROVE  FALSE
    BY <2>1, <2>2 DEF UploadReceives, IInv, TypeOK
  <2>3. ASSUME NEW rlen, NEW sig, NEW ps,
               \/ UploadCancelled(d, rlen, sig, ps)
               \/ UploadWriteFails(d, rlen, sig, ps)
        PROVE  FALSE
    BY <1>2, <2>3 DEF UploadCancelled, UploadWriteFails, AbortUpload
  <2>4. CASE UploadEof(d) \/ UploadEofOfEmptyFile(d)
    BY <1>1, <1>2, <2>4 DEF UploadEof, UploadEofOfEmptyFile, AbortUpload
  <2> QED
    BY <1>4, <2>2, <2>3, <2>4 DEF UploadTransfer
<1>5. ASSUME NEW d \in Desc, SaveFile(d)
      PROVE  FALSE
  BY <1>1, <1>2, <1>5 DEF SaveFile
<1>6. ASSUME NEW d \in Desc, Accept(d) \/ Close(d) \/ LoginStep(d)
      PROVE  FALSE
  BY <1>1, <1>6 DEF Accept, Close, LoginStep, Register, EnterName,
                    EnterAnonymous, LogIn, LogInFails
<1>7. ASSUME NEW d \in Desc, DownloadCommand(d)
      PROVE  FALSE
  BY <1>1, <1>7 DEF DownloadCommand, DownloadNotFound, DownloadOpenFails,
                    DownloadDamaged, DownloadAccepted
<1>8. ASSUME NEW d \in Desc, DownloadTransfer(d)
      PROVE  FALSE
  BY <1>1, <1>8 DEF DownloadTransfer, DownloadPauses, DownloadEof,
                    DownloadWriteFails, DownloadSends, ConfirmContinue,
                    ConfirmCancel
<1>9. ~Restart /\ ~UNCHANGED vars
  BY <1>1 DEF Restart, vars
<1> QED
  BY <1>3, <1>4, <1>5, <1>6, <1>7, <1>8, <1>9 DEF Next

(* The step that makes p an orphan. *)
LEMMA OrphanStep ==
  ASSUME IInv, EmptyFirst, DescriptorsOwned, [Next]_vars,
         NEW p \in Path, Orphan(p)', ~Orphan(p),
         open' # {}, cwd = "work"
  PROVE  \E d \in Desc :
           /\ Storing(d)
           /\ connections[d].file.path = p
           /\ \/ InState(d, "OP_UPLOAD_DESCRIPTION")
              \/ connections[d].file.size = 0
<1>1. /\ disk'[p] # Absent
      /\ p \notin Published'
      /\ \A d \in Desc : Storing(d)' => connections'[d].file.path # p
  BY DEF Orphan
<1>2. disk[p] # Absent
  BY <1>1, NewFileIsStored
<1>3. p \notin Published
  <2>1. CASE Kept
    BY <1>1, <2>1 DEF Kept, Published
  <2>2. ASSUME NEW r \in Row, files' = Append(files, r)
        PROVE  p \notin Published
    <3>1. files \in Seq(Row) /\ Len(files) \in Nat
      BY DEF IInv, TypeOK
    <3>2. \A i \in 1 .. Len(files) :
            i \in 1 .. Len(files') /\ files'[i] = files[i]
      BY <2>2, <3>1
    <3> QED
      BY <1>1, <3>2 DEF Published
  <2> QED
    BY <2>1, <2>2, StepKeepsOrAppends
<1>4. PICK d \in Desc : Storing(d) /\ connections[d].file.path = p
  BY <1>2, <1>3 DEF Orphan
<1>5. CASE InState(d, "OP_UPLOAD_DESCRIPTION") \/ connections[d].file.size = 0
  BY <1>4, <1>5
<1>6. CASE InState(d, "OP_UPLOAD") /\ connections[d].file.size # 0
  <2>1. ASSUME NEW e \in Desc,
               \/ Accept(e) \/ Close(e) \/ LoginStep(e)
               \/ UploadCommand(e) \/ UploadTransfer(e)
               \/ SaveFile(e)
               \/ DownloadCommand(e) \/ DownloadTransfer(e)
        PROVE  FALSE
    <3>1. CASE e = d
      BY <1>1, <1>4, <1>6, <2>1, <3>1, OnlyUploadTransfer, UploadEnds
    <3>2. CASE e # d
      <4>1. connections'[d] = connections[d]
        BY <2>1, <3>2, OtherSessions
      <4> QED
        BY <1>1, <1>4, <4>1 DEF Storing
    <3> QED
      BY <3>1, <3>2
  <2>2. ~Restart
    BY DEF Restart
  <2>3. ~UNCHANGED vars
    BY <1>1, <1>4 DEF vars, Storing
  <2> QED
    BY <2>1, <2>2, <2>3 DEF Next
<1> QED
  BY <1>4, <1>5, <1>6 DEF Storing, InState, StoringStates

(* An aborted or refused upload leaves no file behind: one stays without a *)
(* row only when the process stopped, when its description was being       *)
(* entered, when it was empty, or when unlink missed it.                   *)
THEOREM OrphansOnlyFromDescribing ==
  Spec => OrphansOnlyWhileDescribing
<1>1. Init => EmptyFirst
  BY DEF Init, EmptyFirst, InState, NullSession
<1>2. IInv /\ EmptyFirst /\ DescriptorsOwned /\ [Next]_vars =>
        [\A p \in Path :
           Orphan(p)' /\ ~Orphan(p) =>
             \/ open' = {}
             \/ cwd # "work"
             \/ \E d \in Desc :
                  /\ Storing(d)
                  /\ connections[d].file.path = p
                  /\ \/ InState(d, "OP_UPLOAD_DESCRIPTION")
                     \/ connections[d].file.size = 0]_vars
  BY OrphanStep
<1> QED
  BY <1>1, <1>2, NextEmptyFirst, Invariance, OwnerOfEveryDescriptor, PTL
     DEF Spec, OrphansOnlyWhileDescribing
=============================================================================
