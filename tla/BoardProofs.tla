----------------------------- MODULE BoardProofs -----------------------------
(***************************************************************************)
(* Theorems about Board, for any set of descriptors, names, paths and      *)
(* sizes, any disk, and both databases.                                    *)
(*                                                                         *)
(* IInv is inductive: TypeOK alone is not, because the bytes of a file are *)
(* a number only as long as the file exists (no other session unlinked it) *)
(* and file_download subtracts from rest what a file of the right size     *)
(* still holds.                                                            *)
(***************************************************************************)
EXTENDS Board, TransferProofs

(* A session after clear_file_from_sess is a session without a file. *)
LEMMA ClearedSession ==
  ASSUME NEW s \in Session
  PROVE  /\ NullFile \in File
         /\ Cleared(s) \in Session
         /\ Cleared(s).file = NullFile
         /\ Cleared(s).state = s.state
         /\ Cleared(s).uname = s.uname
         /\ Cleared(s).uid = s.uid
         /\ ClosedBy(s) \subseteq Desc \cup {NoFd}
<1>1. NullFile \in File
  BY TransferAssumption DEF NullFile, File, SizeT
<1> QED
  BY <1>1 DEF Cleared, ClosedBy, Session

(* connections[i] == NULL is a session of the model. *)
LEMMA NullSessionType ==
  /\ NullSession \in Session
  /\ NullSession.state = "NULL"
  /\ NullSession.file = NullFile
<1>1. NullFile \in File
  BY TransferAssumption DEF NullFile, File, SizeT
<1> QED
  BY <1>1 DEF NullSession, Session, State

(* The state in which the server starts. *)
LEMMA InitIInv ==
  Init => IInv
<1> SUFFICES ASSUME Init
             PROVE  IInv
  OBVIOUS
<1>1. TypeOK
  BY NullSessionType, BoardAssumption
     DEF Init, TypeOK, Absent
<1>2. \A d \in Desc : SessionInv(connections[d])
  BY NullSessionType
     DEF Init, SessionInv, FileStates, StoringStates, DownloadStates,
         TransferStates
<1>3. \A d, e \in Desc : StoresApart(d, e)
  BY NullSessionType DEF Init, StoresApart, Storing, StoringStates
<1>4. Len(files) = 0
  BY DEF Init
<1> QED
  BY <1>1, <1>2, <1>3, <1>4 DEF IInv, RowsIntact

-----------------------------------------------------------------------------
(* Steps of one session that leave the storage alone                       *)

(* Replacing one session by one that fits the storage as it is. *)
LEMMA SessionStep ==
  ASSUME IInv, NEW d \in Desc, NEW s \in Session,
         Become(d, s),
         SessionInv(s),
         s.state \in StoringStates =>
           /\ Storing(d)
           /\ s.file.path = connections[d].file.path,
         open' \subseteq Desc,
         cwd' \in {"work", "storage"},
         users' \in Seq(Name),
         UNCHANGED <<disk, free, files, torn, told>>
  PROVE  IInv'
<1>1. \A e \in Desc :
        connections'[e] = IF e = d THEN s ELSE connections[e]
  BY DEF IInv, TypeOK, Become
<1>2. TypeOK'
  BY DEF IInv, TypeOK, Become
<1>3. \A e \in Desc : SessionInv(connections[e])'
  BY <1>1 DEF IInv, SessionInv, Accounted, Published
<1>4. \A e, f \in Desc : StoresApart(e, f)'
  BY <1>1 DEF IInv, StoresApart, Storing
<1> QED
  BY <1>2, <1>3, <1>4 DEF IInv, RowsIntact

(* The same, for a session that works on no file. *)
LEMMA IdleStep ==
  ASSUME IInv, NEW d \in Desc, NEW s \in Session,
         Become(d, s),
         s.state \notin FileStates,
         s.file = NullFile \/ s.file.path \in Path,
         open' \subseteq Desc,
         cwd' \in {"work", "storage"},
         users' \in Seq(Name),
         UNCHANGED <<disk, free, files, torn, told>>
  PROVE  IInv'
<1>1. SessionInv(s)
  BY DEF SessionInv, FileStates, StoringStates, DownloadStates,
         TransferStates
<1>2. s.state \notin StoringStates
  BY DEF FileStates, StoringStates, TransferStates
<1> QED
  BY <1>1, <1>2, SessionStep

(* clear_file_from_sess and a state in which there is no file. *)
LEMMA ClearFileStep ==
  ASSUME IInv, NEW d \in Desc, NEW st \in State \ FileStates,
         ClearFile(d, st),
         UNCHANGED <<disk, free, cwd, users, files, torn, told>>
  PROVE  IInv'
<1> DEFINE s == [Cleared(connections[d]) EXCEPT !.state = st]
<1>1. connections[d] \in Session
  BY DEF IInv, TypeOK
<1>2. s \in Session /\ s.state = st /\ s.file = NullFile
  BY <1>1, ClearedSession DEF Session
<1>3. Become(d, s) /\ open' \subseteq Desc
  BY DEF ClearFile, IInv, TypeOK
<1> HIDE DEF s
<1> QED
  BY <1>2, <1>3, IdleStep DEF IInv, TypeOK

(* accept_client *)
LEMMA AcceptIInv ==
  ASSUME IInv, NEW d \in Desc, Accept(d)
  PROVE  IInv'
<1>1. PICK garbage \in Garbage :
        Become(d, [NullSession EXCEPT !.state = "OP_LOGIN_USR",
                                      !.uid = garbage])
  BY DEF Accept
<1> DEFINE s == [NullSession EXCEPT !.state = "OP_LOGIN_USR", !.uid = garbage]
<1>2. /\ s \in Session
      /\ s.state = "OP_LOGIN_USR"
      /\ s.file = NullFile
  BY NullSessionType, BoardAssumption DEF Session, State, LoginStates
<1>3. s.state \notin FileStates
  BY <1>2 DEF FileStates, TransferStates
<1>4. open' \subseteq Desc
  BY DEF Accept, IInv, TypeOK
<1>5. Become(d, s)
  BY <1>1
<1> HIDE DEF s
<1> QED
  BY <1>2, <1>3, <1>4, <1>5, IdleStep DEF Accept, IInv, TypeOK

(* close_session *)
LEMMA CloseIInv ==
  ASSUME IInv, NEW d \in Desc, Close(d)
  PROVE  IInv'
<1>1. NullSession.state \notin FileStates
  BY NullSessionType DEF FileStates, TransferStates
<1>2. open' \subseteq Desc
  BY DEF Close, IInv, TypeOK
<1>3. Become(d, NullSession)
  BY DEF Close
<1> QED
  BY <1>1, <1>2, <1>3, NullSessionType, IdleStep DEF Close, IInv, TypeOK

(* process_user_name, create_user and login *)
LEMMA LoginIInv ==
  ASSUME IInv, NEW d \in Desc, LoginStep(d)
  PROVE  IInv'
<1> DEFINE c == connections[d]
<1>1. c \in Session /\ (c.file = NullFile \/ c.file.path \in Path)
  BY DEF IInv, TypeOK, SessionInv
<1>2. {"OP_WAIT", "OP_LOGIN_PSS", "OP_LOGIN_USR"} \subseteq State \ FileStates
  BY DEF State, LoginStates, FileStates, TransferStates
<1>3. ASSUME NEW n \in Name, Register(d, n)
      PROVE  IInv'
  <2> DEFINE s == [c EXCEPT !.state = "OP_WAIT", !.uname = n,
                            !.uid = Len(users) + 1]
  <2>1. Len(users) + 1 \in Int
    BY DEF IInv, TypeOK
  <2>2. s \in Session /\ s.state = "OP_WAIT" /\ s.file = c.file
    BY <1>1, <1>2, <2>1 DEF Session
  <2>3. users \in Seq(Name)
    BY DEF IInv, TypeOK
  <2>4. users' \in Seq(Name)
    BY <1>3, <2>3 DEF Register
  <2>5. Become(d, s)
    BY <1>3 DEF Register
  <2> HIDE DEF s
  <2> QED
    BY <1>1, <1>2, <1>3, <2>2, <2>4, <2>5, IdleStep DEF Register, IInv, TypeOK
<1>4. ASSUME NEW n \in Name, EnterName(d, n)
      PROVE  IInv'
  <2> DEFINE s == [c EXCEPT !.state = "OP_LOGIN_PSS", !.uname = n]
  <2>1. s \in Session /\ s.state = "OP_LOGIN_PSS" /\ s.file = c.file
    BY <1>1, <1>2 DEF Session
  <2>2. Become(d, s)
    BY <1>4 DEF EnterName
  <2> HIDE DEF s
  <2> QED
    BY <1>1, <1>2, <1>4, <2>1, <2>2, IdleStep DEF EnterName, IInv, TypeOK
<1>5. CASE EnterAnonymous(d)
  <2> DEFINE s == [c EXCEPT !.state = "OP_WAIT", !.uname = Anonymous]
  <2>1. s \in Session /\ s.state = "OP_WAIT" /\ s.file = c.file
    BY <1>1, <1>2 DEF Session
  <2>2. Become(d, s)
    BY <1>5 DEF EnterAnonymous
  <2> HIDE DEF s
  <2> QED
    BY <1>1, <1>2, <1>5, <2>1, <2>2, IdleStep DEF EnterAnonymous, IInv, TypeOK
<1>6. CASE LogIn(d)
  <2>1. PICK i \in 1 .. Len(users) :
          Become(d, [c EXCEPT !.state = "OP_WAIT", !.uid = i])
    BY <1>6 DEF LogIn
  <2> DEFINE s == [c EXCEPT !.state = "OP_WAIT", !.uid = i]
  <2>4. i \in Int
    BY DEF IInv, TypeOK
  <2>2. s \in Session /\ s.state = "OP_WAIT" /\ s.file = c.file
    BY <1>1, <1>2, <2>4 DEF Session
  <2>3. Become(d, s)
    BY <2>1
  <2> HIDE DEF s
  <2> QED
    BY <1>1, <1>2, <1>6, <2>2, <2>3, IdleStep DEF LogIn, IInv, TypeOK
<1>7. CASE LogInFails(d)
  <2> DEFINE s == [c EXCEPT !.state = "OP_LOGIN_USR"]
  <2>1. s \in Session /\ s.state = "OP_LOGIN_USR" /\ s.file = c.file
    BY <1>1, <1>2 DEF Session
  <2>2. Become(d, s)
    BY <1>7 DEF LogInFails
  <2> HIDE DEF s
  <2> QED
    BY <1>1, <1>2, <1>7, <2>1, <2>2, IdleStep DEF LogInFails, IInv, TypeOK
<1> QED
  BY <1>3, <1>4, <1>5, <1>6, <1>7 DEF LoginStep

-----------------------------------------------------------------------------
(* Commands and downloads                                                  *)

LEMMA NoFileStates ==
  {"OP_WAIT", "ERR"} \subseteq State \ FileStates
BY DEF State, FileStates, TransferStates

(* file upload, up to the new file: every refusal clears the file record. *)
LEMMA UploadRefusalIInv ==
  ASSUME IInv, NEW d \in Desc,
         \/ PrepareWithoutName(d)
         \/ UploadRefused(d)
         \/ UploadDirectoryFails(d)
         \/ UploadOpenFails(d)
  PROVE  IInv'
<1> DEFINE s == [connections[d] EXCEPT !.file = NullFile, !.fd = NoFd]
<1>1. CASE PrepareWithoutName(d)
  BY <1>1, NoFileStates, ClearFileStep DEF PrepareWithoutName
<1>2. ASSUME InState(d, "OP_WAIT"), DropNewFile(d),
             cwd' \in {"work", "storage"},
             UNCHANGED <<disk, free, users, files, torn, told>>
      PROVE  IInv'
  <2>1. connections[d] \in Session
    BY DEF IInv, TypeOK
  <2>2. s \in Session /\ s.state = "OP_WAIT" /\ s.file = NullFile
    BY <1>2, <2>1, ClearedSession DEF Session, InState
  <2>3. Become(d, s) /\ open' \subseteq Desc
    BY <1>2 DEF DropNewFile, IInv, TypeOK
  <2> HIDE DEF s
  <2> QED
    BY <1>2, <2>2, <2>3, NoFileStates, IdleStep DEF IInv, TypeOK
<1>3. CASE UploadRefused(d)
  BY <1>2, <1>3 DEF UploadRefused, IInv, TypeOK
<1>4. CASE UploadDirectoryFails(d)
  BY <1>2, <1>4 DEF UploadDirectoryFails
<1>5. CASE UploadOpenFails(d)
  BY <1>2, <1>5 DEF UploadOpenFails
<1> QED
  BY <1>1, <1>3, <1>4, <1>5

(* The file record db_get_file builds from a row. *)
LEMMA FileOfRow ==
  ASSUME IInv, NEW i \in Visible
  PROVE  /\ i \in 1 .. Len(files)
         /\ files[i] \in Row
         /\ files[i].path \in Path
         /\ FileOf(files[i]) \in File
         /\ FileOf(files[i]).path = files[i].path
<1>1. i \in 1 .. Len(files) /\ files[i] \in Row
  BY DEF Visible, IInv, TypeOK
<1>2. 0 \in SizeT
  BY TransferAssumption DEF SizeT
<1> QED
  BY <1>1, <1>2 DEF FileOf, File, Row

(* file download: a session starts to send a file of the announced size. *)
LEMMA DownloadCommandIInv ==
  ASSUME IInv, NEW d \in Desc, DownloadCommand(d)
  PROVE  IInv'
<1> DEFINE c == connections[d]
<1>1. c \in Session
  BY DEF IInv, TypeOK
<1>2. CASE DownloadNotFound(d)
  <2> DEFINE s == [c EXCEPT !.file = NullFile]
  <2>1. s \in Session /\ s.state = "OP_WAIT" /\ s.file = NullFile
    BY <1>1, <1>2, ClearedSession DEF Session, DownloadNotFound, InState
  <2>2. Become(d, s)
    BY <1>2 DEF DownloadNotFound
  <2> HIDE DEF s
  <2> QED
    BY <1>2, <2>1, <2>2, NoFileStates, IdleStep
       DEF DownloadNotFound, IInv, TypeOK
<1>3. ASSUME NEW i \in Visible, InState(d, "OP_WAIT"),
             Become(d, [c EXCEPT !.file = FileOf(files[i])]),
             open' \subseteq Desc,
             UNCHANGED <<disk, free, cwd, users, files, torn, told>>
      PROVE  IInv'
  <2> DEFINE s == [c EXCEPT !.file = FileOf(files[i])]
  <2>1. /\ s \in Session
        /\ s.state = "OP_WAIT"
        /\ s.file.path \in Path
    BY <1>1, <1>3, FileOfRow DEF Session, InState
  <2>2. Become(d, s)
    BY <1>3
  <2> HIDE DEF s
  <2> QED
    BY <1>3, <2>1, <2>2, NoFileStates, IdleStep DEF IInv, TypeOK
<1>4. ASSUME NEW i \in Visible, DownloadOpenFails(d, i)
      PROVE  IInv'
  BY <1>3, <1>4 DEF DownloadOpenFails, IInv, TypeOK
<1>5. ASSUME NEW i \in Visible, NEW fd \in Desc, DownloadDamaged(d, i, fd)
      PROVE  IInv'
  BY <1>3, <1>5 DEF DownloadDamaged, IInv, TypeOK
<1>6. ASSUME NEW i \in Visible, NEW fd \in Desc, DownloadAccepted(d, i, fd)
      PROVE  IInv'
  <2> DEFINE f == [FileOf(files[i]) EXCEPT !.package_rest = PACKAGE_SIZE]
             s == [c EXCEPT !.state = "OP_DOWNLOAD", !.fd = fd, !.file = f]
  <2>1. PACKAGE_SIZE \in SizeT
    BY TransferAssumption DEF SizeT
  <2>2. /\ f \in File
        /\ f.path = files[i].path
        /\ f.size = files[i].size
        /\ f.rest = files[i].size
    BY <2>1, FileOfRow DEF FileOf, File
  <2>3. "OP_DOWNLOAD" \in State
    BY DEF State, FileStates, TransferStates
  <2>4. /\ s \in Session
        /\ s.state = "OP_DOWNLOAD"
        /\ s.fd = fd
        /\ s.file = f
    BY <1>1, <2>2, <2>3 DEF Session
  <2>5. /\ disk[files[i].path] = files[i].size
        /\ open' \subseteq Desc
        /\ UNCHANGED <<disk, free, cwd, users, files, torn, told>>
        /\ Become(d, s)
    BY <1>6 DEF DownloadAccepted, IInv, TypeOK
  <2>6. files[i].path \in Published /\ files[i].size \in Int
    BY FileOfRow DEF Published, Row, SizeT
  <2> HIDE DEF f, s
  <2>7. SessionInv(s)
    BY <2>2, <2>4, <2>5, <2>6, FileOfRow
       DEF SessionInv, StoringStates, DownloadStates
  <2> QED
    BY <2>4, <2>5, <2>7, SessionStep DEF StoringStates, IInv, TypeOK
<1> QED
  BY <1>2, <1>4, <1>5, <1>6 DEF DownloadCommand

(* A session that downloads reads no more than what is left of its file.   *)
LEMMA ReadLenBounds ==
  ASSUME IInv, NEW d \in Desc, InState(d, "OP_DOWNLOAD")
  PROVE  ReadLen(connections[d].file) \in 0 .. connections[d].file.rest
<1> DEFINE f == connections[d].file
<1>1. f \in File
  BY DEF IInv, TypeOK, Session
<1>2. disk[f.path] = f.size /\ f.rest <= f.size
  BY DEF IInv, SessionInv, InState, DownloadStates
<1>3. f.size \in SizeT /\ f.rest \in SizeT /\ f.package_rest \in SizeT
  BY <1>1 DEF File
<1>4. DownloadLen(f.rest, f.package_rest) \in 0 .. INBUFSIZE
  BY <1>3, DownloadLenBounds
<1>5. ReadLen(f) = Lesser(DownloadLen(f.rest, f.package_rest), f.rest)
  BY <1>2, <1>3 DEF ReadLen, SizeT
<1> QED
  BY <1>3, <1>4, <1>5, TransferAssumption DEF Lesser, SizeT

(* A downloading session with other counters, and in a state of a download *)
(* or back at the prompt.                                                  *)
LEMMA DownloadStep ==
  ASSUME IInv, NEW d \in Desc, connections[d].state \in DownloadStates,
         NEW s \in Session,
         s.state \in DownloadStates \cup {"OP_WAIT"},
         s.fd = connections[d].fd,
         s.file.path = connections[d].file.path,
         s.file.size = connections[d].file.size,
         s.file.rest <= connections[d].file.rest,
         Become(d, s),
         UNCHANGED <<open, disk, free, cwd, users, files, torn, told>>
  PROVE  IInv'
<1> DEFINE c == connections[d]
<1>1. c \in Session /\ c.file \in File /\ s.file \in File /\ SessionInv(c)
  BY DEF IInv, TypeOK, Session
<1>2. s.state \notin StoringStates
  BY DEF DownloadStates, StoringStates
<1>3. /\ c.file.path \in Path
      /\ c.fd \in Desc
      /\ c.file.path \in Published
      /\ disk[c.file.path] = c.file.size
      /\ c.file.rest <= c.file.size
  BY <1>1 DEF SessionInv, DownloadStates, FileStates, TransferStates
<1>4. c.file.rest \in Int /\ c.file.size \in Int /\ s.file.rest \in Int
  BY <1>1 DEF File, SizeT
<1>5. SessionInv(s)
  BY <1>2, <1>3, <1>4 DEF SessionInv, StoringStates, DownloadStates
<1> QED
  BY <1>2, <1>5, SessionStep DEF IInv, TypeOK

(* file_download and download_confirm *)
LEMMA DownloadTransferIInv ==
  ASSUME IInv, NEW d \in Desc, DownloadTransfer(d)
  PROVE  IInv'
<1> DEFINE c == connections[d]
           f == c.file
<1>1. /\ c \in Session
      /\ f \in File
      /\ f.rest \in SizeT
      /\ f.package_rest \in SizeT
  BY DEF IInv, TypeOK, Session, File
<1>2. ASSUME NEW st \in DownloadStates \cup {"OP_WAIT"},
             c.state \in DownloadStates,
             Become(d, [c EXCEPT !.state = st]),
             UNCHANGED <<open, disk, free, cwd, users, files, torn, told>>
      PROVE  IInv'
  <2> DEFINE s == [c EXCEPT !.state = st]
  <2>1. st \in State /\ f.rest <= f.rest
    BY <1>1 DEF SizeT, State, FileStates, TransferStates, DownloadStates
  <2>2. s \in Session /\ s.state = st /\ s.fd = c.fd /\ s.file = f
    BY <1>1, <2>1 DEF Session
  <2>3. Become(d, s)
    BY <1>2
  <2> HIDE DEF s
  <2> QED
    BY <1>2, <2>1, <2>2, <2>3, DownloadStep
<1>3. CASE DownloadPauses(d)
  BY <1>2, <1>3 DEF DownloadPauses, InState, DownloadStates
<1>4. CASE DownloadEof(d)
  <2>1. CASE f.rest # 0
    BY <1>4, <2>1, NoFileStates, ClearFileStep DEF DownloadEof
  <2>2. CASE f.rest = 0
    BY <1>2, <1>4, <2>2 DEF DownloadEof, InState, DownloadStates
  <2> QED
    BY <2>1, <2>2
<1>5. CASE DownloadWriteFails(d)
  BY <1>5, NoFileStates, ClearFileStep DEF DownloadWriteFails
<1>6. CASE DownloadSends(d)
  <2> DEFINE rest == Minus(f.rest, ReadLen(f))
             package_rest == Minus(f.package_rest, ReadLen(f))
             st == IF package_rest = 0
                   THEN "OP_DOWNLOAD_WAIT_CONFIRM_PACKAGE"
                   ELSE "OP_DOWNLOAD"
  <2>1. ReadLen(f) \in 0 .. f.rest
    BY <1>6, ReadLenBounds DEF DownloadSends
  <2>2. ReadLen(f) \in SizeT
    BY <1>1, <2>1, TransferAssumption DEF SizeT
  <2>3. rest \in SizeT /\ rest <= f.rest
    BY <1>1, <2>1, <2>2, TransferAssumption DEF Minus, SizeT
  <2>4. package_rest \in SizeT
    BY <1>1, <2>2, MinusInSizeT
  <2>5. CASE rest = 0
    BY <1>6, <2>5, NoFileStates, ClearFileStep DEF DownloadSends
  <2>6. CASE rest # 0
    <3> DEFINE s == [c EXCEPT !.file.rest = rest,
                              !.file.package_rest = package_rest,
                              !.state = st]
    <3>1. st \in DownloadStates /\ st \in State
      BY DEF DownloadStates, State, FileStates, TransferStates
    <3>2. /\ Become(d, s)
          /\ UNCHANGED <<open, disk, free, cwd, users, files, torn, told>>
          /\ c.state \in DownloadStates
      BY <1>6, <2>6 DEF DownloadSends, InState, DownloadStates
    <3> HIDE DEF rest, package_rest, st
    <3>3. /\ s \in Session
          /\ s.state = st
          /\ s.fd = c.fd
          /\ s.file.path = f.path
          /\ s.file.size = f.size
          /\ s.file.rest = rest
      BY <1>1, <2>3, <2>4, <3>1 DEF Session, File
    <3> HIDE DEF s
    <3> QED
      BY <2>3, <3>1, <3>2, <3>3, DownloadStep
  <2> QED
    BY <2>5, <2>6
<1>7. ASSUME NEW ps \in PackageSize, ConfirmContinue(d, ps)
      PROVE  IInv'
  <2>1. ps \in SizeT
    BY BoardAssumption
  <2> DEFINE s == [c EXCEPT !.state = "OP_DOWNLOAD",
                            !.file.package_rest = ps]
  <2>2. /\ Become(d, s)
        /\ UNCHANGED <<open, disk, free, cwd, users, files, torn, told>>
        /\ c.state \in DownloadStates
    BY <1>7 DEF ConfirmContinue, InState, DownloadStates
  <2>3. "OP_DOWNLOAD" \in DownloadStates /\ "OP_DOWNLOAD" \in State
    BY DEF DownloadStates, State, FileStates, TransferStates
  <2>4. /\ s \in Session
        /\ s.state = "OP_DOWNLOAD"
        /\ s.fd = c.fd
        /\ s.file.path = f.path
        /\ s.file.size = f.size
        /\ s.file.rest = f.rest
    BY <1>1, <2>1, <2>3 DEF Session, File
  <2>5. f.rest <= f.rest
    BY <1>1 DEF SizeT
  <2> HIDE DEF s
  <2> QED
    BY <2>2, <2>3, <2>4, <2>5, DownloadStep
<1>8. CASE ConfirmCancel(d)
  BY <1>8, NoFileStates, ClearFileStep DEF ConfirmCancel
<1> QED
  BY <1>3, <1>4, <1>5, <1>6, <1>7, <1>8 DEF DownloadTransfer

-----------------------------------------------------------------------------
(* Steps of one session that change one file                               *)

(* The sessions that do not store p keep their invariant when only the     *)
(* bytes of p change and at most p is published.                           *)
LEMMA OtherSession ==
  ASSUME IInv, NEW e \in Desc, NEW p \in Path,
         connections'[e] = connections[e],
         \A q \in Path \ {p} : disk'[q] = disk[q] /\ (q \in torn => q \in torn'),
         p \notin Published,
         Storing(e) => connections[e].file.path # p,
         Published \subseteq Published',
         Published' \subseteq Published \cup {p}
  PROVE  SessionInv(connections[e])'
<1> DEFINE s == connections[e]
           q == s.file.path
<1>1. SessionInv(s)
  BY DEF IInv
<1>2. CASE s.state \in StoringStates
  <2>1. q \in Path /\ q # p
    BY <1>1, <1>2 DEF SessionInv, Storing, StoringStates, FileStates,
                      TransferStates
  <2> QED
    BY <1>1, <1>2, <2>1 DEF SessionInv, Accounted, StoringStates,
                            DownloadStates
<1>3. CASE s.state \in DownloadStates
  <2>1. q \in Path /\ q \in Published
    BY <1>1, <1>3 DEF SessionInv, DownloadStates, FileStates, TransferStates
  <2>2. disk'[q] = disk[q] /\ q \in Published'
    BY <2>1
  <2> QED
    BY <1>1, <1>3, <2>2 DEF SessionInv, StoringStates, DownloadStates
<1>4. CASE s.state \notin StoringStates \cup DownloadStates
  BY <1>1, <1>4 DEF SessionInv, StoringStates, DownloadStates
<1> QED
  BY <1>2, <1>3, <1>4

(* The rows keep theirs when only the bytes of an unpublished p change. *)
LEMMA RowsKept ==
  ASSUME IInv, NEW p \in Path, p \notin Published,
         \A q \in Path \ {p} : disk'[q] = disk[q] /\ (q \in torn => q \in torn'),
         files' = files
  PROVE  /\ \A i \in 1 .. Len(files') : disk'[files'[i].path] # Absent
         /\ \A i, j \in 1 .. Len(files') :
              files'[i].path = files'[j].path => i = j
         /\ RowsIntact'
<1>1. ASSUME NEW i \in 1 .. Len(files)
      PROVE  files[i].path \in Path /\ files[i].path # p
  <2>1. files[i] \in Row
    BY DEF IInv, TypeOK
  <2>2. files[i].path \in Published
    BY DEF Published
  <2> QED
    BY <2>1, <2>2 DEF Row
<1> QED
  BY <1>1 DEF IInv, RowsIntact

(* A session stops storing p, whose bytes may have changed or gone. *)
LEMMA StopStoring ==
  ASSUME IInv, NEW d \in Desc, Storing(d),
         NEW p, p = connections[d].file.path,
         ClearFile(d, "OP_WAIT"),
         NEW b \in {Absent} \cup 0 .. Capacity,
         disk' = [disk EXCEPT ![p] = b],
         free' \in Nat,
         UNCHANGED <<cwd, users, files, torn>>,
         told' \subseteq Path
  PROVE  IInv'
<1> DEFINE s == [Cleared(connections[d]) EXCEPT !.state = "OP_WAIT"]
<1>1. connections[d] \in Session /\ SessionInv(connections[d])
  BY DEF IInv, TypeOK
<1>2. p \in Path /\ p \notin Published
  BY <1>1 DEF SessionInv, Storing, StoringStates, FileStates, TransferStates
<1>3. s \in Session /\ s.state = "OP_WAIT" /\ s.file = NullFile
  BY <1>1, ClearedSession, NoFileStates DEF Session
<1>4. \A e \in Desc : connections'[e] = IF e = d THEN s ELSE connections[e]
  BY DEF ClearFile, Become, IInv, TypeOK
<1> HIDE DEF s
<1>5. TypeOK'
  <2>1. connections' \in [Desc -> Session]
    BY <1>3, <1>4 DEF ClearFile, Become, IInv, TypeOK
  <2>2. open' \subseteq Desc
    BY DEF ClearFile, IInv, TypeOK
  <2> QED
    BY <1>2, <2>1, <2>2 DEF IInv, TypeOK
<1>6. \A q \in Path \ {p} : disk'[q] = disk[q] /\ (q \in torn => q \in torn')
  BY DEF IInv, TypeOK
<1>7. ASSUME NEW e \in Desc
      PROVE  SessionInv(connections[e])'
  <2>1. CASE e = d
    BY <1>3, <1>4, <2>1
       DEF SessionInv, FileStates, TransferStates, StoringStates,
           DownloadStates
  <2>2. CASE e # d
    <3>1. Storing(e) => connections[e].file.path # p
      BY <2>2 DEF IInv, StoresApart
    <3>2. Published' = Published
      BY DEF Published
    <3> QED
      BY <1>2, <1>4, <1>6, <2>2, <3>1, <3>2, OtherSession
  <2> QED
    BY <2>1, <2>2
<1>8. \A e, f \in Desc : StoresApart(e, f)'
  BY <1>3, <1>4 DEF IInv, StoresApart, Storing, StoringStates
<1> QED
  BY <1>2, <1>5, <1>6, <1>7, <1>8, RowsKept DEF IInv

(* unlink, or the bytes of the last call when unlink misses the file. *)
LEMMA AbortIInv ==
  ASSUME IInv, NEW d \in Desc, InState(d, "OP_UPLOAD"),
         NEW written \in Nat, written <= Room(connections[d].file.path),
         AbortUpload(d, written)
  PROVE  IInv'
<1> DEFINE p == connections[d].file.path
<1>1. Storing(d)
  BY DEF Storing, InState, StoringStates
<1>2. SessionInv(connections[d])
  BY DEF IInv
<1>3. p \in Path /\ disk[p] \in 0 .. Capacity
  BY <1>1, <1>2 DEF SessionInv, Storing, StoringStates, FileStates,
                    TransferStates, IInv, TypeOK
<1>4. /\ ClearFile(d, "OP_WAIT")
      /\ UNCHANGED <<cwd, users, files, torn, told>>
      /\ Unlink(p, written)
  BY DEF AbortUpload
<1>5. free \in Nat /\ disk[p] # Absent /\ told' \subseteq Path
  BY <1>3, <1>4 DEF IInv, TypeOK, Absent
<1> HIDE DEF p
<1>6. CASE cwd = "work"
  <2>1. disk' = [disk EXCEPT ![p] = Absent] /\ free' \in Nat
    BY <1>3, <1>4, <1>5, <1>6 DEF Unlink
  <2> QED
    BY <1>1, <1>4, <1>5, <2>1, StopStoring DEF p
<1>7. CASE cwd # "work"
  <2>1. written <= free /\ disk[p] + written \in 0 .. Capacity
    BY <1>3, <1>5, BoardAssumption DEF Room, Lesser, p
  <2>2. disk' = [disk EXCEPT ![p] = disk[p] + written] /\ free' \in Nat
    BY <1>4, <1>5, <1>7, <2>1 DEF Unlink
  <2> QED
    BY <1>1, <1>4, <1>5, <2>1, <2>2, StopStoring DEF p
<1> QED
  BY <1>6, <1>7

(* What the disk still takes is a number of bytes that keeps the file      *)
(* within the file system.                                                 *)
LEMMA RoomBounds ==
  ASSUME free \in Nat, NEW p, disk[p] \in 0 .. Capacity
  PROVE  /\ Room(p) \in Nat
         /\ Room(p) <= free
         /\ disk[p] + Room(p) <= Capacity
BY BoardAssumption DEF Room, Lesser

(* The two writes of file_upload store no more than they were asked to and *)
(* no more than there is room for.                                         *)
LEMMA TwoWrites ==
  ASSUME free \in Nat, NEW p, disk[p] \in 0 .. Capacity,
         NEW first \in SizeT, NEW second \in SizeT,
         NEW w1, w1 = Lesser(first, Room(p)),
         NEW w2, w2 = Lesser(second, Room(p) - w1)
  PROVE  /\ w1 \in Nat
         /\ w2 \in Nat
         /\ w1 + w2 <= first + second
         /\ disk[p] + w1 + w2 \in 0 .. Capacity
         /\ free - w1 - w2 \in Nat
<1>1. Room(p) \in Nat /\ Room(p) <= free /\ disk[p] + Room(p) <= Capacity
  BY RoomBounds
<1>2. first \in Nat /\ second \in Nat
  BY TransferAssumption DEF SizeT
<1>3. w1 \in Nat /\ w2 \in Nat /\ w1 <= first /\ w2 <= second
  BY <1>1, <1>2 DEF Lesser
<1>4. w1 + w2 <= Room(p)
  BY <1>1, <1>2, <1>3 DEF Lesser
<1> DEFINE b == disk[p]
           r == Room(p)
<1> HIDE DEF b, r
<1>5. b \in Nat /\ r \in Nat /\ r <= free /\ b + r <= Capacity /\ w1 + w2 <= r
  BY <1>1, <1>4, BoardAssumption DEF b, r
<1>6. b + w1 + w2 \in 0 .. Capacity /\ free - w1 - w2 \in Nat
  BY <1>3, <1>5, BoardAssumption
<1> QED
  BY <1>2, <1>3, <1>6 DEF b

(* Bytes on disk and bytes to come, before and after a call that took      *)
(* "taken" bytes off rest and stored all of them: a second wrap of rest    *)
(* would need a file larger than the file system.                          *)
LEMMA AccountedStep ==
  ASSUME NEW bytes \in 0 .. Capacity, NEW size \in SizeT,
         NEW rest \in SizeT, NEW rest1 \in SizeT, NEW taken \in Nat,
         bytes + taken \in 0 .. Capacity,
         bytes + rest \in {size, size + SizeMod},
         rest1 + taken \in {rest, rest + SizeMod}
  PROVE  bytes + taken + rest1 \in {size, size + SizeMod}
BY BoardAssumption, TransferAssumption DEF SizeT

(* file_receive_prepare created a file that no one had. *)
LEMMA UploadAcceptedIInv ==
  ASSUME IInv, NEW d \in Desc, NEW p \in Path, NEW size \in Size,
         NEW fd \in Desc, UploadAccepted(d, p, size, fd)
  PROVE  IInv'
<1> DEFINE f == [path |-> p, size |-> size, rest |-> size, package_rest |-> 0]
           s == [connections[d] EXCEPT !.state = "OP_UPLOAD", !.fd = fd,
                                       !.file = f]
<1>1. connections[d] \in Session
  BY DEF IInv, TypeOK
<1>2. f \in File
  BY BoardAssumption, TransferAssumption DEF File, SizeT
<1>3. "OP_UPLOAD" \in State
  BY DEF State, FileStates, TransferStates
<1>4. s \in Session /\ s.state = "OP_UPLOAD" /\ s.fd = fd /\ s.file = f
  BY <1>1, <1>2, <1>3 DEF Session
<1>5. \A e \in Desc : connections'[e] = IF e = d THEN s ELSE connections[e]
  BY DEF UploadAccepted, Become, IInv, TypeOK
<1>6. /\ disk[p] = Absent
      /\ disk' = [disk EXCEPT ![p] = 0]
      /\ torn' = torn \ {p}
      /\ UNCHANGED <<free, users, files, told>>
      /\ cwd' = "work"
      /\ open' \subseteq Desc
  BY DEF UploadAccepted, IInv, TypeOK
<1> HIDE DEF s
<1>7. TypeOK'
  <2>1. connections' \in [Desc -> Session]
    BY <1>4, <1>5 DEF UploadAccepted, Become, IInv, TypeOK
  <2>2. disk' \in [Path -> {Absent} \cup 0 .. Capacity]
    BY <1>6, BoardAssumption DEF IInv, TypeOK
  <2> QED
    BY <1>6, <2>1, <2>2 DEF IInv, TypeOK
<1>8. p \notin Published
  BY <1>6 DEF Published, IInv
<1>9. \A q \in Path \ {p} : disk'[q] = disk[q] /\ (q \in torn => q \in torn')
  BY <1>6 DEF IInv, TypeOK
<1>10. Published' = Published
  BY <1>6 DEF Published
<1>11. \A e \in Desc : Storing(e) => connections[e].file.path # p
  BY <1>6 DEF IInv, SessionInv, Storing
<1>12. ASSUME NEW e \in Desc
       PROVE  SessionInv(connections[e])'
  <2>1. CASE e = d
    <3>1. disk'[p] = 0 /\ p \notin Published'
      BY <1>6, <1>8, <1>10 DEF IInv, TypeOK
    <3>2. 0 + size = size
      BY BoardAssumption DEF SizeT
    <3> QED
      BY <1>4, <1>5, <2>1, <3>1, <3>2
         DEF SessionInv, Accounted, Absent, FileStates, TransferStates,
             StoringStates, DownloadStates
  <2>2. CASE e # d
    BY <1>5, <1>8, <1>9, <1>10, <1>11, <2>2, OtherSession
  <2> QED
    BY <2>1, <2>2
<1>13. \A e, g \in Desc : StoresApart(e, g)'
  BY <1>4, <1>5, <1>11 DEF IInv, StoresApart, Storing, StoringStates
<1> QED
  BY <1>6, <1>7, <1>8, <1>9, <1>12, <1>13, RowsKept DEF IInv

(* file_upload stored what it received: what is on disk and what is still  *)
(* to come make up the announced size, unless a write was short.           *)
LEMMA UploadReceivesIInv ==
  ASSUME IInv, NEW d \in Desc, NEW rlen \in {-1} \cup 1 .. INBUFSIZE,
         NEW sig \in Signal, NEW ps \in PackageSize,
         UploadReceives(d, rlen, sig, ps)
  PROVE  IInv'
<1> DEFINE c == connections[d]
           f == c.file
           p == f.path
           u == Upload(d, rlen, sig, ps)
           w1 == Lesser(u.first, Room(p))
           w2 == Lesser(u.second, Room(p) - w1)
           st == IF u.rest = 0 THEN "OP_UPLOAD_DESCRIPTION" ELSE "OP_UPLOAD"
           s == [c EXCEPT !.file.rest = u.rest,
                          !.file.package_rest = u.package_rest,
                          !.state = st]
<1>1. c \in Session /\ f \in File /\ SessionInv(c) /\ c.state = "OP_UPLOAD"
  BY DEF IInv, TypeOK, Session, UploadReceives, InState
<1>2. /\ p \in Path
      /\ c.fd \in Desc
      /\ disk[p] # Absent
      /\ p \notin Published
      /\ p \notin torn => Accounted(f)
  BY <1>1 DEF SessionInv, FileStates, TransferStates, StoringStates
<1>3. disk[p] \in 0 .. Capacity /\ free \in Nat
  BY <1>2 DEF IInv, TypeOK
<1>4. f.size \in SizeT /\ f.rest \in SizeT /\ f.package_rest \in SizeT
  BY <1>1 DEF File
<1>5. /\ u.first \in SizeT
      /\ u.second \in SizeT
      /\ u.rest \in SizeT
      /\ u.package_rest \in SizeT
      /\ u.rest + u.first + u.second \in {f.rest, f.rest + SizeMod}
  <2>1. ps \in SizeT
    BY BoardAssumption
  <2> QED
    BY <1>4, <2>1, UploadStepCounts DEF Upload
<1>6. /\ disk' = [disk EXCEPT ![p] = @ + w1 + w2]
      /\ free' = free - w1 - w2
      /\ torn' = IF w1 + w2 < u.first + u.second THEN torn \cup {p} ELSE torn
      /\ Become(d, s)
      /\ UNCHANGED <<open, cwd, users, files, told>>
  BY DEF UploadReceives
<1> HIDE DEF u
<1>7. /\ w1 \in Nat
      /\ w2 \in Nat
      /\ w1 + w2 <= u.first + u.second
      /\ disk[p] + w1 + w2 \in 0 .. Capacity
      /\ free - w1 - w2 \in Nat
  BY <1>3, <1>5, TwoWrites
<1>8. u.first \in Nat /\ u.second \in Nat
  BY <1>5, TransferAssumption DEF SizeT
<1> HIDE DEF w1, w2
<1>9. st \in {"OP_UPLOAD", "OP_UPLOAD_DESCRIPTION"} /\ st \in State
  BY DEF State, FileStates, TransferStates
<1>10. /\ s \in Session
       /\ s.state = st
       /\ s.fd = c.fd
       /\ s.file.path = p
       /\ s.file.size = f.size
       /\ s.file.rest = u.rest
  BY <1>1, <1>5, <1>9 DEF Session, File
<1>11. \A e \in Desc : connections'[e] = IF e = d THEN s ELSE connections[e]
  BY <1>6 DEF Become, IInv, TypeOK
<1>12. /\ disk'[p] = disk[p] + w1 + w2
       /\ disk'[p] \in 0 .. Capacity
       /\ Published' = Published
  BY <1>2, <1>6, <1>7 DEF IInv, TypeOK, Published
<1> HIDE DEF s
<1>13. TypeOK'
  <2>1. connections' \in [Desc -> Session]
    BY <1>6, <1>10 DEF Become, IInv, TypeOK
  <2>2. disk' \in [Path -> {Absent} \cup 0 .. Capacity]
    BY <1>2, <1>6, <1>7 DEF IInv, TypeOK
  <2>3. torn' \subseteq Path
    BY <1>2, <1>6 DEF IInv, TypeOK
  <2> QED
    BY <1>6, <1>7, <2>1, <2>2, <2>3 DEF IInv, TypeOK
<1>14. \A q \in Path \ {p} : disk'[q] = disk[q] /\ (q \in torn => q \in torn')
  BY <1>6 DEF IInv, TypeOK
<1>15. ASSUME p \notin torn'
       PROVE  disk'[p] + u.rest \in {f.size, f.size + SizeMod}
  <2>1. p \notin torn /\ w1 + w2 = u.first + u.second
    BY <1>6, <1>7, <1>8, <1>15
  <2>2. disk[p] + f.rest \in {f.size, f.size + SizeMod}
    BY <1>2, <2>1 DEF Accounted
  <2> DEFINE taken == u.first + u.second
  <2>3. /\ taken \in Nat
        /\ disk'[p] = disk[p] + taken
        /\ disk[p] + taken \in 0 .. Capacity
    <3>1. disk[p] \in Nat /\ taken \in Nat /\ taken = w1 + w2
      BY <1>3, <1>8, <2>1, BoardAssumption
    <3> HIDE DEF taken
    <3>2. disk[p] + w1 + w2 = disk[p] + taken
      BY <1>7, <3>1
    <3> QED
      BY <1>7, <1>12, <3>1, <3>2
  <2>4. u.rest + taken \in {f.rest, f.rest + SizeMod}
    BY <1>4, <1>5, <1>8, TransferAssumption DEF SizeT
  <2> HIDE DEF taken
  <2>5. disk[p] + taken + u.rest \in {f.size, f.size + SizeMod}
    BY <1>3, <1>4, <1>5, <2>2, <2>3, <2>4, AccountedStep
  <2> QED
    BY <2>3, <2>5
<1>16. ASSUME NEW e \in Desc
       PROVE  SessionInv(connections[e])'
  <2>1. CASE e = d
    <3>1. connections'[e] = s
      BY <1>11, <2>1
    <3>2. s.state \in StoringStates /\ s.state \notin DownloadStates
      BY <1>9, <1>10 DEF StoringStates, DownloadStates
    <3>3. s.state = "OP_UPLOAD_DESCRIPTION" => s.file.rest = 0
      BY <1>10
    <3>4. disk'[p] # Absent /\ p \notin Published'
      BY <1>2, <1>12 DEF Absent
    <3> QED
      BY <1>2, <1>10, <1>15, <3>1, <3>2, <3>3, <3>4 DEF SessionInv, Accounted
  <2>2. CASE e # d
    <3>1. Storing(e) => connections[e].file.path # p
      BY <1>1, <2>2 DEF IInv, StoresApart, Storing, StoringStates
    <3> QED
      BY <1>2, <1>11, <1>12, <1>14, <2>2, <3>1, OtherSession
  <2> QED
    BY <2>1, <2>2
<1>17. \A e, g \in Desc : StoresApart(e, g)'
  BY <1>1, <1>10, <1>11 DEF IInv, StoresApart, Storing, StoringStates
<1> QED
  BY <1>2, <1>6, <1>13, <1>14, <1>16, <1>17, RowsKept DEF IInv

(* file_upload, every way it ends *)
LEMMA UploadTransferIInv ==
  ASSUME IInv, NEW d \in Desc, UploadTransfer(d)
  PROVE  IInv'
<1> DEFINE c == connections[d]
           p == c.file.path
<1>1. ASSUME InState(d, "OP_UPLOAD")
      PROVE  free \in Nat /\ disk[p] \in 0 .. Capacity
  BY <1>1 DEF IInv, TypeOK, SessionInv, InState, FileStates, TransferStates,
              StoringStates
<1>2. ASSUME NEW rlen \in {-1} \cup 1 .. INBUFSIZE, NEW sig \in Signal,
             NEW ps \in PackageSize, InState(d, "OP_UPLOAD"),
             NEW w1, w1 = Lesser(Upload(d, rlen, sig, ps).first, Room(p))
      PROVE  w1 \in Nat /\ w1 <= Room(p) /\ Room(p) \in Nat
  <2>1. c.file.rest \in SizeT /\ c.file.package_rest \in SizeT /\ ps \in SizeT
    BY BoardAssumption DEF IInv, TypeOK, Session, File
  <2>2. Upload(d, rlen, sig, ps).first \in Nat
    <3> DEFINE u == Upload(d, rlen, sig, ps)
    <3>1. u.first \in SizeT
      BY <2>1, UploadStepCounts DEF Upload
    <3> HIDE DEF u
    <3>2. u.first \in Nat
      BY <3>1, TransferAssumption DEF SizeT
    <3> QED
      BY <3>2 DEF u
  <2>3. Room(p) \in Nat
    BY <1>1, <1>2, RoomBounds
  <2> QED
    BY <1>2, <2>2, <2>3 DEF Lesser
<1>3. ASSUME InState(d, "OP_UPLOAD"), AbortUpload(d, 0)
      PROVE  IInv'
  <2>1. Room(p) \in Nat
    BY <1>1, <1>3, RoomBounds
  <2> QED
    BY <1>3, <2>1, AbortIInv
<1>4. ASSUME NEW rlen \in {-1} \cup 1 .. INBUFSIZE, NEW sig \in Signal,
             NEW ps \in PackageSize, UploadCancelled(d, rlen, sig, ps)
      PROVE  IInv'
  <2> DEFINE w1 == Lesser(Upload(d, rlen, sig, ps).first, Room(p))
  <2>1. InState(d, "OP_UPLOAD") /\ AbortUpload(d, w1)
    BY <1>4 DEF UploadCancelled
  <2>2. w1 \in Nat /\ w1 <= Room(p)
    BY <1>2, <2>1
  <2> QED
    BY <2>1, <2>2, AbortIInv
<1>5. ASSUME NEW rlen \in {-1} \cup 1 .. INBUFSIZE, NEW sig \in Signal,
             NEW ps \in PackageSize, UploadWriteFails(d, rlen, sig, ps)
      PROVE  IInv'
  <2> DEFINE w1 == Lesser(Upload(d, rlen, sig, ps).first, Room(p))
  <2>1. /\ InState(d, "OP_UPLOAD")
        /\ AbortUpload(d, 0) \/ AbortUpload(d, w1)
    BY <1>5 DEF UploadWriteFails
  <2>2. w1 \in Nat /\ w1 <= Room(p)
    BY <1>2, <2>1
  <2> QED
    BY <1>3, <2>1, <2>2, AbortIInv
<1>6. CASE UploadEof(d)
  BY <1>3, <1>6 DEF UploadEof
<1>7. CASE UploadEofOfEmptyFile(d)
  <2> DEFINE s == [c EXCEPT !.state = "OP_WAIT"]
  <2>1. c \in Session /\ (c.file = NullFile \/ p \in Path)
    BY DEF IInv, TypeOK, SessionInv
  <2>2. s \in Session /\ s.state = "OP_WAIT" /\ s.file = c.file
    BY <2>1, NoFileStates DEF Session
  <2>3. Become(d, s)
    BY <1>7 DEF UploadEofOfEmptyFile
  <2> HIDE DEF s
  <2> QED
    BY <1>7, <2>1, <2>2, <2>3, NoFileStates, IdleStep
       DEF UploadEofOfEmptyFile, IInv, TypeOK
<1> QED
  BY <1>4, <1>5, <1>6, <1>7, UploadReceivesIInv DEF UploadTransfer

(* The row of a session whose description is complete. *)
LEMMA RowOfSession ==
  ASSUME IInv, NEW d \in Desc, InState(d, "OP_UPLOAD_DESCRIPTION"),
         NEW r, r = RowOf(connections[d])
  PROVE  /\ r \in Row
         /\ r.path = connections[d].file.path
         /\ r.path \in Path
         /\ r.path \notin Published
         /\ disk[r.path] \in 0 .. Capacity
         /\ r.path \notin torn => disk[r.path] = r.size
<1> DEFINE c == connections[d]
<1>1. c \in Session /\ c.file \in File /\ SessionInv(c)
  BY DEF IInv, TypeOK, Session
<1>2. /\ c.file.path \in Path
      /\ disk[c.file.path] # Absent
      /\ c.file.path \notin Published
      /\ c.file.path \notin torn => Accounted(c.file)
      /\ c.file.rest = 0
  BY <1>1 DEF SessionInv, InState, FileStates, TransferStates, StoringStates
<1>3. disk[c.file.path] \in 0 .. Capacity
  BY <1>2 DEF IInv, TypeOK
<1>4. r \in Row /\ r.path = c.file.path /\ r.size = c.file.size
  BY <1>1, <1>2 DEF RowOf, Row, Session, File
<1>5. ASSUME r.path \notin torn
      PROVE  disk[r.path] = r.size
  <2>1. disk[r.path] + 0 \in {r.size, r.size + SizeMod}
    BY <1>2, <1>4, <1>5 DEF Accounted
  <2>2. r.size \in SizeT /\ disk[r.path] \in 0 .. Capacity
    BY <1>3, <1>4 DEF Row
  <2> QED
    BY <2>1, <2>2, BoardAssumption, TransferAssumption DEF SizeT
<1> QED
  BY <1>2, <1>3, <1>4, <1>5

(* db_save_file: the row that is appended describes the file that its      *)
(* session stored; when there is none, the file may go.                    *)
LEMMA SaveFileIInv ==
  ASSUME IInv, NEW d \in Desc, SaveFile(d)
  PROVE  IInv'
<1> DEFINE c == connections[d]
           p == c.file.path
           r == RowOf(c)
           s == [Cleared(c) EXCEPT !.state = "OP_WAIT"]
<1>1. /\ InState(d, "OP_UPLOAD_DESCRIPTION")
      /\ Storing(d)
      /\ ClearFile(d, "OP_WAIT")
      /\ UNCHANGED <<cwd, users, torn>>
  BY DEF SaveFile, InState, Storing, StoringStates
<1>2. PICK o \in SaveOutcome :
        /\ files' = IF o.stored THEN Append(files, r) ELSE files
        /\ IF o.returned
           THEN told' = told \cup {p} /\ UNCHANGED <<disk, free>>
           ELSE Unlink(p, 0) /\ UNCHANGED told
  BY DEF SaveFile
<1>3. /\ r \in Row
      /\ r.path = p
      /\ p \in Path
      /\ p \notin Published
      /\ disk[p] \in 0 .. Capacity
      /\ p \notin torn => disk[p] = r.size
  BY <1>1, RowOfSession
<1>4. told' \subseteq Path /\ disk[p] # Absent
  BY <1>2, <1>3 DEF IInv, TypeOK, Absent
<1>5. CASE ~o.stored
  <2>1. UNCHANGED files
    BY <1>2, <1>5
  <2>2. CASE o.returned \/ cwd # "work"
    <3>1. disk' = [disk EXCEPT ![p] = disk[p]] /\ free' \in Nat
      BY <1>2, <1>3, <1>4, <2>2 DEF Unlink, IInv, TypeOK
    <3> QED
      BY <1>1, <1>3, <1>4, <2>1, <3>1, StopStoring
  <2>3. CASE ~o.returned /\ cwd = "work"
    <3>1. disk' = [disk EXCEPT ![p] = Absent] /\ free' \in Nat
      BY <1>2, <1>3, <1>4, <2>3 DEF Unlink, IInv, TypeOK
    <3> QED
      BY <1>1, <1>3, <1>4, <2>1, <3>1, StopStoring
  <2> QED
    BY <2>2, <2>3
<1>6. CASE o.stored
  <2>1. files' = Append(files, r) /\ o.returned
    BY <1>2, <1>6 DEF SaveOutcome
  <2>2. disk' = disk /\ free' = free
    BY <1>2, <2>1
  <2>3. /\ files \in Seq(Row)
        /\ files' \in Seq(Row)
        /\ Len(files') = Len(files) + 1
        /\ files'[Len(files) + 1] = r
        /\ \A i \in 1 .. Len(files) : files'[i] = files[i]
    BY <1>3, <2>1 DEF IInv, TypeOK
  <2>4. \A i \in 1 .. Len(files') :
          i \in 1 .. Len(files) \/ (i = Len(files) + 1 /\ files'[i] = r)
    BY <2>3
  <2>5. Published' = Published \cup {p}
    <3>1. ASSUME NEW i \in 1 .. Len(files)
          PROVE  i \in 1 .. Len(files') /\ files'[i].path = files[i].path
      BY <2>3
    <3>2. Len(files) + 1 \in 1 .. Len(files')
      BY <2>3
    <3> QED
      BY <1>3, <2>3, <2>4, <3>1, <3>2 DEF Published
  <2>6. c \in Session
    BY DEF IInv, TypeOK
  <2>7. s \in Session /\ s.state = "OP_WAIT" /\ s.file = NullFile
    BY <2>6, ClearedSession, NoFileStates DEF Session
  <2>8. \A e \in Desc : connections'[e] = IF e = d THEN s ELSE connections[e]
    BY <1>1 DEF ClearFile, Become, IInv, TypeOK
  <2> HIDE DEF s
  <2>9. TypeOK'
    <3>1. connections' \in [Desc -> Session]
      BY <1>1, <2>7, <2>8 DEF ClearFile, Become, IInv, TypeOK
    <3>2. open' \subseteq Desc
      BY <1>1 DEF ClearFile, IInv, TypeOK
    <3> QED
      BY <1>1, <1>4, <2>2, <2>3, <3>1, <3>2 DEF IInv, TypeOK
  <2>10. ASSUME NEW e \in Desc
         PROVE  SessionInv(connections[e])'
    <3>1. CASE e = d
      BY <2>7, <2>8, <3>1
         DEF SessionInv, FileStates, TransferStates, StoringStates,
             DownloadStates
    <3>2. CASE e # d
      <4>1. Storing(e) => connections[e].file.path # p
        BY <1>1, <3>2 DEF IInv, StoresApart
      <4> QED
        BY <1>1, <1>3, <2>2, <2>5, <2>8, <3>2, <4>1, OtherSession
    <3> QED
      BY <3>1, <3>2
  <2>11. \A e, f \in Desc : StoresApart(e, f)'
    BY <2>7, <2>8 DEF IInv, StoresApart, Storing, StoringStates
  <2>12. \A i \in 1 .. Len(files) : files[i].path # p
    BY <1>3 DEF Published
  <2>13. \A i \in 1 .. Len(files') : disk'[files'[i].path] # Absent
    BY <1>3, <1>4, <2>2, <2>3, <2>4 DEF IInv
  <2>14. \A i, j \in 1 .. Len(files') : files'[i].path = files'[j].path => i = j
    BY <1>3, <2>3, <2>4, <2>12 DEF IInv
  <2>15. RowsIntact'
    BY <1>1, <1>3, <2>2, <2>3, <2>4 DEF IInv, RowsIntact
  <2> QED
    BY <2>9, <2>10, <2>11, <2>13, <2>14, <2>15 DEF IInv
<1> QED
  BY <1>5, <1>6

-----------------------------------------------------------------------------
(* The whole server                                                        *)

(* The process starts again: no session is left, files and rows are.       *)
LEMMA RestartIInv ==
  ASSUME IInv, Restart
  PROVE  IInv'
<1>1. connections' = [d \in Desc |-> NullSession]
  BY DEF Restart
<1>2. TypeOK'
  BY <1>1, NullSessionType DEF Restart, IInv, TypeOK
<1>3. \A d \in Desc : SessionInv(connections[d])'
  BY <1>1, NullSessionType
     DEF SessionInv, FileStates, StoringStates, DownloadStates,
         TransferStates
<1>4. \A d, e \in Desc : StoresApart(d, e)'
  BY <1>1, NullSessionType DEF StoresApart, Storing, StoringStates
<1> QED
  BY <1>2, <1>3, <1>4 DEF Restart, IInv, RowsIntact

(* No handler breaks the invariant, in whatever order the handlers run. *)
LEMMA NextIInv ==
  IInv /\ [Next]_vars => IInv'
<1> SUFFICES ASSUME IInv, [Next]_vars
             PROVE  IInv'
  OBVIOUS
<1>1. ASSUME NEW d \in Desc, UploadCommand(d)
      PROVE  IInv'
  <2>1. CASE \E p \in Path, size \in Size, fd \in Desc :
               UploadAccepted(d, p, size, fd)
    BY <2>1, UploadAcceptedIInv
  <2>2. CASE \/ PrepareWithoutName(d)
             \/ UploadRefused(d)
             \/ UploadDirectoryFails(d)
             \/ UploadOpenFails(d)
    BY <2>2, UploadRefusalIInv
  <2> QED
    BY <1>1, <2>1, <2>2 DEF UploadCommand
<1>2. CASE UNCHANGED vars
  BY <1>2 DEF vars, IInv, TypeOK, SessionInv, StoresApart, Storing,
              Accounted, Published, RowsIntact
<1> QED
  BY <1>1, <1>2, AcceptIInv, CloseIInv, LoginIInv, UploadTransferIInv,
     SaveFileIInv, DownloadCommandIInv, DownloadTransferIInv, RestartIInv
     DEF Next

(* The invariant the other theorems follow from. *)
THEOREM Invariance ==
  Spec => []IInv
BY InitIInv, NextIInv, PTL DEF Spec

(* Type correctness: the counters stay in size_t, no file outgrows the     *)
(* file system and free never goes below zero, although file_upload        *)
(* subtracts from unsigned counters without looking at what is left.       *)
THEOREM TypeCorrect ==
  Spec => []TypeOK
<1>1. IInv => TypeOK
  BY DEF IInv
<1> QED
  BY <1>1, Invariance, PTL

(* No handler works on a file it does not have: sess->file is never NULL   *)
(* and fd never -1 in a state whose handlers use them.                     *)
THEOREM FileOfEveryTransfer ==
  Spec => []TransferHasFile
<1>1. IInv => TransferHasFile
  <2> SUFFICES ASSUME IInv, NEW d \in Desc,
                      connections[d].state \in FileStates
               PROVE  /\ connections[d].file # NullFile
                      /\ connections[d].fd # NoFd
    BY DEF TransferHasFile
  <2>1. connections[d].file.path \in Path /\ connections[d].fd \in Desc
    BY DEF IInv, SessionInv
  <2> QED
    BY <2>1, BoardAssumption DEF NullFile
<1> QED
  BY <1>1, Invariance, PTL

(* A path is stored by one session or published by one row, and never both *)
(* or twice: this is what makes it safe to unlink after a failed upload.   *)
THEOREM OwnerOfEveryPath ==
  Spec => []PathsOwned
<1>1. IInv => PathsOwned
  BY DEF IInv, PathsOwned, SessionInv, StoresApart, Storing
<1> QED
  BY <1>1, Invariance, PTL

(* A row gives the number of bytes its file has, unless a write was short. *)
THEOREM SizeOfEveryRow ==
  Spec => []RowsIntact
<1>1. IInv => RowsIntact
  BY DEF IInv
<1> QED
  BY <1>1, Invariance, PTL

-----------------------------------------------------------------------------
(* The board implements the store                                          *)

(* Nothing that is published changes. *)
Kept ==
  /\ files' = files
  /\ \A p \in Published : disk'[p] = disk[p]

(* Rows name paths of the storage folder. *)
LEMMA PublishedInPath ==
  ASSUME IInv
  PROVE  Published \subseteq Path
<1>1. files \in Seq(Row)
  BY DEF IInv, TypeOK
<1>2. ASSUME NEW i \in 1 .. Len(files)
      PROVE  files[i].path \in Path
  <2>1. files[i] \in Row
    BY <1>1
  <2> QED
    BY <2>1 DEF Row
<1> QED
  BY <1>2 DEF Published

(* A path where there is no file is not published. *)
LEMMA AbsentUnpublished ==
  ASSUME IInv, NEW p \in Path, disk[p] = Absent
  PROVE  p \notin Published
BY DEF IInv, Published

(* unlink, and a write to the file being stored, spare what is published. *)
LEMMA UnlinkKeeps ==
  ASSUME IInv, NEW d \in Desc, Storing(d), NEW written,
         Unlink(connections[d].file.path, written),
         files' = files
  PROVE  Kept
<1> DEFINE p == connections[d].file.path
<1>1. p \notin Published
  BY DEF IInv, SessionInv, Storing
<1>2. Published \subseteq Path
  BY PublishedInPath
<1>3. \A q \in Path \ {p} : disk'[q] = disk[q]
  BY DEF Unlink, IInv, TypeOK
<1> HIDE DEF p
<1> QED
  BY <1>1, <1>2, <1>3 DEF Kept

(* Every call of file_upload leaves what is published as it is. *)
LEMMA UploadTransferKeeps ==
  ASSUME IInv, NEW d \in Desc, UploadTransfer(d)
  PROVE  Kept
<1>1. CASE InState(d, "OP_UPLOAD")
  <2>1. Storing(d)
    BY <1>1 DEF InState, Storing, StoringStates
  <2>2. ASSUME NEW written, AbortUpload(d, written)
        PROVE  Kept
    BY <2>1, <2>2, UnlinkKeeps DEF AbortUpload
  <2>3. ASSUME NEW rlen \in {-1} \cup 1 .. INBUFSIZE, NEW sig \in Signal,
               NEW ps \in PackageSize,
               \/ UploadCancelled(d, rlen, sig, ps)
               \/ UploadWriteFails(d, rlen, sig, ps)
        PROVE  Kept
    BY <2>2, <2>3 DEF UploadCancelled, UploadWriteFails
  <2>4. ASSUME NEW rlen \in {-1} \cup 1 .. INBUFSIZE, NEW sig \in Signal,
               NEW ps \in PackageSize, UploadReceives(d, rlen, sig, ps)
        PROVE  Kept
    <3> DEFINE p == connections[d].file.path
    <3>1. p \notin Published /\ Published \subseteq Path
      BY <2>1, PublishedInPath DEF IInv, SessionInv, Storing
    <3>2. \A q \in Path \ {p} : disk'[q] = disk[q]
      BY <2>4 DEF UploadReceives, IInv, TypeOK
    <3>3. files' = files
      BY <2>4 DEF UploadReceives
    <3> HIDE DEF p
    <3> QED
      BY <3>1, <3>2, <3>3 DEF Kept
  <2>5. CASE UploadEof(d)
    BY <2>2, <2>5 DEF UploadEof
  <2>6. CASE UploadEofOfEmptyFile(d)
    BY <2>6 DEF UploadEofOfEmptyFile, Kept
  <2> QED
    BY <2>3, <2>4, <2>5, <2>6 DEF UploadTransfer
<1>2. ASSUME NEW rlen \in {-1} \cup 1 .. INBUFSIZE, NEW sig \in Signal,
             NEW ps \in PackageSize,
             \/ UploadReceives(d, rlen, sig, ps)
             \/ UploadCancelled(d, rlen, sig, ps)
             \/ UploadWriteFails(d, rlen, sig, ps)
      PROVE  InState(d, "OP_UPLOAD")
  BY <1>2 DEF UploadReceives, UploadCancelled, UploadWriteFails
<1>3. UploadEof(d) \/ UploadEofOfEmptyFile(d) => InState(d, "OP_UPLOAD")
  BY DEF UploadEof, UploadEofOfEmptyFile
<1> QED
  BY <1>1, <1>2, <1>3 DEF UploadTransfer

(* file_receive_prepare creates a file that was not there (O_EXCL). *)
LEMMA UploadCommandKeeps ==
  ASSUME IInv, NEW d \in Desc, UploadCommand(d)
  PROVE  Kept
<1>1. ASSUME NEW p \in Path, NEW size \in Size, NEW fd \in Desc,
             UploadAccepted(d, p, size, fd)
      PROVE  Kept
  <2>1. p \notin Published /\ Published \subseteq Path
    BY <1>1, AbsentUnpublished, PublishedInPath DEF UploadAccepted
  <2>2. files' = files /\ \A q \in Path \ {p} : disk'[q] = disk[q]
    BY <1>1 DEF UploadAccepted, IInv, TypeOK
  <2> QED
    BY <2>1, <2>2 DEF Kept
<1>2. CASE \/ PrepareWithoutName(d)
           \/ UploadRefused(d)
           \/ UploadDirectoryFails(d)
           \/ UploadOpenFails(d)
  BY <1>2 DEF PrepareWithoutName, UploadRefused, UploadDirectoryFails,
              UploadOpenFails, Kept
<1> QED
  BY <1>1, <1>2 DEF UploadCommand

(* db_save_file adds a row at most, and with its row the file stays. *)
LEMMA SaveFileKeepsOrAppends ==
  ASSUME IInv, NEW d \in Desc, SaveFile(d)
  PROVE  Kept \/ (disk' = disk /\ \E r \in Row : files' = Append(files, r))
<1> DEFINE r == RowOf(connections[d])
<1>1. InState(d, "OP_UPLOAD_DESCRIPTION") /\ Storing(d)
  BY DEF SaveFile, InState, Storing, StoringStates
<1>2. r \in Row
  BY <1>1, RowOfSession
<1>3. PICK o \in SaveOutcome :
        /\ files' = IF o.stored THEN Append(files, r) ELSE files
        /\ IF o.returned
           THEN UNCHANGED <<disk, free>>
           ELSE Unlink(connections[d].file.path, 0)
  BY DEF SaveFile
<1>4. CASE o.stored
  BY <1>2, <1>3, <1>4 DEF SaveOutcome
<1>5. CASE ~o.stored
  BY <1>1, <1>3, <1>5, UnlinkKeeps DEF Kept
<1> QED
  BY <1>4, <1>5

(* What any step of the server may do to what is published. *)
LEMMA StepKeepsOrAppends ==
  ASSUME IInv, [Next]_vars
  PROVE  Kept \/ (disk' = disk /\ \E r \in Row : files' = Append(files, r))
<1>1. ASSUME NEW d \in Desc, Accept(d) \/ Close(d) \/ LoginStep(d)
      PROVE  Kept
  BY <1>1 DEF Accept, Close, LoginStep, Register, EnterName, EnterAnonymous,
              LogIn, LogInFails, Kept
<1>2. ASSUME NEW d \in Desc, DownloadCommand(d)
      PROVE  Kept
  BY <1>2 DEF DownloadCommand, DownloadNotFound, DownloadOpenFails,
              DownloadDamaged, DownloadAccepted, Kept
<1>3. ASSUME NEW d \in Desc, DownloadTransfer(d)
      PROVE  Kept
  BY <1>3 DEF DownloadTransfer, DownloadPauses, DownloadEof,
              DownloadWriteFails, DownloadSends, ConfirmContinue,
              ConfirmCancel, Kept
<1>4. CASE Restart \/ UNCHANGED vars
  BY <1>4 DEF Restart, vars, Kept
<1> QED
  BY <1>1, <1>2, <1>3, <1>4, UploadCommandKeeps, UploadTransferKeeps,
     SaveFileKeepsOrAppends DEF Next

(* The store the tables and the folder make up is a store. *)
LEMMA PublishedStoreType ==
  IInv => /\ PublishedStore \in Seq(AbstractStore!Entry)
          /\ Len(PublishedStore) = Len(files)
<1> SUFFICES ASSUME IInv
             PROVE  /\ PublishedStore \in Seq(AbstractStore!Entry)
                    /\ Len(PublishedStore) = Len(files)
  OBVIOUS
<1>1. files \in Seq(Row) /\ Len(files) \in Nat
  BY DEF IInv, TypeOK
<1>2. ASSUME NEW i \in 1 .. Len(files)
      PROVE  [uid |-> files[i].uid, bytes |-> disk[files[i].path]]
               \in AbstractStore!Entry
  <2>1. files[i].uid \in Int /\ files[i].path \in Path
    <3>1. files[i] \in Row
      BY <1>1
    <3> QED
      BY <3>1 DEF Row
  <2>2. disk[files[i].path] \in Nat
    BY <2>1, BoardAssumption DEF IInv, TypeOK
  <2> QED
    BY <2>1, <2>2 DEF AbstractStore!Entry
<1>3. PublishedStore \in [1 .. Len(files) -> AbstractStore!Entry]
  BY <1>2 DEF PublishedStore
<1> QED
  BY <1>1, <1>3

(* A step of the server is a publication or leaves the store as it is. *)
LEMMA StoreStep ==
  ASSUME IInv, IInv', [Next]_vars
  PROVE  [AbstractStore!Next]_PublishedStore
<1>1. CASE Kept
  <2>1. \A i \in 1 .. Len(files) : files[i].path \in Published
    BY DEF Published
  <2> QED
    BY <1>1, <2>1 DEF Kept, PublishedStore
<1>2. CASE disk' = disk /\ \E r \in Row : files' = Append(files, r)
  <2>1. /\ Len(files) \in Nat
        /\ Len(files') = Len(files) + 1
        /\ \A i \in 1 .. Len(files) :
             i \in 1 .. Len(files') /\ files'[i] = files[i]
    BY <1>2 DEF IInv, TypeOK
  <2>2. \A i \in 1 .. Len(files) : PublishedStore'[i] = PublishedStore[i]
    BY <1>2, <2>1 DEF PublishedStore
  <2>3. /\ PublishedStore' \in Seq(AbstractStore!Entry)
        /\ Len(PublishedStore') = Len(files')
    <3>1. (IInv => /\ PublishedStore \in Seq(AbstractStore!Entry)
                   /\ Len(PublishedStore) = Len(files))'
      BY PublishedStoreType, PTL
    <3> QED
      BY <3>1
  <2> QED
    BY <2>1, <2>2, <2>3, PublishedStoreType
       DEF AbstractStore!Next, AbstractStore!Publish
<1> QED
  BY <1>1, <1>2, StepKeepsOrAppends

(* The board implements the store: whatever is aborted, closed, refused,   *)
(* short of space or restarted, a published file keeps its owner and its   *)
(* bytes, and new files come after the old ones.                           *)
THEOREM Refinement ==
  Spec => ImplementsStore
<1>1. Init => AbstractStore!Init
  BY DEF Init, AbstractStore!Init, PublishedStore
<1> QED
  BY <1>1, StoreStep, NextIInv, Invariance, PTL
     DEF Spec, ImplementsStore, AbstractStore!Spec
=============================================================================
