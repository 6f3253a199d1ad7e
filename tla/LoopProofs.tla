------------------------------ MODULE LoopProofs ------------------------------
(***************************************************************************)
(* The theorems about ServerLoop, for any number of descriptors, sizes and *)
(* clients.                                                                *)
(*                                                                         *)
(* LinesDoNotWait follows from ReadyHasInput: during a pass, whatever was  *)
(* found ready and is a socket still to be visited has input.  Only the    *)
(* session itself takes its input, and a descriptor that pselect saw is    *)
(* not given to a new connection before the next pselect: accept() comes   *)
(* first, when everything found ready is still open (ReadyOpen), which     *)
(* needs that no handler closes what is not its own (FilesOwned).  The     *)
(* types need BacklogWaits.                                                *)
(***************************************************************************)
EXTENDS ServerLoop, WellFoundedInduction, TLAPS

SocketsOpen == Connected \subseteq open

FilesOwned ==
  \A d \in Desc :
    connections[d].fd # NoFd =>
      /\ connections[d].fd \in open \ Connected
      /\ \A e \in Desc : connections[e].fd = connections[d].fd => e = d

ReadyOpen == pc = "accept" => readfds \subseteq open

ReadyHasInput ==
  \A i \in readfds \cap Connected :
    pc = "accept" \/ (pc = "pass" /\ next <= i) => HasInput(i)

(* The connection that pselect has announced waits until it is accepted. *)
BacklogWaits == pc = "accept" /\ listening => backlog > 0

Owned == SocketsOpen /\ FilesOwned

LoopInv == TypeOK /\ Owned /\ ReadyOpen /\ ReadyHasInput /\ BacklogWaits

-----------------------------------------------------------------------------
LEMMA DescIsNat ==
  Desc \subseteq Nat /\ NoFd \notin Desc
BY ServerLoopAssumption DEF Desc, NoFd

(* The lowest free descriptor is a free descriptor. *)
LEMMA LowestIsFree ==
  ASSUME TypeOK, open # Desc
  PROVE  Lowest \in Desc \ open /\ Lowest # NoFd
<1> DEFINE S == Desc \ open
<1>1. S \subseteq Nat /\ S # {} /\ NoFd \notin S
  <2>1. open \subseteq Desc
    BY DEF TypeOK
  <2>2. S # {}
    BY <2>1
  <2> QED
    BY <2>2, DescIsNat
<1> HIDE DEF S
<1>2. PICK x \in S : \A y \in S : ~ (<<y, x>> \in OpToRel(<, Nat))
  BY <1>1, NatLessThanWellFounded, WFMin, Zenon
<1>3. \A y \in S : ~ (y < x)
  BY <1>1, <1>2, Zenon DEF OpToRel
<1>4. \A y \in S : x <= y
  BY <1>1, <1>3
<1>5. Min(S) \in S
  BY <1>4 DEF Min
<1> QED
  BY <1>1, <1>5 DEF S, Lowest

(* Everything of ServerLoop's state that is about one session. *)
LEMMA SessionTypes ==
  ASSUME TypeOK, NEW i \in Desc
  PROVE  /\ connections[i] \in Session
         /\ connections[i].state \in State
         /\ connections[i].fd \in Desc \cup {NoFd}
         /\ connections[i].rest \in Nat
         /\ connections[i].finds \in Finds
BY DEF TypeOK, Session

-----------------------------------------------------------------------------
(* What one session does to the descriptors                                *)

(* It becomes s: with the same descriptor, with none (its own is closed),  *)
(* or with a new one; or it leaves.                                        *)
Effect(i, s) ==
  \/ /\ s.state # "NULL"
     /\ s.fd = connections[i].fd
     /\ open \subseteq open'
  \/ /\ s.state # "NULL"
     /\ s.fd = NoFd
     /\ open' = open \ {connections[i].fd}
  \/ /\ s.state # "NULL"
     /\ s.fd \in Desc \ open
     /\ open' = open \cup {s.fd}
  \/ /\ s.state = "NULL"
     /\ s.fd = NoFd
     /\ \/ open' = open \ {i, connections[i].fd}
        \/ open' = open \ {i}

LEMMA EffectOwned ==
  ASSUME Owned, NEW i \in Connected, NEW s,
         connections' = [connections EXCEPT ![i] = s],
         connections \in [Desc -> Session],
         Effect(i, s)
  PROVE  Owned'
<1>1. \A e \in Desc :
        connections'[e] = IF e = i THEN s ELSE connections[e]
  OBVIOUS
<1>2. i \in Desc /\ Connected \subseteq Desc /\ NoFd \notin Desc
  BY DescIsNat DEF Connected
<1>3. connections[i].fd \notin Connected
  BY <1>2 DEF Owned, FilesOwned
<1>4. CASE s.state # "NULL" /\ s.fd = connections[i].fd /\ open \subseteq open'
  <2>1. Connected' = Connected
    BY <1>1, <1>2, <1>4 DEF Connected
  <2>2. \A e \in Desc : connections'[e].fd = connections[e].fd
    BY <1>1, <1>4
  <2> QED
    BY <1>4, <2>1, <2>2 DEF Owned, SocketsOpen, FilesOwned
<1>5. CASE /\ s.state # "NULL"
           /\ s.fd = NoFd
           /\ open' = open \ {connections[i].fd}
  <2>1. Connected' = Connected
    BY <1>1, <1>2, <1>5 DEF Connected
  <2> QED
    BY <1>1, <1>2, <1>3, <1>5, <2>1 DEF Owned, SocketsOpen, FilesOwned
<1>6. CASE /\ s.state # "NULL"
           /\ s.fd \in Desc \ open
           /\ open' = open \cup {s.fd}
  <2>1. Connected' = Connected
    BY <1>1, <1>2, <1>6 DEF Connected
  <2>2. s.fd \notin Connected /\ \A e \in Desc : connections[e].fd # s.fd
    BY <1>2, <1>6 DEF Owned, SocketsOpen, FilesOwned
  <2> QED
    BY <1>1, <1>2, <1>6, <2>1, <2>2 DEF Owned, SocketsOpen, FilesOwned
<1>7. CASE /\ s.state = "NULL"
           /\ s.fd = NoFd
           /\ \/ open' = open \ {i, connections[i].fd}
              \/ open' = open \ {i}
  <2>1. Connected' = Connected \ {i}
    BY <1>1, <1>2, <1>7 DEF Connected
  <2>2. \A e \in Desc : connections[e].fd # NoFd => connections[e].fd # i
    BY DEF Owned, FilesOwned
  <2> QED
    BY <1>1, <1>2, <1>3, <1>7, <2>1, <2>2 DEF Owned, SocketsOpen, FilesOwned
<1> QED
  BY <1>4, <1>5, <1>6, <1>7 DEF Effect

-----------------------------------------------------------------------------
(* A visit of the pass: what the service of session i may change.          *)
Visited(i) ==
  /\ \E s \in Session :
       /\ connections' = [connections EXCEPT ![i] = s]
       /\ Effect(i, s)
       /\ s.state = "NULL" => i \notin gone' /\ i \notin full'
  /\ open' \subseteq Desc
  /\ Advance
  /\ UNCHANGED <<readfds, listening, backlog, signal>>
  /\ pending' \in [Desc -> 0 .. MaxPending]
  /\ \A e \in Desc \ {i} : pending'[e] = pending[e]
  /\ gone' \subseteq gone /\ gone \ {i} \subseteq gone'
  /\ full' \subseteq full \cup {i}

LEMMA AdvanceType ==
  ASSUME next \in Desc, Advance
  PROVE  /\ next' \in Desc
         /\ pc' \in {"pselect", "pass"}
         /\ pc' = "pass" => \A e \in Desc : next' <= e => next <= e /\ e # next
BY ServerLoopAssumption DEF Advance, Desc

LEMMA VisitedInv ==
  ASSUME LoopInv, NEW i \in Connected, pc = "pass", next = i, Visited(i)
  PROVE  LoopInv'
<1>1. PICK s \in Session :
        /\ connections' = [connections EXCEPT ![i] = s]
        /\ Effect(i, s)
        /\ s.state = "NULL" => i \notin gone' /\ i \notin full'
  BY DEF Visited
<1>2. connections \in [Desc -> Session] /\ i \in Desc /\ next \in Desc
  BY DEF LoopInv, TypeOK, Connected
<1>3. \A e \in Desc :
        connections'[e] = IF e = i THEN s ELSE connections[e]
  BY <1>1, <1>2
<1>4. Connected' = IF s.state = "NULL" THEN Connected \ {i} ELSE Connected
  BY <1>2, <1>3 DEF Connected
<1>5. /\ next' \in Desc
      /\ pc' \in {"pselect", "pass"}
      /\ pc' = "pass" => \A e \in Desc : next' <= e => next <= e /\ e # next
  BY <1>2, AdvanceType DEF Visited
<1>6. TypeOK'
  <2>1. connections' \in [Desc -> Session]
    BY <1>1, <1>2
  <2>2. gone' \subseteq Connected' /\ full' \subseteq Connected'
    BY <1>1, <1>4 DEF Visited, LoopInv, TypeOK
  <2>3. /\ open' \subseteq Desc
        /\ readfds' \subseteq Desc
        /\ listening' \in BOOLEAN
        /\ backlog' \in 0 .. MaxBacklog
        /\ pending' \in [Desc -> 0 .. MaxPending]
        /\ signal' \in BOOLEAN
    BY DEF Visited, LoopInv, TypeOK
  <2> QED
    BY <1>5, <2>1, <2>2, <2>3 DEF TypeOK
<1>7. Owned'
  BY <1>1, <1>2, EffectOwned DEF LoopInv
<1>8. ReadyOpen' /\ BacklogWaits'
  BY <1>5 DEF ReadyOpen, BacklogWaits
<1>9. ReadyHasInput'
  <2> SUFFICES ASSUME NEW e \in readfds' \cap Connected',
                      pc' = "pass", next' <= e
               PROVE  HasInput(e)'
    BY <1>5 DEF ReadyHasInput
  <2>1. e \in readfds /\ e \in Connected /\ e \in Desc
    BY <1>4 DEF Visited, Connected
  <2>2. next <= e /\ e # i
    BY <1>5, <2>1
  <2>3. HasInput(e)
    BY <2>1, <2>2 DEF LoopInv, ReadyHasInput
  <2> QED
    BY <2>1, <2>2, <2>3 DEF HasInput, Visited
<1> QED
  BY <1>6, <1>7, <1>8, <1>9 DEF LoopInv

-----------------------------------------------------------------------------
(* The handlers                                                            *)

(* What Become leaves to say of a visit. *)
Quiet(i) ==
  /\ pending' \in [Desc -> 0 .. MaxPending]
  /\ \A e \in Desc \ {i} : pending'[e] = pending[e]
  /\ gone' = gone
  /\ full' \subseteq full \cup {i}

LEMMA TakesInput ==
  ASSUME TypeOK, NEW i \in Desc, pending[i] > 0,
         pending' = [pending EXCEPT ![i] = @ - 1]
  PROVE  /\ pending' \in [Desc -> 0 .. MaxPending]
         /\ \A e \in Desc \ {i} : pending'[e] = pending[e]
<1>1. pending \in [Desc -> 0 .. MaxPending] /\ MaxPending \in Nat
  BY ServerLoopAssumption DEF TypeOK
<1>2. pending[i] - 1 \in 0 .. MaxPending
  BY <1>1
<1> QED
  BY <1>1, <1>2

(* A session that keeps its descriptor. *)
LEMMA KeepsVisits ==
  ASSUME TypeOK, NEW i \in Connected, Quiet(i),
         NEW s \in Session, s.state # "NULL", s.fd = connections[i].fd,
         Become(i, s, {})
  PROVE  Visited(i)
<1>1. /\ connections' = [connections EXCEPT ![i] = s]
      /\ open' = open
      /\ Advance
      /\ UNCHANGED <<readfds, listening, backlog, signal>>
  BY DEF Become
<1>2. Effect(i, s)
  BY <1>1 DEF Effect
<1> QED
  BY <1>1, <1>2 DEF Visited, Quiet, TypeOK

LEMMA FoundIsFinds ==
  \A st, rest : Found(st, rest) \subseteq Finds
BY DEF Found, Finds

LEMMA ProceedsVisits ==
  ASSUME TypeOK, NEW i \in Connected, NEW st \in State \ {"NULL"},
         NEW rest \in Nat, Proceeds(i, st, rest), Quiet(i)
  PROVE  Visited(i)
<1>1. i \in Desc
  BY DEF Connected
<1>2. PICK f \in Found(st, rest) :
        Become(i, [connections[i] EXCEPT !.state = st, !.rest = rest,
                                         !.finds = f], {})
  BY DEF Proceeds
<1> DEFINE s == [connections[i] EXCEPT !.state = st, !.rest = rest,
                                       !.finds = f]
<1>3. f \in Finds
  BY <1>2, FoundIsFinds
<1>4. s \in Session /\ s.state = st /\ s.fd = connections[i].fd
  BY <1>1, <1>3, SessionTypes DEF Session
<1>5. Become(i, s, {})
  BY <1>2
<1> HIDE DEF s
<1> QED
  BY <1>4, <1>5, KeepsVisits

LEMMA GoesVisits ==
  ASSUME TypeOK, NEW i \in Connected, NEW st \in State \ {"NULL"},
         Goes(i, st), Quiet(i)
  PROVE  Visited(i)
<1>1. connections[i].rest \in Nat
  BY SessionTypes DEF Connected
<1> QED
  BY <1>1, ProceedsVisits DEF Goes

LEMMA NullInSession ==
  /\ NullSession \in Session
  /\ NullSession.state = "NULL"
  /\ NullSession.fd = NoFd
  /\ \A st \in State :
       LET s == [NullSession EXCEPT !.state = st]
       IN  s \in Session /\ s.state = st /\ s.fd = NoFd
BY DEF NullSession, Session, State, Finds

LEMMA ClearedVisits ==
  ASSUME TypeOK, NEW i \in Connected, NEW st \in State \ {"NULL"},
         Cleared(i, st), Quiet(i)
  PROVE  Visited(i)
<1> DEFINE s == [NullSession EXCEPT !.state = st]
<1>1. s \in Session /\ s.state = st /\ s.fd = NoFd
  BY NullInSession
<1>2. /\ connections' = [connections EXCEPT ![i] = s]
      /\ open' = open \ {connections[i].fd}
      /\ Advance
      /\ UNCHANGED <<readfds, listening, backlog, signal>>
  BY DEF Cleared, Become
<1> HIDE DEF s
<1>3. Effect(i, s)
  BY <1>1, <1>2 DEF Effect
<1> QED
  BY <1>1, <1>2, <1>3 DEF Visited, Quiet, TypeOK

LEMMA TransferVisits ==
  ASSUME TypeOK, NEW i \in Connected, NEW st \in State \ {"NULL"},
         NEW size \in Size, Transfer(i, st, size), Quiet(i)
  PROVE  Visited(i)
<1>1. Lowest \in Desc \ open
  BY LowestIsFree DEF Transfer
<1>2. PICK f \in Found(st, size) :
        connections' =
          [connections EXCEPT
             ![i] = [state |-> st, fd |-> Lowest, rest |-> size,
                     finds |-> f]]
  BY DEF Transfer
<1> DEFINE s == [state |-> st, fd |-> Lowest, rest |-> size, finds |-> f]
<1>3. s \in Session /\ s.state = st /\ s.fd = Lowest
  BY <1>2, <1>1, FoundIsFinds, ServerLoopAssumption DEF Session
<1>4. /\ connections' = [connections EXCEPT ![i] = s]
      /\ open' = open \cup {Lowest}
      /\ Advance
      /\ UNCHANGED <<readfds, listening, backlog, signal>>
  BY <1>2 DEF Transfer
<1> HIDE DEF s
<1>5. Effect(i, s)
  BY <1>1, <1>3, <1>4 DEF Effect
<1> QED
  BY <1>1, <1>3, <1>4, <1>5 DEF Visited, Quiet, TypeOK

(* The states a handler may leave. *)
LEMMA States ==
  /\ LineStates \cup {"OP_UPLOAD", "OP_DOWNLOAD"} \subseteq State \ {"NULL"}
  /\ LineStates = {"command", "OP_UPLOAD_DESCRIPTION",
                   "OP_DOWNLOAD_WAIT_CONFIRM_PACKAGE", "ERR"}
BY DEF State, LineStates

LEMMA CommandVisits ==
  ASSUME TypeOK, NEW i \in Connected, Command(i), Quiet(i)
  PROVE  Visited(i)
<1> DEFINE c == connections[i]
<1>1. i \in Desc /\ c \in Session
  BY SessionTypes DEF Connected
<1>2. CASE Goes(i, "command")
  BY <1>2, States, GoesVisits
<1>3. CASE Cleared(i, "command")
  BY <1>3, States, ClearedVisits
<1>4. CASE /\ open # Desc
           /\ open' = open \cup {Lowest}
           /\ Advance
           /\ UNCHANGED <<connections, readfds, listening, backlog, signal>>
  <2>1. Lowest \in Desc
    BY <1>4, LowestIsFree
  <2>2. connections' = [connections EXCEPT ![i] = c]
    BY <1>4 DEF TypeOK
  <2>3. c.state # "NULL"
    BY DEF Connected
  <2>4. Effect(i, c)
    BY <1>4, <2>3 DEF Effect
  <2> QED
    BY <1>1, <1>4, <2>1, <2>2, <2>3, <2>4 DEF Visited, Quiet, TypeOK
<1>5. ASSUME NEW size \in Size,
             Transfer(i, "OP_UPLOAD", size) \/ Transfer(i, "OP_DOWNLOAD", size)
      PROVE  Visited(i)
  BY <1>5, States, TransferVisits
<1> QED
  BY <1>2, <1>3, <1>4, <1>5 DEF Command

(* close_session *)
LEMMA CloseVisits ==
  ASSUME TypeOK, Owned, NEW i \in Connected, Close(i)
  PROVE  Visited(i)
<1> DEFINE c == connections[i]
<1>1. i \in Desc /\ 0 \in 0 .. MaxPending
  BY ServerLoopAssumption DEF Connected
<1>2. PICK lost \in {{}, IF InState(i, "command") THEN {c.fd} ELSE {}} :
        Become(i, NullSession, {i, c.fd} \ lost)
  BY DEF Close
<1>3. /\ NullSession \in Session
      /\ NullSession.state = "NULL"
      /\ NullSession.fd = NoFd
  BY NullInSession
<1>4. /\ connections' = [connections EXCEPT ![i] = NullSession]
      /\ Advance
      /\ UNCHANGED <<readfds, listening, backlog, signal>>
      /\ open' = open \ ({i, c.fd} \ lost)
  BY <1>2 DEF Become
<1>5. c.fd # i
  BY <1>1, DescIsNat DEF Owned, FilesOwned
<1>6. open' = open \ {i, c.fd} \/ open' = open \ {i}
  BY <1>2, <1>4, <1>5
<1>7. Effect(i, NullSession)
  BY <1>3, <1>6 DEF Effect
<1>8. /\ pending' = [pending EXCEPT ![i] = 0]
      /\ gone' = gone \ {i}
      /\ full' = full \ {i}
  BY DEF Close
<1>9. /\ pending' \in [Desc -> 0 .. MaxPending]
      /\ \A e \in Desc \ {i} : pending'[e] = pending[e]
  BY <1>1, <1>8 DEF TypeOK
<1>10. open' \subseteq Desc
  BY <1>6 DEF TypeOK
<1> QED
  BY <1>3, <1>4, <1>7, <1>8, <1>9, <1>10 DEF Visited

LEMMA DescribeConfirmVisit ==
  ASSUME TypeOK, NEW i \in Connected, Describe(i) \/ Confirm(i), Quiet(i)
  PROVE  Visited(i)
<1>1. {"command", "OP_UPLOAD_DESCRIPTION", "OP_DOWNLOAD",
       "OP_DOWNLOAD_WAIT_CONFIRM_PACKAGE"} \subseteq State \ {"NULL"}
  BY DEF State, LineStates
<1>2. ASSUME Become(i, [connections[i] EXCEPT !.state = "OP_DOWNLOAD",
                                               !.finds = "package_end"], {})
      PROVE  Visited(i)
  <2> DEFINE s == [connections[i] EXCEPT !.state = "OP_DOWNLOAD",
                                         !.finds = "package_end"]
  <2>1. /\ s \in Session
        /\ s.state = "OP_DOWNLOAD"
        /\ s.fd = connections[i].fd
    BY <1>1, SessionTypes DEF Session, Finds, Connected
  <2> QED
    BY <1>2, <2>1, KeepsVisits
<1>3. CASE Describe(i)
  BY <1>1, <1>3, GoesVisits, ClearedVisits DEF Describe
<1>4. CASE Confirm(i)
  BY <1>1, <1>2, <1>4, GoesVisits, ClearedVisits DEF Confirm
<1> QED
  BY <1>3, <1>4

(* session_do_read and perform_session_action *)
LEMMA ReadLineVisits ==
  ASSUME TypeOK, Owned, NEW i \in Connected, ReadLine(i)
  PROVE  Visited(i)
<1>1. CASE /\ pending[i] > 0
           /\ Command(i) \/ Describe(i) \/ Confirm(i)
           /\ pending' = [pending EXCEPT ![i] = @ - 1]
           /\ UNCHANGED <<gone, full>>
  <2>1. Quiet(i)
    BY <1>1, TakesInput DEF Quiet, Connected
  <2> QED
    BY <1>1, <2>1, CommandVisits, DescribeConfirmVisit
<1>2. CASE Close(i)
  BY <1>2, CloseVisits
<1> QED
  BY <1>1, <1>2 DEF ReadLine

(* file_upload *)
LEMMA UploadVisits ==
  ASSUME TypeOK, NEW i \in Connected, Upload(i)
  PROVE  Visited(i)
<1> DEFINE c == connections[i]
<1>1. i \in Desc /\ c \in Session /\ c.rest \in Nat
  BY SessionTypes DEF Connected
<1>2. Quiet(i)
  BY <1>1, TakesInput DEF Upload, Quiet, TypeOK
<1>3. {"command", "OP_UPLOAD", "OP_UPLOAD_DESCRIPTION"} \subseteq
        State \ {"NULL"}
  BY DEF State, LineStates
<1>4. ASSUME NEW rest \in 0 .. c.rest,
             NEW st \in {"OP_UPLOAD", "OP_UPLOAD_DESCRIPTION"},
             Proceeds(i, st, rest)
      PROVE  Visited(i)
  BY <1>1, <1>2, <1>3, <1>4, ProceedsVisits
<1>5. CASE Cleared(i, "command")
  BY <1>2, <1>3, <1>5, ClearedVisits
<1>6. CASE Goes(i, "command")
  BY <1>2, <1>3, <1>6, GoesVisits
<1> QED
  BY <1>4, <1>5, <1>6 DEF Upload

(* file_download *)
LEMMA DownloadVisits ==
  ASSUME TypeOK, NEW i \in Connected, Download(i)
  PROVE  Visited(i)
<1> DEFINE c == connections[i]
<1>1. i \in Desc /\ c \in Session /\ c.rest \in Nat
  BY SessionTypes DEF Connected
<1>2. Quiet(i)
  BY DEF Download, Quiet, TypeOK
<1>3. {"command", "ERR", "OP_DOWNLOAD", "OP_DOWNLOAD_WAIT_CONFIRM_PACKAGE"}
        \subseteq State \ {"NULL"}
  BY DEF State, LineStates
<1>4. ASSUME NEW st \in {"OP_DOWNLOAD", "OP_DOWNLOAD_WAIT_CONFIRM_PACKAGE"},
             c.rest > 0,
             Proceeds(i, st, c.rest - 1)
      PROVE  Visited(i)
  <2>1. c.rest - 1 \in Nat
    BY <1>1, <1>4
  <2> QED
    BY <1>2, <1>3, <1>4, <2>1, ProceedsVisits
<1>5. ASSUME NEW st \in {"command", "ERR"}, Cleared(i, st)
      PROVE  Visited(i)
  BY <1>2, <1>3, <1>5, ClearedVisits
<1>6. ASSUME NEW st \in {"command", "OP_DOWNLOAD_WAIT_CONFIRM_PACKAGE"},
             Goes(i, st)
      PROVE  Visited(i)
  BY <1>2, <1>3, <1>6, GoesVisits
<1>7. \/ \E st \in {"command", "ERR"} : Cleared(i, st)
      \/ \E st \in {"command", "OP_DOWNLOAD_WAIT_CONFIRM_PACKAGE"} : Goes(i, st)
      \/ /\ c.rest > 0
         /\ \E st \in {"OP_DOWNLOAD", "OP_DOWNLOAD_WAIT_CONFIRM_PACKAGE"} :
              Proceeds(i, st, c.rest - 1)
  <2>1. CASE c.finds = "package_end"
    BY <2>1 DEF Download
  <2>2. CASE c.finds = "end"
    BY <2>2 DEF Download
  <2>3. CASE c.finds = "block"
    BY <2>3 DEF Download
  <2> QED
    BY <2>1, <2>2, <2>3 DEF Download
<1> QED
  BY <1>4, <1>5, <1>6, <1>7

-----------------------------------------------------------------------------
(* The steps of the loop                                                   *)

(* Sessions, descriptors and their clients as they are. *)
LEMMA StaysOwned ==
  ASSUME Owned, connections' = connections, open' = open
  PROVE  Owned' /\ Connected' = Connected
BY DEF Owned, SocketsOpen, FilesOwned, Connected

LEMMA PselectInv ==
  ASSUME LoopInv, Pselect
  PROVE  LoopInv'
<1>1. Owned' /\ Connected' = Connected
  BY StaysOwned DEF Pselect, LoopInv
<1>2. FilesWaitedFor \subseteq open \ Connected
  BY DEF FilesWaitedFor, LoopInv, Owned, FilesOwned, Connected
<1>3. Connected \subseteq open /\ open \subseteq Desc
  BY DEF LoopInv, Owned, SocketsOpen, TypeOK
<1>4. Ready \subseteq open
  BY <1>2, <1>3 DEF Ready
<1>5. ReadyHasInput'
  BY <1>1, <1>2 DEF Pselect, ReadyHasInput, Ready, HasInput, clients
<1>6. TypeOK'
  BY <1>1, <1>3, <1>4 DEF Pselect, LoopInv, TypeOK, clients
<1>7. ReadyOpen' /\ BacklogWaits'
  BY <1>4 DEF Pselect, ReadyOpen, BacklogWaits, clients
<1> QED
  BY <1>1, <1>5, <1>6, <1>7 DEF LoopInv

(* accept_client: the new descriptor is none that was found ready. *)
LEMMA AcceptInv ==
  ASSUME LoopInv, Accept
  PROVE  LoopInv'
<1>1. CASE listening /\ open # Desc
  <2>1. Lowest \in Desc \ open /\ Lowest # NoFd
    BY <1>1, LowestIsFree DEF LoopInv
  <2> DEFINE new == Lowest
  <2>2. /\ connections' = [connections EXCEPT ![new] = NewSession]
        /\ open' = open \cup {new}
        /\ backlog' = backlog - 1
        /\ pc = "accept" /\ pc' = "pass" /\ next' = 1
        /\ UNCHANGED <<readfds, listening, pending, gone, full, signal>>
    BY <1>1 DEF Accept
  <2>3. new \in Desc \ open /\ new # NoFd
    BY <2>1
  <2> HIDE DEF new
  <2>4. /\ NewSession \in Session
        /\ NewSession.state = "command"
        /\ NewSession.fd = NoFd
    BY NullInSession DEF NewSession, State, LineStates
  <2>5. \A e \in Desc :
          connections'[e] = IF e = new THEN NewSession ELSE connections[e]
    BY <2>2 DEF LoopInv, TypeOK
  <2>6. Connected' = Connected \cup {new}
    BY <2>3, <2>4, <2>5 DEF Connected
  <2>7. Owned'
    BY <2>2, <2>3, <2>4, <2>5, <2>6
       DEF LoopInv, Owned, SocketsOpen, FilesOwned
  <2>8. ReadyOpen' /\ BacklogWaits'
    BY <2>2 DEF ReadyOpen, BacklogWaits
  <2>9. ReadyHasInput'
    <3>1. new \notin readfds
      BY <2>2, <2>3 DEF LoopInv, ReadyOpen
    <3> QED
      BY <2>2, <2>6, <3>1 DEF LoopInv, ReadyHasInput, HasInput
  <2>10. TypeOK'
    <3>1. connections' \in [Desc -> Session]
      BY <2>2, <2>4 DEF LoopInv, TypeOK
    <3>2. 1 \in Desc
      BY ServerLoopAssumption DEF Desc
    <3>3. backlog' \in 0 .. MaxBacklog
      <4>1. backlog \in 0 .. MaxBacklog /\ MaxBacklog \in Nat
        BY ServerLoopAssumption DEF LoopInv, TypeOK
      <4>2. backlog > 0
        BY <1>1, <2>2 DEF LoopInv, BacklogWaits
      <4>3. backlog' = backlog - 1
        BY <2>2
      <4> QED
        BY <4>1, <4>2, <4>3
    <3> QED
      BY <2>2, <2>3, <2>6, <3>1, <3>2, <3>3 DEF LoopInv, TypeOK
  <2> QED
    BY <2>7, <2>8, <2>9, <2>10 DEF LoopInv
<1>2. CASE ~(listening /\ open # Desc)
  <2>1. /\ UNCHANGED <<connections, open, backlog>>
        /\ pc = "accept" /\ pc' = "pass" /\ next' = 1
        /\ UNCHANGED <<readfds, listening, pending, gone, full, signal>>
    BY <1>2 DEF Accept
  <2>2. Owned' /\ Connected' = Connected
    BY <2>1, StaysOwned DEF LoopInv
  <2>3. 1 \in Desc
    BY ServerLoopAssumption DEF Desc
  <2>4. TypeOK'
    BY <2>1, <2>2, <2>3 DEF LoopInv, TypeOK
  <2>5. ReadyOpen' /\ ReadyHasInput' /\ BacklogWaits'
    BY <2>1, <2>2
       DEF LoopInv, ReadyOpen, ReadyHasInput, BacklogWaits, HasInput
  <2> QED
    BY <2>2, <2>4, <2>5 DEF LoopInv
<1> QED
  BY <1>1, <1>2

(* A step of the pass, by the turn of the session or without one. *)
LEMMA PassInv ==
  ASSUME LoopInv, Skip \/ \E i \in Desc : Serve(i)
  PROVE  LoopInv'
<1>1. CASE Skip
  <2>1. /\ pc = "pass" /\ Advance
        /\ UNCHANGED <<connections, open, readfds, listening>>
        /\ UNCHANGED <<backlog, pending, gone, full, signal>>
    BY <1>1 DEF Skip, clients
  <2>2. Owned' /\ Connected' = Connected
    BY <2>1, StaysOwned DEF LoopInv
  <2>3. /\ next' \in Desc
        /\ pc' \in {"pselect", "pass"}
        /\ pc' = "pass" => \A e \in Desc : next' <= e => next <= e /\ e # next
    BY <2>1, AdvanceType DEF LoopInv, TypeOK
  <2>4. TypeOK'
    BY <2>1, <2>2, <2>3 DEF LoopInv, TypeOK
  <2>5. ReadyOpen' /\ BacklogWaits'
    BY <2>3 DEF ReadyOpen, BacklogWaits
  <2>6. ReadyHasInput'
    BY <2>1, <2>2, <2>3 DEF LoopInv, ReadyHasInput, HasInput, Connected
  <2> QED
    BY <2>2, <2>4, <2>5, <2>6 DEF LoopInv
<1>2. ASSUME NEW i \in Desc, ReadLine(i) \/ Upload(i) \/ Download(i)
      PROVE  LoopInv'
  <2>1. Turn(i)
    BY <1>2 DEF ReadLine, Upload, Download
  <2>2. i \in Connected /\ pc = "pass" /\ next = i
    BY <2>1 DEF Turn, HasTurn, Connected, LineStates
  <2>3. Visited(i)
    BY <1>2, <2>2, ReadLineVisits, UploadVisits, DownloadVisits DEF LoopInv
  <2> QED
    BY <2>2, <2>3, VisitedInv
<1>3. ASSUME NEW i \in Desc, Die(i)
      PROVE  LoopInv'
  <2>1. /\ pc' = "ended"
        /\ UNCHANGED <<connections, open, readfds, listening, next>>
        /\ UNCHANGED <<backlog, pending, gone, full, signal>>
    BY <1>3 DEF Die, clients
  <2>2. Owned' /\ Connected' = Connected
    BY <2>1, StaysOwned DEF LoopInv
  <2>3. TypeOK'
    BY <2>1, <2>2 DEF LoopInv, TypeOK
  <2>4. ReadyOpen' /\ ReadyHasInput' /\ BacklogWaits'
    BY <2>1 DEF ReadyOpen, ReadyHasInput, BacklogWaits
  <2> QED
    BY <2>2, <2>3, <2>4 DEF LoopInv
<1> QED
  BY <1>1, <1>2, <1>3 DEF Serve

LEMMA StopInv ==
  ASSUME LoopInv, Stop
  PROVE  LoopInv'
<1>1. /\ pc' = "ended"
      /\ UNCHANGED <<connections, open, readfds, listening, next>>
      /\ UNCHANGED <<backlog, pending, gone, full, signal>>
  BY DEF Stop, clients
<1>2. Owned' /\ Connected' = Connected
  BY <1>1, StaysOwned DEF LoopInv
<1>3. TypeOK'
  BY <1>1, <1>2 DEF LoopInv, TypeOK
<1>4. ReadyOpen' /\ ReadyHasInput' /\ BacklogWaits'
  BY <1>1 DEF ReadyOpen, ReadyHasInput, BacklogWaits
<1> QED
  BY <1>2, <1>3, <1>4 DEF LoopInv

(* Clients add to what can be read, and take nothing back. *)
LEMMA ClientInv ==
  ASSUME LoopInv,
         UNCHANGED server,
         backlog' \in 0 .. MaxBacklog, backlog <= backlog',
         pending' \in [Desc -> 0 .. MaxPending],
         \A d \in Desc : pending[d] <= pending'[d],
         gone \subseteq gone', gone' \subseteq Connected,
         full' \subseteq full,
         signal' \in BOOLEAN
  PROVE  LoopInv'
<1>1. UNCHANGED <<connections, open, pc, readfds, listening, next>>
  BY DEF server
<1>2. Owned' /\ Connected' = Connected
  BY <1>1, StaysOwned DEF LoopInv
<1>3. TypeOK'
  BY <1>1, <1>2 DEF LoopInv, TypeOK
<1>4. ReadyOpen'
  BY <1>1 DEF LoopInv, ReadyOpen
<1>5. backlog \in Int /\ backlog' \in Int
  BY DEF LoopInv, TypeOK
<1>6. BacklogWaits'
  BY <1>1, <1>5 DEF LoopInv, BacklogWaits
<1>7. \A d \in Desc : HasInput(d) => HasInput(d)'
  <2>1. \A d \in Desc : pending[d] \in Int /\ pending'[d] \in Int
    BY DEF LoopInv, TypeOK
  <2> QED
    BY <2>1 DEF HasInput
<1>8. ReadyHasInput'
  BY <1>1, <1>2, <1>7 DEF LoopInv, ReadyHasInput, Connected
<1> QED
  BY <1>2, <1>3, <1>4, <1>6, <1>8 DEF LoopInv

LEMMA ClientsInv ==
  ASSUME LoopInv,
         Connect \/ Kill \/ \E d \in Desc : Send(d) \/ Receive(d) \/ Leave(d)
  PROVE  LoopInv'
<1>1. /\ backlog \in 0 .. MaxBacklog
      /\ pending \in [Desc -> 0 .. MaxPending]
      /\ gone \subseteq Connected
      /\ signal \in BOOLEAN
      /\ MaxBacklog \in Nat /\ MaxPending \in Nat
  BY ServerLoopAssumption DEF LoopInv, TypeOK
<1>2. backlog <= backlog /\ \A d \in Desc : pending[d] <= pending[d]
  BY <1>1
<1>3. CASE Connect
  <2>1. backlog' \in 0 .. MaxBacklog /\ backlog <= backlog'
    BY <1>1, <1>3 DEF Connect
  <2> QED
    BY <1>1, <1>2, <1>3, <2>1, ClientInv DEF Connect
<1>4. CASE Kill
  BY <1>1, <1>2, <1>4, ClientInv DEF Kill
<1>5. ASSUME NEW d \in Desc, Send(d)
      PROVE  LoopInv'
  <2>1. /\ pending' \in [Desc -> 0 .. MaxPending]
        /\ \A e \in Desc : pending[e] <= pending'[e]
    BY <1>1, <1>5 DEF Send
  <2> QED
    BY <1>1, <1>2, <1>5, <2>1, ClientInv DEF Send
<1>6. ASSUME NEW d \in Desc, Receive(d)
      PROVE  LoopInv'
  BY <1>1, <1>2, <1>6, ClientInv DEF Receive
<1>7. ASSUME NEW d \in Desc, Leave(d)
      PROVE  LoopInv'
  <2>1. /\ gone \subseteq gone' /\ gone' \subseteq Connected
        /\ full' \subseteq full
    BY <1>1, <1>7 DEF Leave
  <2> QED
    BY <1>1, <1>2, <1>7, <2>1, ClientInv DEF Leave
<1> QED
  BY <1>3, <1>4, <1>5, <1>6, <1>7

-----------------------------------------------------------------------------
(* LoopInv holds in every state, of any interleaving of loop and clients. *)
THEOREM Invariance ==
  Spec => []LoopInv
<1>1. Init => LoopInv
  <2> SUFFICES ASSUME Init
               PROVE  LoopInv
    OBVIOUS
  <2>1. NullSession \in Session /\ NullSession.state = "NULL"
        /\ NullSession.fd = NoFd
    BY NullInSession
  <2>2. 1 \in Desc /\ 0 \in 0 .. MaxBacklog /\ 0 \in 0 .. MaxPending
    BY ServerLoopAssumption DEF Desc
  <2>3. TypeOK
    BY <2>1, <2>2 DEF Init, TypeOK
  <2>4. Owned
    BY <2>1 DEF Init, Owned, SocketsOpen, FilesOwned, Connected
  <2>5. ReadyOpen /\ ReadyHasInput /\ BacklogWaits
    BY DEF Init, ReadyOpen, ReadyHasInput, BacklogWaits
  <2> QED
    BY <2>3, <2>4, <2>5 DEF LoopInv
<1>2. ASSUME LoopInv, [Next]_vars
      PROVE  LoopInv'
  <2>1. CASE Next
    BY <1>2, <2>1, PselectInv, StopInv, AcceptInv, PassInv, ClientsInv
       DEF Next, Loop
  <2>2. CASE UNCHANGED vars
    <3>1. /\ UNCHANGED server
          /\ UNCHANGED <<backlog, pending, gone, full, signal>>
      BY <2>2 DEF vars, clients
    <3>2. backlog <= backlog /\ \A d \in Desc : pending[d] <= pending[d]
      BY <1>2 DEF LoopInv, TypeOK
    <3> QED
      BY <1>2, <3>1, <3>2, ClientInv DEF LoopInv, TypeOK
  <2> QED
    BY <1>2, <2>1, <2>2
<1> QED
  BY <1>1, <1>2, PTL DEF Spec

(* The loop's state stays what its code takes it for: the clients that are *)
(* gone or not reading are connected, and no connection is accepted twice. *)
THEOREM TypeCorrect ==
  Spec => []TypeOK
<1>1. LoopInv => TypeOK
  BY DEF LoopInv
<1> QED
  BY <1>1, Invariance, PTL

(* session_do_read does not wait for a client: what pselect found is there *)
(* when its turn comes, whatever the sessions before it opened and closed. *)
THEOREM NoLineWaits ==
  Spec => []LinesDoNotWait
<1>1. LoopInv => LinesDoNotWait
  <2> SUFFICES ASSUME LoopInv, NEW i \in Desc, Turn(i),
                      connections[i].state \in LineStates
               PROVE  HasInput(i)
    BY DEF LinesDoNotWait
  <2>1. i \in readfds /\ pc = "pass" /\ next = i
    BY DEF Turn, HasTurn
  <2>2. i \in Connected
    BY DEF Connected, LineStates
  <2>3. next <= i
    BY <2>1, DescIsNat
  <2> QED
    BY <2>1, <2>2, <2>3 DEF LoopInv, ReadyHasInput
<1> QED
  BY <1>1, Invariance, PTL
=============================================================================
