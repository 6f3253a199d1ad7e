------------------------------ MODULE ServerLoop ------------------------------
(***************************************************************************)
(* server_main_loop: what pselect waits for, the pass over the sessions,   *)
(* the handlers that wait for one client while all others wait for them,   *)
(* and the signals, which are blocked outside of pselect.                  *)
(*                                                                         *)
(* What a handler does to files, rows and counters is in Board; here it is *)
(* any of the states and descriptors it may leave.  Answers to commands    *)
(* are short and are taken to fit into the send buffer.                    *)
(***************************************************************************)
EXTENDS Integers, FiniteSets, FiniteSetsExt

CONSTANTS
  MaxFd,         \* descriptors are 1 .. MaxFd; the listening socket is not one
  Size,          \* blocks of the files that are sent and fetched
  MaxPending,    \* bound: blocks or lines a client sends ahead
  MaxBacklog     \* bound: connections that wait to be accepted

ASSUME ServerLoopAssumption ==
  /\ MaxFd \in Nat \ {0}
  /\ Size \subseteq Nat
  /\ MaxPending \in Nat \ {0}
  /\ MaxBacklog \in Nat \ {0}

Desc == 1 .. MaxFd
NoFd == 0

VARIABLES
  connections,   \* the session of every descriptor
  open,          \* descriptors the process holds
  pc,            \* where the loop is
  readfds,       \* descriptors that pselect found ready
  listening,     \* ... and whether the listening socket was
  next,          \* i of the pass over the sessions
  backlog,       \* connections that wait to be accepted
  pending,       \* what was sent to a socket and not read
  gone,          \* sockets whose clients have left
  full,          \* sockets whose send buffers are full
  signal         \* SIGINT or SIGTERM is pending

server == <<connections, open, pc, readfds, listening, next>>
clients == <<backlog, pending, gone, full, signal>>
vars == <<server, clients>>

LineStates ==
  {"command", "OP_UPLOAD_DESCRIPTION", "OP_DOWNLOAD_WAIT_CONFIRM_PACKAGE",
   "ERR"}
State == LineStates \cup {"NULL", "OP_UPLOAD", "OP_DOWNLOAD"}

(* What the next step of file_download comes to: a block to write, the end *)
(* of the file, or no bytes left in the package.                           *)
Finds == {"block", "end", "package_end"}

Session == [state: State, fd: Desc \cup {NoFd}, rest: Nat, finds: Finds]
NullSession == [state |-> "NULL", fd |-> NoFd, rest |-> 0, finds |-> "block"]
NewSession == [NullSession EXCEPT !.state = "command"]

Connected == {d \in Desc : connections[d].state # "NULL"}
InState(i, st) == connections[i].state = st

(* open() and accept() give the lowest descriptor that is free. *)
Lowest == Min(Desc \ open)

Init ==
  /\ connections = [d \in Desc |-> NullSession]
  /\ open = {}
  /\ pc = "pselect"
  /\ readfds = {}
  /\ listening = FALSE
  /\ next = 1
  /\ backlog = 0
  /\ pending = [d \in Desc |-> 0]
  /\ gone = {}
  /\ full = {}
  /\ signal = FALSE

-----------------------------------------------------------------------------
(* Waiting *)

(* Mutant: the file of a package to be confirmed is waited for. *)
EveryFileWaitedFor == {connections[d].fd : d \in Connected} \ {NoFd}

FilesWaitedFor ==
  {connections[d].fd :
     d \in {e \in Connected :
              ~InState(e, "OP_DOWNLOAD_WAIT_CONFIRM_PACKAGE")}} \ {NoFd}

HasInput(d) == pending[d] > 0 \/ d \in gone

(* Regular files are always ready. *)
Ready == {d \in Connected : HasInput(d)} \cup FilesWaitedFor

Pselect ==
  /\ pc = "pselect"
  /\ Ready # {} \/ backlog > 0
  /\ readfds' = Ready
  /\ listening' = (backlog > 0)
  /\ pc' = "accept"
  /\ UNCHANGED <<connections, open, next, clients>>

(* A pending signal ends a wait.  Whether pselect reports it when there is *)
(* something ready as well is left to the system.                          *)
Stop ==
  /\ pc = "pselect"
  /\ signal
  /\ pc' = "ended"
  /\ UNCHANGED <<connections, open, readfds, listening, next, clients>>

(* accept_client; without a free descriptor the connection keeps waiting. *)
Accept ==
  /\ pc = "accept"
  /\ pc' = "pass"
  /\ next' = 1
  /\ IF listening /\ open # Desc
     THEN /\ connections' = [connections EXCEPT ![Lowest] = NewSession]
          /\ open' = open \cup {Lowest}
          /\ backlog' = backlog - 1
     ELSE UNCHANGED <<connections, open, backlog>>
  /\ UNCHANGED <<readfds, listening, pending, gone, full, signal>>

-----------------------------------------------------------------------------
(* The pass over the sessions *)

(* Mutant: no end of the pass. *)
AdvanceFurther == next' = next + 1 /\ pc' = "pass"

Advance ==
  /\ next' = IF next = MaxFd THEN 1 ELSE next + 1
  /\ pc' = IF next = MaxFd THEN "pselect" ELSE "pass"

(* Mutant: the first session that is served ends the pass. *)
BecomeAndStartOver(i, s, closed) ==
  /\ connections' = [connections EXCEPT ![i] = s]
  /\ open' = open \ closed
  /\ next' = 1
  /\ pc' = "pselect"
  /\ UNCHANGED <<readfds, listening, backlog, signal>>

(* The pass goes on; the session becomes s, and closes what is in closed. *)
Become(i, s, closed) ==
  /\ connections' = [connections EXCEPT ![i] = s]
  /\ open' = open \ closed
  /\ Advance
  /\ UNCHANGED <<readfds, listening, backlog, signal>>

(* What is found in a file with rest blocks to go.  The file may have been *)
(* cut by others; only a download looks.                                   *)
Found(st, rest) ==
  IF st # "OP_DOWNLOAD" THEN {"block"}
  ELSE {"end"} \cup {f \in {"block"} : rest > 0}

(* A session that has opened a file. *)
Transfer(i, st, size) ==
  /\ open # Desc
  /\ \E f \in Found(st, size) :
       connections' =
         [connections EXCEPT
            ![i] = [state |-> st, fd |-> Lowest, rest |-> size, finds |-> f]]
  /\ open' = open \cup {Lowest}
  /\ Advance
  /\ UNCHANGED <<readfds, listening, backlog, signal>>

(* The session after clear_file_from_sess *)
Cleared(i, st) ==
  Become(i, [NullSession EXCEPT !.state = st], {connections[i].fd})

(* The session goes to a state with rest blocks left of its file. *)
Proceeds(i, st, rest) ==
  \E f \in Found(st, rest) :
    Become(i, [connections[i] EXCEPT !.state = st, !.rest = rest, !.finds = f],
           {})

Goes(i, st) == Proceeds(i, st, connections[i].rest)

(* Mutant: a new session's socket is taken for ready. *)
TurnsOfNewToo(i) ==
  IF connections[i].state \in LineStates
  THEN i \in readfds \/ connections[i] = NewSession
  ELSE i \in Connected /\ connections[i].fd \in readfds

(* A session whose turn it is: by its file in a transfer, else its socket. *)
HasTurn(i) ==
  IF connections[i].state \in LineStates
  THEN i \in readfds
  ELSE i \in Connected /\ connections[i].fd \in readfds

Turn(i) == pc = "pass" /\ next = i /\ HasTurn(i)

Skip ==
  /\ pc = "pass"
  /\ ~HasTurn(next)
  /\ Advance
  /\ UNCHANGED <<connections, open, readfds, listening, clients>>

(* close_session; a descriptor whose file record is lost stays open. *)
Close(i) ==
  /\ \E lost \in {{}, IF InState(i, "command") THEN {connections[i].fd} ELSE {}} :
       Become(i, NullSession, {i, connections[i].fd} \ lost)
  /\ pending' = [pending EXCEPT ![i] = 0]
  /\ gone' = gone \ {i}
  /\ full' = full \ {i}

(* What a command may do: nothing to the loop; a transfer that fails to    *)
(* start, with the descriptor it has opened lost, too; a transfer.         *)
Command(i) ==
  /\ InState(i, "command")
  /\ \/ Goes(i, "command")
     \/ Cleared(i, "command")
     \/ /\ open # Desc
        /\ open' = open \cup {Lowest}
        /\ Advance
        /\ UNCHANGED <<connections, readfds, listening, backlog, signal>>
     \/ \E size \in Size : \/ Transfer(i, "OP_UPLOAD", size)
                           \/ Transfer(i, "OP_DOWNLOAD", size)

Describe(i) ==
  /\ InState(i, "OP_UPLOAD_DESCRIPTION")
  /\ Goes(i, "OP_UPLOAD_DESCRIPTION") \/ Cleared(i, "command")

Confirm(i) ==
  /\ InState(i, "OP_DOWNLOAD_WAIT_CONFIRM_PACKAGE")
  /\ \/ Goes(i, "OP_DOWNLOAD_WAIT_CONFIRM_PACKAGE")
     \/ Goes(i, "OP_DOWNLOAD")
     \/ Become(i, [connections[i] EXCEPT !.state = "OP_DOWNLOAD",
                                         !.finds = "package_end"], {})
     \/ Cleared(i, "command")

(* session_do_read and perform_session_action; "exit", the end or a reset  *)
(* of the stream and the state ERR close the session.  With nothing to     *)
(* read the read would wait.                                               *)
ReadLine(i) ==
  /\ Turn(i)
  /\ connections[i].state \in LineStates
  /\ \/ /\ pending[i] > 0
        /\ Command(i) \/ Describe(i) \/ Confirm(i)
        /\ pending' = [pending EXCEPT ![i] = @ - 1]
        /\ UNCHANGED <<gone, full>>
     \/ /\ \/ i \in gone
           \/ pending[i] > 0 /\ connections[i].state \in {"command", "ERR"}
        /\ Close(i)

(* file_upload, which waits for the client: a block is stored, the upload  *)
(* is cancelled or fails, or the stream has ended; that of an empty file   *)
(* keeps the file then, unless the read failed.                            *)
Upload(i) ==
  /\ Turn(i)
  /\ InState(i, "OP_UPLOAD")
  /\ \/ /\ pending[i] > 0
        /\ pending' = [pending EXCEPT ![i] = @ - 1]
        /\ \/ \E rest \in 0 .. connections[i].rest :
                Proceeds(i,
                         IF rest = 0 THEN "OP_UPLOAD_DESCRIPTION"
                         ELSE "OP_UPLOAD",
                         rest)
           \/ Cleared(i, "command")
     \/ /\ pending[i] = 0
        /\ i \in gone
        /\ \/ Cleared(i, "command")
           \/ connections[i].rest = 0 /\ Goes(i, "command")
        /\ UNCHANGED pending
  /\ UNCHANGED <<gone, full>>

(* file_download: at the end of a package or of the file nothing is        *)
(* written; with a block it waits until the client has room.               *)
Download(i) ==
  LET s == connections[i]
  IN  /\ Turn(i)
      /\ InState(i, "OP_DOWNLOAD")
      /\ \/ /\ s.finds = "package_end"
            /\ Goes(i, "OP_DOWNLOAD_WAIT_CONFIRM_PACKAGE")
            /\ UNCHANGED full
         \/ /\ s.finds = "end"
            /\ IF s.rest # 0 THEN Cleared(i, "command") ELSE Goes(i, "command")
            /\ UNCHANGED full
         \/ /\ s.finds = "block" /\ s.rest > 0
            /\ i \notin full
            /\ full' \in {full, full \cup {i}}
            /\ IF s.rest = 1
               THEN Cleared(i, "command")
               ELSE \E st \in {"OP_DOWNLOAD",
                               "OP_DOWNLOAD_WAIT_CONFIRM_PACKAGE"} :
                      Proceeds(i, st, s.rest - 1)
         \/ /\ s.finds = "block"
            /\ i \in gone
            /\ Cleared(i, "ERR")
            /\ UNCHANGED full
      /\ UNCHANGED <<pending, gone>>

(* SIGPIPE is not ignored: a write to a client that has gone may end the   *)
(* process.                                                                *)
Die(i) ==
  /\ Turn(i)
  /\ i \in gone
  /\ \/ pending[i] > 0
     \/ InState(i, "OP_DOWNLOAD") /\ connections[i].finds = "block"
  /\ pc' = "ended"
  /\ UNCHANGED <<connections, open, readfds, listening, next, clients>>

Serve(i) == ReadLine(i) \/ Upload(i) \/ Download(i) \/ Die(i)

Loop == Pselect \/ Stop \/ Accept \/ Skip \/ \E i \in Desc : Serve(i)

-----------------------------------------------------------------------------
(* Clients, and whoever stops the server *)

Connect ==
  /\ backlog < MaxBacklog
  /\ backlog' = backlog + 1
  /\ UNCHANGED <<server, pending, gone, full, signal>>

Send(d) ==
  /\ d \in Connected \ gone
  /\ pending[d] < MaxPending
  /\ pending' = [pending EXCEPT ![d] = @ + 1]
  /\ UNCHANGED <<server, backlog, gone, full, signal>>

Receive(d) ==
  /\ d \in full
  /\ full' = full \ {d}
  /\ UNCHANGED <<server, backlog, pending, gone, signal>>

Leave(d) ==
  /\ d \in Connected \ gone
  /\ gone' = gone \cup {d}
  /\ full' = full \ {d}
  /\ UNCHANGED <<server, backlog, pending, signal>>

Kill ==
  /\ ~signal
  /\ signal' = TRUE
  /\ UNCHANGED <<server, backlog, pending, gone, full>>

Next ==
  \/ Loop
  \/ Connect
  \/ \E d \in Desc : Send(d) \/ Receive(d) \/ Leave(d)
  \/ Kill

(* The process runs; clients need not do anything. *)
Spec == Init /\ [][Next]_vars /\ WF_vars(Loop)

-----------------------------------------------------------------------------
(* Properties *)

TypeOK ==
  /\ connections \in [Desc -> Session]
  /\ open \subseteq Desc
  /\ pc \in {"pselect", "accept", "pass", "ended"}
  /\ readfds \subseteq Desc
  /\ listening \in BOOLEAN
  /\ next \in Desc
  /\ backlog \in 0 .. MaxBacklog
  /\ pending \in [Desc -> 0 .. MaxPending]
  /\ gone \subseteq Connected
  /\ full \subseteq Connected
  /\ signal \in BOOLEAN

(* session_do_read never waits: what pselect found ready is still there    *)
(* when the turn of the session comes, and is not the news of a descriptor *)
(* that was closed and opened again during the pass.                       *)
LinesDoNotWait ==
  \A i \in Desc :
    Turn(i) /\ connections[i].state \in LineStates => HasInput(i)

(* The loop is in the read() or write() of a transfer whose client does    *)
(* not send or receive.                                                    *)
Waiting ==
  \E i \in Desc :
    /\ Turn(i)
    /\ \/ InState(i, "OP_UPLOAD") /\ ~HasInput(i)
       \/ /\ InState(i, "OP_DOWNLOAD")
          /\ connections[i].finds = "block"
          /\ i \in full

(* Whatever the others do, a session whose client has sent a line is       *)
(* served, and again when it has sent another, unless the loop waits for a *)
(* client in a transfer for ever or the process has ended.                 *)
EveryLineServed ==
  \A d \in Desc :
    \/ []<>(connections[d].state \notin LineStates \/ ~HasInput(d))
    \/ []<><<ReadLine(d)>>_vars
    \/ <>[](Waiting \/ pc = "ended")

(* What keeps pselect from waiting: a file that is open while nothing is   *)
(* transferred, and a connection for which there is no descriptor.         *)
Spinning ==
  \/ \E d \in Connected :
       connections[d].fd # NoFd
         /\ connections[d].state \in {"command", "OP_UPLOAD_DESCRIPTION"}
  \/ backlog > 0 /\ open = Desc

Asleep == pc = "pselect" /\ Ready = {} /\ backlog = 0 /\ ~signal

(* When no client does anything more, the server comes to rest and a       *)
(* signal ends it, unless the loop waits for a client in a transfer or     *)
(* spins.                                                                  *)
QuietWhenIdle ==
  <>[][Loop]_vars =>
    <>[](Asleep \/ Waiting \/ Spinning \/ pc = "ended")
=============================================================================
