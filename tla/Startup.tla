------------------------------- MODULE Startup -------------------------------
(***************************************************************************)
(* main() up to the main loop, one system call after the other, in several *)
(* processes that are started in the same directory: by hand while one is  *)
(* running, or again after one has ended.  They share the storage folder,  *)
(* the port, and the log with its backup.                                  *)
(***************************************************************************)
EXTENDS FiniteSets, Integers

CONSTANTS
  Process,       \* processes that are started, each once
  Earlier        \* the process that wrote the log there is at first

VARIABLES
  pc,            \* the step of main() every process is at
  storage,       \* the storage folder exists
  welcome,       \* the welcome file exists
  listening,     \* processes that listen on the port
  log,           \* who wrote bbs-server.log; Nobody, or Missing
  old,           \* who wrote bbs-server.log.old
  fd,            \* what file.fd is: "stdin" (0, at first), "log" or "garbage"
  last,          \* history: who opened a log last ...
  before,        \* ... and, for every process, who had done so before it
  disturbed      \* history: what went wrong, of "call", "kill" and "close",
                 \* when close() hit the listening socket

logs == <<log, old, fd, last, before>>
vars == <<pc, storage, welcome, listening, logs, disturbed>>

Missing == "missing"     \* there is no such file
Nobody == "nobody"       \* the file is empty, or of a process before Earlier

ASSUME StartupAssumption ==
  /\ Earlier \notin Process
  /\ {Missing, Nobody} \cap (Process \cup {Earlier}) = {}

(* Mutant: the log is opened before the port is known to be free. *)
AfterLogFirst ==
  [prepare |-> "welcome", mkdir |-> "welcome", welcome |-> "database",
   database |-> "log", log |-> "socket", create |-> "socket",
   socket |-> "bind", bind |-> "listen", listen |-> "serve"]

(* main(): the step that follows a call. *)
After ==
  [prepare |-> "welcome", mkdir |-> "welcome", welcome |-> "database",
   database |-> "socket", socket |-> "bind", bind |-> "listen",
   listen |-> "log", log |-> "serve", create |-> "serve"]

Step ==
  {"off", "prepare", "mkdir", "welcome", "database", "socket", "bind", "listen",
   "log", "open old", "unlink", "rename", "create", "serve", "ended"}

Go(p, to) == pc' = [pc EXCEPT ![p] = to]
Advance(p) == Go(p, After[pc[p]])
Live(p) == pc[p] \notin {"off", "ended"}

Init ==
  /\ pc = [p \in Process |-> "off"]
  /\ storage \in BOOLEAN
  /\ welcome \in BOOLEAN
  /\ listening = {}
  /\ log \in {Missing, Earlier}
  /\ old \in {Missing, Nobody} \cup (IF log = Missing THEN {Earlier} ELSE {})
  /\ fd = [p \in Process |-> "stdin"]
  /\ last = IF Earlier \in {log, old} THEN Earlier ELSE Missing
  /\ before = [p \in Process |-> Missing]
  /\ disturbed = {}

Start(p) ==
  /\ pc[p] = "off"
  /\ Go(p, "prepare")
  /\ UNCHANGED <<storage, welcome, listening, logs, disturbed>>

(* exit(), or a signal: the kernel closes the sockets. *)
End(p) ==
  /\ Go(p, "ended")
  /\ listening' = listening \ {p}
  /\ UNCHANGED <<storage, welcome, logs>>

-----------------------------------------------------------------------------
(* server.c *)

(* Mutant: the folder is made without looking. *)
PrepareMakes(p) ==
  /\ pc[p] = "prepare"
  /\ Go(p, "mkdir")
  /\ UNCHANGED <<storage, welcome, listening, logs, disturbed>>

(* prepare_start: directory_exists, then mkdir. *)
Prepare(p) ==
  /\ pc[p] = "prepare"
  /\ IF storage THEN Advance(p) ELSE Go(p, "mkdir")
  /\ UNCHANGED <<storage, welcome, listening, logs, disturbed>>

Mkdir(p) ==
  /\ pc[p] = "mkdir"
  /\ IF storage
     THEN End(p)
     ELSE /\ storage' = TRUE
          /\ Advance(p)
          /\ UNCHANGED <<welcome, listening, logs>>
  /\ UNCHANGED disturbed

GetWelcome(p) ==
  /\ pc[p] = "welcome"
  /\ IF welcome THEN Advance(p) /\ UNCHANGED <<storage, welcome, listening, logs>>
                ELSE End(p)
  /\ UNCHANGED disturbed

(* init_db_connection, whose result is not looked at; socket, setsockopt.  *)
Proceed(p) ==
  /\ pc[p] \in {"database", "socket"}
  /\ Advance(p)
  /\ UNCHANGED <<storage, welcome, listening, logs, disturbed>>

(* With SO_REUSEADDR the port may be bound while nobody listens. *)
Bind(p) ==
  /\ pc[p] = "bind"
  /\ IF listening = {}
     THEN /\ Advance(p)
          /\ UNCHANGED <<storage, welcome, listening, logs>>
     ELSE End(p)
  /\ UNCHANGED disturbed

(* Mutant: SO_REUSEPORT. *)
ListenSharing(p) ==
  /\ pc[p] = "listen"
  /\ listening' = listening \cup {p}
  /\ Advance(p)
  /\ UNCHANGED <<storage, welcome, logs, disturbed>>

Listen(p) ==
  /\ pc[p] = "listen"
  /\ IF listening = {}
     THEN /\ listening' = {p}
          /\ Advance(p)
          /\ UNCHANGED <<storage, welcome, logs>>
     ELSE End(p)
  /\ UNCHANGED disturbed

-----------------------------------------------------------------------------
(* init_log_file *)

(* p has created the log. *)
Opened(p) ==
  /\ log' = p
  /\ fd' = [fd EXCEPT ![p] = "log"]
  /\ last' = p
  /\ before' = [before EXCEPT ![p] = last]
  /\ Advance(p)

(* Mutant: open() with O_TRUNC for O_EXCL. *)
OpenLogTruncating(p) ==
  /\ pc[p] = "log"
  /\ Opened(p)
  /\ UNCHANGED <<storage, welcome, listening, old, disturbed>>

OpenLog(p) ==
  /\ pc[p] = "log"
  /\ IF log = Missing
     THEN Opened(p) /\ UNCHANGED old
     ELSE Go(p, "open old") /\ UNCHANGED logs
  /\ UNCHANGED <<storage, welcome, listening, disturbed>>

(* A backup that did not exist does now, and is empty. *)
OpenOld(p) ==
  /\ pc[p] = "open old"
  /\ IF old = Missing
     THEN old' = Nobody /\ Go(p, "rename")
     ELSE UNCHANGED old /\ Go(p, "unlink")
  /\ UNCHANGED <<storage, welcome, listening, log, fd, last, before, disturbed>>

(* Mutant: the log is removed. *)
UnlinkLog(p) ==
  /\ pc[p] = "unlink"
  /\ log' = Missing
  /\ Go(p, "rename")
  /\ UNCHANGED <<storage, welcome, listening, old, fd, last, before, disturbed>>

Unlink(p) ==
  /\ pc[p] = "unlink"
  /\ old' = Missing
  /\ Go(p, "rename")
  /\ UNCHANGED <<storage, welcome, listening, log, fd, last, before, disturbed>>

Rename(p) ==
  /\ pc[p] = "rename"
  /\ Go(p, "create")
  /\ IF log = Missing THEN UNCHANGED <<log, old>>
                      ELSE log' = Missing /\ old' = log
  /\ UNCHANGED <<storage, welcome, listening, fd, last, before, disturbed>>

(* A log that is there again is left alone, and file.fd as it is. *)
Create(p) ==
  /\ pc[p] = "create"
  /\ IF log = Missing THEN Opened(p) /\ UNCHANGED old
                      ELSE Advance(p) /\ UNCHANGED logs
  /\ UNCHANGED <<storage, welcome, listening, disturbed>>

(* A call of the rotation fails for a reason of its own.  open() then      *)
(* leaves fd as it is, which is not initialised: the log goes to any       *)
(* descriptor, or close() closes any, the listening socket included.       *)
LogCallFails(p) ==
  /\ \/ /\ pc[p] = "log"
        /\ fd' = [fd EXCEPT ![p] = "garbage"]
        /\ Advance(p)
        /\ UNCHANGED listening
     \/ /\ \/ pc[p] \in {"open old", "unlink"} /\ Go(p, "rename")
           \/ pc[p] = "rename" /\ Go(p, "create")
           \/ pc[p] = "create" /\ Advance(p)
        /\ UNCHANGED <<listening, fd>>
  /\ UNCHANGED <<storage, welcome, log, old, last, before>>

CallFails(p) ==
  /\ \/ LogCallFails(p)
     \/ /\ pc[p] \in {"prepare", "mkdir", "welcome", "socket", "bind", "listen"}
        /\ End(p)
  /\ disturbed' = disturbed \cup {"call"}

(* What becomes of such a process, which waits for a descriptor that is    *)
(* closed or is its log by now, is left open: it ends by a signal.         *)
ClosesSocket(p) ==
  /\ pc[p] = "open old"
  /\ Go(p, "rename")
  /\ listening' = listening \ {p}
  /\ disturbed' = disturbed \cup {"call", "close"}
  /\ UNCHANGED <<storage, welcome, logs>>

Kill(p) ==
  /\ Live(p)
  /\ End(p)
  /\ disturbed' = disturbed \cup {"kill"}

Main(p) ==
  \/ Prepare(p) \/ Mkdir(p) \/ GetWelcome(p) \/ Proceed(p)
  \/ Bind(p) \/ Listen(p)
  \/ OpenLog(p) \/ OpenOld(p) \/ Unlink(p) \/ Rename(p) \/ Create(p)

Next ==
  \E p \in Process :
    Start(p) \/ Main(p) \/ CallFails(p) \/ ClosesSocket(p) \/ Kill(p)

(* A process that was started is run by the kernel until it waits. *)
Spec == Init /\ [][Next]_vars /\ \A p \in Process : WF_vars(Main(p))

-----------------------------------------------------------------------------
(* Properties *)

(* Every variable has its type, and one process at most listens.           *)
TypeOK ==
  /\ pc \in [Process -> Step]
  /\ storage \in BOOLEAN /\ welcome \in BOOLEAN
  /\ disturbed \subseteq {"call", "kill", "close"}
  /\ listening \subseteq Process
  /\ Cardinality(listening) <= 1
  /\ log \in Process \cup {Earlier, Missing, Nobody}
  /\ old \in Process \cup {Earlier, Missing, Nobody}
  /\ fd \in [Process -> {"stdin", "log", "garbage"}]
  /\ last \in Process \cup {Earlier, Missing}
  /\ before \in [Process -> Process \cup {Earlier, Missing}]

Serving(p) == pc[p] = "serve" /\ p \in listening
HasLog(p) == Serving(p) /\ fd[p] = "log"

(* The server writes to the file that has the name of the log: no process  *)
(* that is started next to it, and does not get the port, has moved its    *)
(* log away (main, init_log_file), unless it had closed the socket.        *)
LogIsOwn ==
  "close" \notin disturbed => \A p \in Process : HasLog(p) => log = p

(* The log of whoever opened one last is never lost, whatever other call   *)
(* of a rotation failed and wherever a process was killed (init_log_file). *)
LastLogKept ==
  "close" \notin disturbed /\ last # Missing => last \in {log, old}

(* ... and when a server has opened its own, the one before it is the      *)
(* backup, also when starts in between ended in the middle of a rotation.  *)
BackupKept ==
  "close" \notin disturbed =>
    \A p \in Process :
      HasLog(p) /\ before[p] # Missing => old = before[p]

(* Behind the invariants (see StartupProofs): who rotates the log listens, *)
(* alone; and the log, when it is there, is the last one.                  *)
Rotating == {"log", "open old", "unlink", "rename", "create"}
OneListens == \A p, q \in listening : p = q
LogOpenedLast == \A p \in Process : fd[p] = "log" => pc[p] \in {"serve", "ended"}
PortFirst ==
  \A p \in Process : pc[p] \in Rotating \cup {"serve"} => p \in listening
LogToRename ==
  \A p \in Process : pc[p] \in {"open old", "unlink", "rename"} => log # Missing
LastKept ==
  IF log = Missing THEN last # Missing => old = last ELSE log = last
ServerHasBoth ==
  \A p \in Process :
    pc[p] = "serve" /\ fd[p] = "log" =>
      log = p /\ (before[p] # Missing => old = before[p])
LogInv == PortFirst /\ LogToRename /\ LastKept /\ ServerHasBoth
IInv ==
  /\ TypeOK
  /\ OneListens
  /\ LogOpenedLast
  /\ "close" \notin disturbed => LogInv

(* However many processes are started at the same time, one of them serves *)
(* in the end, though those that lose a race for the folder or the port    *)
(* exit; unless the welcome file is missing, a call fails or a process is  *)
(* killed (main).                                                          *)
SomeoneServes ==
  (\E p \in Process : pc[p] # "off") /\ welcome
    ~> (\E p \in Process : Serving(p)) \/ disturbed # {}
=============================================================================
