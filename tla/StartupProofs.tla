---------------------------- MODULE StartupProofs ----------------------------
(***************************************************************************)
(* The rotation of the log is safe for any number of processes, wherever   *)
(* they end: who rotates has the port first, and has it alone.             *)
(***************************************************************************)
EXTENDS Startup, FiniteSetTheorems, TLAPS

(* main(): what follows each of the calls. *)
LEMMA AfterCalls ==
  /\ After["prepare"] = "welcome" /\ After["mkdir"] = "welcome"
  /\ After["welcome"] = "database" /\ After["database"] = "socket"
  /\ After["socket"] = "bind" /\ After["bind"] = "listen"
  /\ After["listen"] = "log" /\ After["log"] = "serve"
  /\ After["create"] = "serve"
BY DEF After

(* A set of which any two members are the same has one at most. *)
LEMMA OneAtMost ==
  ASSUME NEW S, \A p, q \in S : p = q
  PROVE  Cardinality(S) <= 1
<1>1. CASE S = {}
  BY <1>1, FS_EmptySet
<1>2. CASE S # {}
  <2>1. PICK p \in S : TRUE
    BY <1>2
  <2>2. S = {p}
    BY <2>1
  <2>3. Cardinality({p}) = 1
    BY FS_Singleton
  <2> QED
    BY <2>2, <2>3
<1> QED
  BY <1>1, <1>2

(* At first nothing listens and no process has come to the log. *)
LEMMA InitIInv == Init => IInv
<1> SUFFICES ASSUME Init PROVE IInv
  OBVIOUS
<1>1. Cardinality(listening) <= 1
  BY OneAtMost DEF Init
<1>2. TypeOK
  BY <1>1 DEF Init, TypeOK, Step
<1>3. OneListens /\ LogOpenedLast
  BY DEF Init, OneListens, LogOpenedLast
<1>4. LogInv
  BY StartupAssumption
  DEF Init, LogInv, PortFirst, LogToRename, LastKept, ServerHasBoth, Rotating
<1> QED
  BY <1>2, <1>3, <1>4 DEF IInv

(* The end of a process, at any step, frees the port and leaves the log as *)
(* it is (exit, or a signal).                                              *)
LEMMA EndIInv ==
  ASSUME IInv, NEW p \in Process, End(p),
         disturbed \subseteq disturbed',
         disturbed' \subseteq {"call", "kill", "close"}
  PROVE  IInv'
<1>1. OneListens' /\ LogOpenedLast'
  BY DEF IInv, TypeOK, OneListens, LogOpenedLast, End, Go, logs
<1>2. TypeOK'
  <2>1. Cardinality(listening') <= 1
    BY <1>1, OneAtMost DEF OneListens
  <2> QED
    BY <2>1 DEF IInv, TypeOK, End, Go, logs, Step
<1>3. ASSUME "close" \notin disturbed' PROVE LogInv'
  <2>1. LogInv
    BY <1>3 DEF IInv
  <2>2. PortFirst' /\ LogToRename'
    BY <2>1
    DEF IInv, TypeOK, LogInv, PortFirst, LogToRename, Rotating, End, Go, logs
  <2>3. LastKept' /\ ServerHasBoth'
    BY <2>1
    DEF IInv, TypeOK, LogInv, LastKept, ServerHasBoth, End, Go, logs
  <2> QED
    BY <2>2, <2>3 DEF LogInv
<1> QED
  BY <1>1, <1>2, <1>3 DEF IInv

(* Steps before the process listens touch neither the listening socket nor *)
(* the log (prepare_start, get_welcome_mes, socket, bind).                 *)
LEMMA EarlyIInv ==
  ASSUME IInv, NEW p \in Process,
         NEW to \in {"prepare", "mkdir", "welcome", "database", "socket", "bind",
                 "listen"},
         pc[p] \notin {"serve", "ended"}, Go(p, to),
         storage' \in BOOLEAN, welcome' \in BOOLEAN,
         UNCHANGED <<listening, logs, disturbed>>
  PROVE  IInv'
<1>1. OneListens' /\ LogOpenedLast'
  BY DEF IInv, TypeOK, OneListens, LogOpenedLast, Go, logs
<1>2. TypeOK'
  BY DEF IInv, TypeOK, Go, logs, Step
<1>3. ASSUME "close" \notin disturbed' PROVE LogInv'
  <2>1. LogInv
    BY <1>3 DEF IInv
  <2>2. PortFirst' /\ LogToRename'
    BY <2>1
    DEF IInv, TypeOK, LogInv, PortFirst, LogToRename, Rotating, Go, logs
  <2>3. LastKept' /\ ServerHasBoth'
    BY <2>1
    DEF IInv, TypeOK, LogInv, LastKept, ServerHasBoth, Go, logs
  <2> QED
    BY <2>2, <2>3 DEF LogInv
<1> QED
  BY <1>1, <1>2, <1>3 DEF IInv

(* main() until the process has a socket on the port. *)
LEMMA BeforeListenIInv ==
  ASSUME IInv, NEW p \in Process,
         Start(p) \/ Prepare(p) \/ Mkdir(p) \/ GetWelcome(p) \/ Proceed(p) \/ Bind(p)
  PROVE  IInv'
<1>1. CASE Start(p)
  BY <1>1, EarlyIInv DEF Start, IInv, TypeOK
<1>2. CASE Prepare(p)
  BY <1>2, EarlyIInv, AfterCalls DEF Prepare, Advance, IInv, TypeOK
<1>3. CASE Mkdir(p)
  <2>1. CASE storage
    BY <1>3, <2>1, EndIInv DEF Mkdir, IInv, TypeOK
  <2>2. CASE ~storage
    BY <1>3, <2>2, EarlyIInv, AfterCalls DEF Mkdir, Advance, IInv, TypeOK
  <2> QED
    BY <2>1, <2>2
<1>4. CASE GetWelcome(p)
  <2>1. CASE ~welcome
    BY <1>4, <2>1, EndIInv DEF GetWelcome, IInv, TypeOK
  <2>2. CASE welcome
    BY <1>4, <2>2, EarlyIInv, AfterCalls
    DEF GetWelcome, Advance, IInv, TypeOK
  <2> QED
    BY <2>1, <2>2
<1>5. CASE Proceed(p)
  BY <1>5, EarlyIInv, AfterCalls DEF Proceed, Advance, IInv, TypeOK
<1>6. CASE Bind(p)
  <2>1. CASE listening # {}
    BY <1>6, <2>1, EndIInv DEF Bind, IInv, TypeOK
  <2>2. CASE listening = {}
    BY <1>6, <2>2, EarlyIInv, AfterCalls DEF Bind, Advance, IInv, TypeOK
  <2> QED
    BY <2>1, <2>2
<1> QED
  BY <1>1, <1>2, <1>3, <1>4, <1>5, <1>6

(* listen() succeeds for one process only: nobody else can be at the log.  *)
LEMMA ListenIInv ==
  ASSUME IInv, NEW p \in Process, Listen(p)
  PROVE  IInv'
<1>1. CASE listening # {}
  BY <1>1, EndIInv DEF Listen, IInv, TypeOK
<1>2. CASE listening = {}
  <2>1. pc' = [pc EXCEPT ![p] = "log"]
    BY <1>2, AfterCalls DEF Listen, Advance, Go
  <2>2. OneListens' /\ LogOpenedLast'
    BY <1>2, <2>1
    DEF Listen, IInv, TypeOK, OneListens, LogOpenedLast, logs
  <2>3. TypeOK'
    <3>1. Cardinality(listening') <= 1
      BY <2>2, OneAtMost DEF OneListens
    <3> QED
      BY <1>2, <2>1, <3>1 DEF Listen, IInv, TypeOK, Step, logs
  <2>4. ASSUME "close" \notin disturbed' PROVE LogInv'
    <3>1. LogInv
      BY <1>2, <2>4 DEF IInv, Listen
    <3>2. PortFirst' /\ LogToRename'
      BY <1>2, <2>1, <3>1
      DEF Listen, IInv, TypeOK, LogInv, PortFirst, LogToRename, Rotating, logs
    <3>3. LastKept' /\ ServerHasBoth'
      BY <1>2, <2>1, <3>1
      DEF Listen, IInv, TypeOK, LogInv, LastKept, ServerHasBoth, logs
    <3> QED
      BY <3>2, <3>3 DEF LogInv
  <2> QED
    BY <2>2, <2>3, <2>4 DEF IInv
<1> QED
  BY <1>1, <1>2

(* A process that rotates is the only one that serves or rotates: it alone *)
(* listens (main: listen() comes before init_log_file()).                  *)
LEMMA RotatesAlone ==
  ASSUME IInv, "close" \notin disturbed, NEW p \in Process, pc[p] \in Rotating,
         NEW q \in Process, pc[q] \in Rotating \cup {"serve"}
  PROVE  q = p
BY DEF IInv, LogInv, PortFirst, OneListens

(* The log is created, at the first attempt or after the rotation: it is   *)
(* the one of the process, and the backup is the one before it.            *)
LEMMA OpenedIInv ==
  ASSUME IInv, NEW p \in Process, pc[p] \in {"log", "create"}, log = Missing,
         Opened(p), UNCHANGED <<storage, welcome, listening, old, disturbed>>
  PROVE  IInv'
<1>1. pc' = [pc EXCEPT ![p] = "serve"]
  BY AfterCalls DEF Opened, Advance, Go
<1>2. OneListens' /\ LogOpenedLast'
  BY <1>1 DEF Opened, IInv, TypeOK, OneListens, LogOpenedLast
<1>3. TypeOK'
  BY <1>1 DEF Opened, IInv, TypeOK, Step
<1>4. ASSUME "close" \notin disturbed' PROVE LogInv'
  <2>1. LogInv
    BY <1>4 DEF IInv
  <2>2. PortFirst'
    BY <1>1, <2>1 DEF IInv, TypeOK, LogInv, PortFirst, Rotating
  <2>3. log' = p /\ last' = p /\ p # Missing
    BY StartupAssumption DEF Opened
  <2>4. LogToRename' /\ LastKept'
    BY <2>3 DEF LogToRename, LastKept
  <2>5. ServerHasBoth'
    <3> SUFFICES ASSUME NEW q \in Process, pc'[q] = "serve", fd'[q] = "log"
                 PROVE  /\ log' = q
                        /\ before'[q] # Missing => old' = before'[q]
      BY DEF ServerHasBoth
    <3>1. q = p
      BY <1>1, <1>4, RotatesAlone DEF IInv, TypeOK, Rotating
    <3>2. before'[p] = last
      BY DEF Opened, IInv, TypeOK
    <3>3. last # Missing => old' = last
      BY <2>1 DEF LogInv, LastKept
    <3> QED
      BY <2>3, <3>1, <3>2, <3>3
  <2> QED
    BY <2>2, <2>4, <2>5 DEF LogInv
<1> QED
  BY <1>2, <1>3, <1>4 DEF IInv

(* The other steps of a rotation move the log at most once, onto a backup  *)
(* that is removed or empty by then, and never once it is moved.           *)
LEMMA RotateIInv ==
  ASSUME IInv, NEW p \in Process,
         NEW to \in {"open old", "unlink", "rename", "create", "serve"},
         pc[p] \in Rotating, Go(p, to),
         fd' = fd \/ fd' = [fd EXCEPT ![p] = "garbage"],
         disturbed \subseteq disturbed',
         disturbed' \subseteq {"call", "kill", "close"},
         log' \in {log, Missing}, old' \in {old, log, Missing, Nobody},
         "close" \notin disturbed' =>
           /\ to \in {"open old", "unlink", "rename"} => log' # Missing
           /\ \/ UNCHANGED <<log, old>>
              \/ log # Missing /\ (log' = log \/ (log' = Missing /\ old' = log)),
         UNCHANGED <<storage, welcome, listening, last, before>>
  PROVE  IInv'
<1>1. OneListens' /\ LogOpenedLast'
  BY DEF IInv, TypeOK, OneListens, LogOpenedLast, Go, Rotating
<1>2. TypeOK'
  BY DEF IInv, TypeOK, Go, Step
<1>3. ASSUME "close" \notin disturbed' PROVE LogInv'
  <2>1. LogInv /\ "close" \notin disturbed
    BY <1>3 DEF IInv
  <2>2. \A q \in Process : pc[q] \in Rotating \cup {"serve"} => q = p
    BY <2>1, RotatesAlone
  <2>3. PortFirst'
    BY <2>1 DEF IInv, TypeOK, LogInv, PortFirst, Rotating, Go
  <2>4. LogToRename'
    BY <1>3, <2>1, <2>2 DEF IInv, TypeOK, LogToRename, Rotating, Go
  <2>5. LastKept'
    BY <1>3, <2>1 DEF LogInv, LastKept
  <2>6. ServerHasBoth'
    <3>1. fd'[p] # "log"
      BY DEF IInv, TypeOK, LogOpenedLast, Rotating
    <3>2. \A q \in Process : pc'[q] = "serve" => q = p
      BY <2>2 DEF IInv, TypeOK, Go
    <3> QED
      BY <3>1, <3>2 DEF ServerHasBoth
  <2> QED
    BY <2>3, <2>4, <2>5, <2>6 DEF LogInv
<1> QED
  BY <1>1, <1>2, <1>3 DEF IInv

(* init_log_file, when no call of it fails. *)
LEMMA LogIInv ==
  ASSUME IInv, NEW p \in Process,
         OpenLog(p) \/ OpenOld(p) \/ Unlink(p) \/ Rename(p) \/ Create(p)
  PROVE  IInv'
<1>0. disturbed \subseteq {"call", "kill", "close"}
  BY DEF IInv, TypeOK
<1> DEFINE toRename == {"open old", "unlink", "rename"}
<1>1. "close" \notin disturbed /\ pc[p] \in toRename => log # Missing
  BY DEF IInv, LogInv, LogToRename
<1>2. CASE OpenLog(p)
  <2>1. CASE log = Missing
    BY <1>2, <2>1, OpenedIInv DEF OpenLog
  <2>2. CASE log # Missing
    BY <1>0, <1>2, <2>2, RotateIInv DEF OpenLog, Rotating, logs
  <2> QED
    BY <2>1, <2>2
<1>3. CASE OpenOld(p) \/ Unlink(p)
  BY <1>0, <1>3, <1>1, RotateIInv DEF OpenOld, Unlink, Rotating
<1>4. CASE Rename(p)
  BY <1>0, <1>4, <1>1, RotateIInv DEF Rename, Rotating
<1>5. CASE Create(p)
  <2>1. CASE log = Missing
    BY <1>5, <2>1, OpenedIInv DEF Create
  <2>2. CASE log # Missing
    BY <1>0, <1>5, <2>2, AfterCalls, RotateIInv
    DEF Create, Advance, Rotating, logs
  <2> QED
    BY <2>1, <2>2
<1> QED
  BY <1>2, <1>3, <1>4, <1>5

(* A call that fails, also the close() of a descriptor that was never      *)
(* opened, and a signal.                                                   *)
LEMMA FailureIInv ==
  ASSUME IInv, NEW p \in Process, CallFails(p) \/ ClosesSocket(p) \/ Kill(p)
  PROVE  IInv'
<1>0. disturbed \subseteq {"call", "kill", "close"}
  BY DEF IInv, TypeOK
<1>1. CASE Kill(p)
  BY <1>0, <1>1, EndIInv DEF Kill
<1>2. CASE CallFails(p)
  <2>1. "close" \notin disturbed /\ pc[p] \in {"open old", "unlink"}
          => log # Missing
    BY DEF IInv, LogInv, LogToRename
  <2>2. CASE LogCallFails(p)
    BY <1>0, <1>2, <2>1, <2>2, AfterCalls, RotateIInv
    DEF CallFails, LogCallFails, Advance, Rotating
  <2>3. CASE ~LogCallFails(p)
    BY <1>0, <1>2, <2>3, EndIInv DEF CallFails
  <2> QED
    BY <2>2, <2>3
<1>3. CASE ClosesSocket(p)
  <2>1. OneListens' /\ LogOpenedLast'
    BY <1>3 DEF ClosesSocket, IInv, TypeOK, OneListens, LogOpenedLast, Go, logs
  <2>2. TypeOK'
    <3>1. Cardinality(listening') <= 1
      BY <2>1, OneAtMost DEF OneListens
    <3> QED
      BY <1>3, <3>1 DEF ClosesSocket, IInv, TypeOK, Go, logs, Step
  <2> QED
    BY <1>3, <2>1, <2>2 DEF ClosesSocket, IInv
<1> QED
  BY <1>1, <1>2, <1>3

(* IInv holds in every state, for any number of processes. *)
THEOREM Invariance == Spec => []IInv
<1>1. ASSUME IInv, [Next]_vars PROVE IInv'
  <2>1. CASE Next
    <3>1. PICK p \in Process :
            Start(p) \/ Main(p) \/ CallFails(p) \/ ClosesSocket(p) \/ Kill(p)
      BY <2>1 DEF Next
    <3>2. CASE Start(p) \/ Main(p)
      BY <1>1, <3>2, BeforeListenIInv, ListenIInv, LogIInv DEF Main
    <3>3. CASE CallFails(p) \/ ClosesSocket(p) \/ Kill(p)
      BY <1>1, <3>3, FailureIInv
    <3> QED
      BY <3>1, <3>2, <3>3
  <2>2. CASE UNCHANGED vars
    BY <1>1, <2>2
    DEF vars, logs, IInv, TypeOK, OneListens, LogOpenedLast, LogInv, PortFirst,
        LogToRename, LastKept, ServerHasBoth
  <2> QED
    BY <1>1, <2>1, <2>2
<1> QED
  BY <1>1, InitIInv, PTL DEF Spec

(* The types, and that the port is the lock: one process listens at most   *)
(* (start_server).                                                         *)
THEOREM TypeCorrect == Spec => []TypeOK
<1>1. IInv => TypeOK
  BY DEF IInv
<1> QED
  BY <1>1, Invariance, PTL

(* A server's log keeps its name while others are started beside it (main, *)
(* init_log_file).                                                         *)
THEOREM LogOfServer == Spec => []LogIsOwn
<1>1. IInv => LogIsOwn
  BY DEF IInv, LogInv, ServerHasBoth, LogIsOwn, HasLog, Serving
<1> QED
  BY <1>1, Invariance, PTL

(* The last log survives every rotation that fails or is cut short         *)
(* (init_log_file).                                                        *)
THEOREM LastLog == Spec => []LastLogKept
<1>1. IInv => LastLogKept
  BY DEF IInv, LogInv, LastKept, LastLogKept
<1> QED
  BY <1>1, Invariance, PTL

(* A server has the log before its own as the backup (init_log_file). *)
THEOREM BackupOfServer == Spec => []BackupKept
<1>1. IInv => BackupKept
  BY DEF IInv, LogInv, ServerHasBoth, BackupKept, HasLog, Serving
<1> QED
  BY <1>1, Invariance, PTL
=============================================================================
