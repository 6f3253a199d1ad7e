----------------------------- MODULE UsersProofs -----------------------------
(***************************************************************************)
(* Accounts and the sessions that use them, for any number of either, any  *)
(* names and passwords, and both databases.                                *)
(***************************************************************************)
EXTENDS Users, TLAPS

(* The registrations that were answered "ok" are in the table (stronger    *)
(* than AcceptedAccountsEnter: also those with a reserved name).           *)
AcceptedStored ==
  ~lost => \A a \in accepted : Matching(a.name, a.pass) # {}

IInv ==
  /\ TypeOK
  /\ AccountsDistinct
  /\ SessionIsItsUser
  /\ AcceptedStored
  /\ RefusalIsTrue

(* UsersAssumption, its parts. *)
LEMMA Parameters ==
  Name \subseteq Line /\ Garbage \subseteq Int /\ MaxUsers \in Nat
BY UsersAssumption

(* What db_user_create returns, over either database: a row is added only  *)
(* when name and email are free, a positive result is the id of the next   *)
(* row, and -2 and -3 are returned for the reason they stand for.          *)
LEMMA CreatedOutcome ==
  ASSUME TypeOK, NEW a \in Account, NEW c \in Created(a)
  PROVE  /\ \/ c.users = users
            \/ /\ c.users = Append(users, a)
               /\ c.res = Len(users) + 1
               /\ ~NameTaken(a.name) /\ ~EmailTaken(a.email)
         /\ c.res \in Int
         /\ c.res > 0 => c.res = Len(users) + 1
         /\ c.res = -2 => NameTaken(a.name)
         /\ c.res = -3 => EmailTaken(a.email)
<1>1. Len(users) \in Nat
  BY DEF TypeOK
<1>2. CASE db = "sqlite"
  BY <1>1, <1>2 DEF Created, SqliteCreates, Stored, Refused
<1>3. CASE db # "sqlite"
  BY <1>1, <1>3 DEF Created, PostgresCreates, Stored, Refused
<1> QED
  BY <1>2, <1>3

(* A row that is added comes behind all others, which keep their ids. *)
LEMMA AddedRow ==
  ASSUME users \in Seq(Account), NEW a \in Account, users' = Append(users, a)
  PROVE  /\ users' \in Seq(Account)
         /\ Len(users') = Len(users) + 1
         /\ DOMAIN users' = DOMAIN users \cup {Len(users) + 1}
         /\ \A i \in DOMAIN users : users'[i] = users[i]
         /\ users'[Len(users) + 1] = a
         /\ Len(users) \in Nat
OBVIOUS

(* The session that takes a step, when the table stays as it is. *)
LEMMA SessionIInv ==
  ASSUME IInv, NEW d \in Sd, NEW s \in Session, Become(d, s),
         UNCHANGED <<db, users, accepted, lost>>,
         s.state = "OP_WAIT" /\ ~lost =>
           \/ s.uname = "anonymous" /\ s.reply = "welcome"
           \/ /\ s.uid \in DOMAIN users
              /\ users[s.uid].name = s.uname
              /\ users[s.uid].pass = s.asked.pass,
         s.reply = "name exists" => NameTaken(s.asked.name),
         s.reply = "email exists" => EmailTaken(s.asked.email)
  PROVE  IInv'
<1>1. /\ sessions' \in [Sd -> Session]
      /\ \A e \in Sd : sessions'[e] = IF e = d THEN s ELSE sessions[e]
  BY DEF Become, IInv, TypeOK
<1>2. TypeOK'
  BY <1>1 DEF IInv, TypeOK
<1>3. AccountsDistinct' /\ AcceptedStored'
  BY DEF IInv, AccountsDistinct, AcceptedStored, Matching
<1>4. /\ sessions'[d] = s /\ users' = users /\ (lost' <=> lost)
       /\ \A e \in Sd \ {d} : sessions'[e] = sessions[e]
  BY <1>1
<1>5. SessionIsItsUser'
  <2>1. ASSUME NEW e \in Sd, sessions'[e].state = "OP_WAIT", ~lost
        PROVE  \/ /\ sessions'[e].uname = "anonymous"
                  /\ sessions'[e].reply = "welcome"
               \/ /\ sessions'[e].uid \in DOMAIN users
                  /\ users[sessions'[e].uid].name = sessions'[e].uname
                  /\ users[sessions'[e].uid].pass = sessions'[e].asked.pass
    <3>1. CASE e = d
      BY <1>4, <2>1, <3>1
    <3>2. CASE e # d
      BY <1>4, <2>1, <3>2 DEF IInv, SessionIsItsUser, InState
    <3> QED
      BY <3>1, <3>2
  <2> QED
    BY <1>4, <2>1 DEF SessionIsItsUser, InState
<1>6. RefusalIsTrue'
  <2>1. ASSUME NEW e \in Sd
        PROVE  /\ sessions'[e].reply = "name exists" =>
                    NameTaken(sessions'[e].asked.name)
               /\ sessions'[e].reply = "email exists" =>
                    EmailTaken(sessions'[e].asked.email)
    <3>1. CASE e = d
      BY <1>4, <3>1
    <3>2. CASE e # d
      BY <1>4, <3>2 DEF IInv, RefusalIsTrue
    <3> QED
      BY <3>1, <3>2
  <2> QED
    <3>1. \A x : NameTaken(x)' <=> NameTaken(x)
      BY <1>4 DEF NameTaken
    <3>2. \A x : EmailTaken(x)' <=> EmailTaken(x)
      BY <1>4 DEF EmailTaken
    <3> QED
      BY <2>1, <3>1, <3>2 DEF RefusalIsTrue
<1> QED
  BY <1>2, <1>3, <1>5, <1>6 DEF IInv

(* make_new_session, close_session, process_user_name and a login that is  *)
(* refused.                                                                *)
LEMMA EntryIInv ==
  ASSUME IInv, NEW d \in Sd,
         \/ Connect(d) \/ Close(d) \/ RegisterMalformed(d) \/ EnterAnonymous(d)
         \/ \E l \in Line : EnterName(d, l)
         \/ LogInFails(d)
  PROVE  IInv'
<1> DEFINE old == sessions[d]
<1>0. old \in Session
  BY DEF IInv, TypeOK
<1>1. CASE Connect(d)
  <2>1. PICK g \in Garbage :
          Become(d, [NullSession EXCEPT !.state = "OP_LOGIN_USR", !.uid = g,
                                        !.privileges = g])
    BY <1>1 DEF Connect
  <2> DEFINE s == [NullSession EXCEPT !.state = "OP_LOGIN_USR", !.uid = g,
                                      !.privileges = g]
  <2>2. s \in Session /\ s.state = "OP_LOGIN_USR" /\ s.reply = ""
    BY UsersAssumption DEF Session, NullSession, Nobody
  <2> QED
    BY <1>1, <2>1, <2>2, SessionIInv DEF Connect
<1>2. CASE Close(d)
  <2>1. /\ NullSession \in Session
        /\ NullSession.state = "NULL" /\ NullSession.reply = ""
    BY DEF Session, NullSession, Nobody
  <2> QED
    BY <1>2, <2>1, SessionIInv DEF Close
<1>3. CASE RegisterMalformed(d)
  <2> DEFINE s == [old EXCEPT !.reply = "", !.asked = Nobody]
  <2>1. s \in Session /\ s.state = old.state /\ s.reply = ""
    BY <1>0 DEF Session
  <2> QED
    BY <1>3, <2>1, SessionIInv DEF RegisterMalformed, InState
<1>4. CASE EnterAnonymous(d)
  <2> DEFINE s == [old EXCEPT !.state = "OP_WAIT", !.reply = "welcome",
                              !.uname = "anonymous", !.asked = Nobody]
  <2>1. s \in Session /\ s.uname = "anonymous" /\ s.reply = "welcome"
    BY <1>0 DEF Session
  <2> QED
    BY <1>4, <2>1, SessionIInv DEF EnterAnonymous
<1>5. ASSUME NEW l \in Line, EnterName(d, l) PROVE IInv'
  <2> DEFINE s == [old EXCEPT !.state = "OP_LOGIN_PSS", !.reply = "",
                              !.uname = l, !.asked = Nobody]
  <2>1. s \in Session /\ s.state = "OP_LOGIN_PSS" /\ s.reply = ""
    BY <1>0 DEF Session
  <2> QED
    BY <1>5, <2>1, SessionIInv DEF EnterName
<1>6. CASE LogInFails(d)
  <2> DEFINE s == [old EXCEPT !.state = "OP_LOGIN_USR", !.reply = "again"]
  <2>1. s \in Session /\ s.state = "OP_LOGIN_USR" /\ s.reply = "again"
    BY <1>0 DEF Session
  <2> QED
    BY <1>6, <2>1, SessionIInv DEF LogInFails
<1> QED
  BY <1>1, <1>2, <1>3, <1>4, <1>5, <1>6

(* A login takes the id of a row with the name and the password (login,    *)
(* db_user_auth).                                                          *)
LEMMA LogInIInv ==
  ASSUME IInv, NEW d \in Sd, NEW p \in Pass, LogIn(d, p)
  PROVE  IInv'
<1> DEFINE old == sessions[d]
<1>0. PICK i \in Matching(old.uname, p) : \E v \in PrivilegesRead(i) :
        Become(d, [old EXCEPT !.state = "OP_WAIT", !.reply = "welcome",
                              !.uid = i, !.privileges = v,
                              !.asked = [name |-> old.uname, pass |-> p,
                                         email |-> ""]])
  BY DEF LogIn
<1>1. PICK v \in PrivilegesRead(i) :
        Become(d, [old EXCEPT !.state = "OP_WAIT", !.reply = "welcome",
                              !.uid = i, !.privileges = v,
                              !.asked = [name |-> old.uname, pass |-> p,
                                         email |-> ""]])
  BY <1>0
<1>2. old \in Session /\ old.state = "OP_LOGIN_PSS"
  BY DEF IInv, TypeOK, LogIn, InState
<1>3. /\ i \in DOMAIN users /\ i \in Int
      /\ users[i].name = old.uname /\ users[i].pass = p
      /\ users[i] \in Account
  BY DEF IInv, TypeOK, Matching
<1>4. v \in Int
  <2>1. users[i].privileges \in Int
    BY <1>3 DEF Account
  <2>2. v \in {0, users[i].privileges} \cup Garbage
    BY DEF PrivilegesRead
  <2>3. Garbage \subseteq Int
    BY Parameters
  <2>4. {0, users[i].privileges} \subseteq Int
    BY <2>1
  <2> QED
    BY <2>2, <2>3, <2>4
<1> DEFINE asked == [name |-> old.uname, pass |-> p, email |-> ""]
           s == [old EXCEPT !.state = "OP_WAIT", !.reply = "welcome",
                            !.uid = i, !.privileges = v, !.asked = asked]
<1>5. old.uname \in Line
  BY <1>3, UsersAssumption DEF Account
<1>6. asked \in [name : Line, pass : Pass, email : Email \cup {""}]
  BY <1>5
<1>7. /\ s \in Session
      /\ s.uid = i /\ s.uname = old.uname /\ s.asked.pass = p
      /\ s.reply = "welcome"
  BY <1>2, <1>3, <1>4, <1>6 DEF Session
<1> QED
  BY <1>1, <1>3, <1>7, SessionIInv DEF LogIn

(* create_user: what a session is after "ok". *)
LEMMA RegisteredSession ==
  ASSUME NEW t \in Session, NEW n \in Line, NEW id \in Int, NEW v \in Int
  PROVE  [t EXCEPT !.state = "OP_WAIT", !.reply = "ok", !.uname = n,
                   !.uid = id, !.privileges = v] \in Session
BY DEF Session

(* A registration adds one row, behind the others, or none; the session    *)
(* that is told "ok" takes the id of that row (create_user).               *)
LEMMA RegisterIInv ==
  ASSUME IInv, NEW d \in Sd, NEW n \in Name, NEW p \in Pass, NEW e \in Email,
         Register(d, n, p, e)
  PROVE  IInv'
<1> DEFINE a == [name |-> n, pass |-> p, email |-> e, privileges |-> 1]
           asked == [name |-> n, pass |-> p, email |-> e]
           old == sessions[d]
           t == [old EXCEPT !.asked = asked]
<1>1. PICK c \in Created(a) :
        /\ Len(c.users) <= MaxUsers
        /\ users' = c.users
        /\ lost' = (lost \/ (c.res > 0 /\ c.users = users))
        /\ IF c.res > 0
           THEN /\ Become(d, [t EXCEPT
                     !.state = "OP_WAIT", !.reply = "ok", !.uname = n,
                     !.uid = c.res, !.privileges = 1])
                /\ accepted' = accepted \cup {a}
           ELSE /\ Become(d, [t EXCEPT !.reply = ReplyOf(c.res)])
                /\ UNCHANGED accepted
  BY DEF Register
<1>2. a \in Account /\ a.name = n /\ a.pass = p /\ a.email = e
  BY DEF Account
<1>3. n \in Line
  BY UsersAssumption
<1>4. /\ asked \in [name : Line, pass : Pass, email : Email \cup {""}]
      /\ asked.name = n /\ asked.pass = p /\ asked.email = e
  BY <1>3
<1> HIDE DEF a, asked
<1>5. TypeOK /\ old \in Session /\ old.state = "OP_LOGIN_USR"
  BY DEF IInv, TypeOK, Register, InState
<1>6. /\ \/ c.users = users
         \/ /\ c.users = Append(users, a)
            /\ c.res = Len(users) + 1
            /\ ~NameTaken(n) /\ ~EmailTaken(e)
      /\ c.res \in Int
      /\ c.res > 0 => c.res = Len(users) + 1
      /\ c.res = -2 => NameTaken(n)
      /\ c.res = -3 => EmailTaken(e)
  BY <1>2, <1>5, CreatedOutcome
<1>7. CASE users' = users /\ c.res <= 0
  <2> DEFINE s == [t EXCEPT !.reply = ReplyOf(c.res)]
  <2>1. /\ ReplyOf(c.res) \in {"ok", "name exists", "email exists", "error"}
        /\ ReplyOf(c.res) = "name exists" => c.res = -2
        /\ ReplyOf(c.res) = "email exists" => c.res = -3
    BY <1>6 DEF ReplyOf
  <2>2. /\ s \in Session /\ s.state = "OP_LOGIN_USR"
        /\ s.reply = ReplyOf(c.res) /\ s.asked = asked
    BY <1>5, <1>4, <2>1 DEF Session
  <2>3. Become(d, s) /\ UNCHANGED <<db, users, accepted, lost>>
    BY <1>1, <1>5, <1>6, <1>7 DEF Register, TypeOK
  <2> QED
    BY <1>6, <1>4, <2>1, <2>2, <2>3, SessionIInv
<1> DEFINE r == [t EXCEPT !.state = "OP_WAIT", !.reply = "ok", !.uname = n,
                          !.uid = c.res, !.privileges = 1]
<1>8. /\ r \in Session /\ r.reply = "ok" /\ r.uname = n /\ r.uid = c.res
      /\ r.asked.pass = p
  <2>1. t \in Session /\ t.asked = asked
    BY <1>5, <1>4 DEF Session
  <2> HIDE DEF t
  <2>2. c.res \in Int
    BY <1>6
  <2>3. r \in Session
    <3>1. 1 \in Int
      OBVIOUS
    <3> QED
      BY <1>3, <2>1, <2>2, <3>1, RegisteredSession
  <2>4. r.reply = "ok" /\ r.uname = n /\ r.uid = c.res /\ r.asked = asked
    BY <2>1 DEF Session
  <2> QED
    BY <1>4, <2>3, <2>4
<1> HIDE DEF r, t
<1>9. CASE users' = users /\ c.res > 0
  <2>1. Become(d, r) /\ lost' = TRUE /\ accepted' = accepted \cup {a} /\ db' = db
    BY <1>1, <1>9 DEF Register, r
  <2>2. \A f \in Sd : sessions'[f] = IF f = d THEN r ELSE sessions[f]
    BY <1>5, <2>1 DEF Become, TypeOK
  <2>3. TypeOK'
    BY <1>2, <1>5, <1>6, <1>8, <1>9, <2>1 DEF TypeOK, Become
  <2>4. AccountsDistinct' /\ SessionIsItsUser' /\ AcceptedStored'
    BY <1>9, <2>1 DEF IInv, AccountsDistinct, SessionIsItsUser, AcceptedStored
  <2>5. RefusalIsTrue'
    <3>1. ASSUME NEW f \in Sd
          PROVE  /\ sessions'[f].reply = "name exists" =>
                      NameTaken(sessions'[f].asked.name)
                 /\ sessions'[f].reply = "email exists" =>
                      EmailTaken(sessions'[f].asked.email)
      BY <1>8, <2>2 DEF IInv, RefusalIsTrue
    <3> QED
      BY <1>9, <3>1 DEF RefusalIsTrue, NameTaken, EmailTaken
  <2> QED
    BY <2>3, <2>4, <2>5 DEF IInv
<1>10. CASE users' = Append(users, a) /\ c.res = Len(users) + 1
           /\ ~NameTaken(n) /\ ~EmailTaken(e)
  <2>1. /\ users' \in Seq(Account)
        /\ Len(users') = Len(users) + 1
        /\ DOMAIN users' = DOMAIN users \cup {Len(users) + 1}
        /\ \A i \in DOMAIN users : users'[i] = users[i]
        /\ users'[Len(users) + 1] = a
        /\ Len(users) \in Nat
    BY <1>2, <1>5, <1>10, AddedRow DEF TypeOK
  <2>2. /\ Become(d, r) /\ lost' = lost /\ accepted' = accepted \cup {a} /\ db' = db
        /\ Len(users') <= MaxUsers
    BY <1>1, <1>5, <1>10, <2>1 DEF Register, TypeOK, r
  <2>3. \A f \in Sd : sessions'[f] = IF f = d THEN r ELSE sessions[f]
    BY <1>5, <2>2 DEF Become, TypeOK
  <2>4. TypeOK'
    BY <1>2, <1>5, <1>6, <1>8, <2>1, <2>2 DEF TypeOK, Become
  <2>5. AccountsDistinct'
    <3> SUFFICES ASSUME NEW i \in DOMAIN users', NEW j \in DOMAIN users',
                        \/ users'[i].name = users'[j].name
                        \/ users'[i].email = users'[j].email
                 PROVE  i = j
      BY DEF AccountsDistinct
    <3>1. \A k \in DOMAIN users : users[k].name # n /\ users[k].email # e
      BY <1>10 DEF NameTaken, EmailTaken
    <3> QED
      BY <1>2, <2>1, <3>1 DEF IInv, AccountsDistinct
  <2>6. SessionIsItsUser'
    <3> SUFFICES ASSUME NEW f \in Sd, sessions'[f].state = "OP_WAIT", ~lost
                 PROVE  \/ /\ sessions'[f].uname = "anonymous"
                           /\ sessions'[f].reply = "welcome"
                        \/ /\ sessions'[f].uid \in DOMAIN users'
                           /\ users'[sessions'[f].uid].name = sessions'[f].uname
                           /\ users'[sessions'[f].uid].pass
                                = sessions'[f].asked.pass
      BY <2>2 DEF SessionIsItsUser, InState
    <3>1. CASE f = d
      BY <1>2, <1>8, <1>10, <2>1, <2>3, <3>1
    <3>2. CASE f # d
      BY <2>1, <2>3, <3>2 DEF IInv, SessionIsItsUser, InState
    <3> QED
      BY <3>1, <3>2
  <2>7. AcceptedStored'
    <3> SUFFICES ASSUME NEW b \in accepted', ~lost
                 PROVE  \E i \in DOMAIN users' :
                          users'[i].name = b.name /\ users'[i].pass = b.pass
      BY <2>2 DEF AcceptedStored, Matching
    <3>1. CASE b = a
      BY <2>1, <3>1
    <3>2. CASE b \in accepted
      BY <2>1, <3>2 DEF IInv, AcceptedStored, Matching
    <3> QED
      BY <2>2, <3>1, <3>2
  <2>8. RefusalIsTrue'
    <3>1. /\ \A m : NameTaken(m) => NameTaken(m)'
          /\ \A m : EmailTaken(m) => EmailTaken(m)'
      BY <2>1 DEF NameTaken, EmailTaken
    <3> QED
      BY <1>8, <2>3, <3>1 DEF IInv, RefusalIsTrue
  <2> QED
    BY <2>4, <2>5, <2>6, <2>7, <2>8 DEF IInv
<1> QED
  BY <1>1, <1>6, <1>7, <1>9, <1>10

(* IInv holds in every state. *)
THEOREM Invariance == Spec => []IInv
<1>1. Init => IInv
  <2> SUFFICES ASSUME Init PROVE IInv
    OBVIOUS
  <2>1. NullSession \in Session /\ NullSession.state = "NULL"
        /\ NullSession.reply = ""
    BY DEF NullSession, Session, Nobody
  <2>2. users \in Seq(Account) /\ Len(users) = 0
    BY DEF Init
  <2>5. TypeOK
    <3>1. sessions \in [Sd -> Session]
      BY <2>1 DEF Init
    <3>2. Len(users) <= MaxUsers
      BY <2>2, Parameters
    <3> QED
      BY <2>2, <3>1, <3>2 DEF Init, TypeOK
  <2>3. AccountsDistinct /\ AcceptedStored
    BY DEF Init, AccountsDistinct, AcceptedStored
  <2>4. SessionIsItsUser /\ RefusalIsTrue
    BY <2>1 DEF Init, SessionIsItsUser, RefusalIsTrue, InState
  <2> QED
    BY <2>3, <2>4, <2>5 DEF IInv
<1>2. ASSUME IInv, [Next]_vars PROVE IInv'
  <2>1. CASE Next
    BY <1>2, <2>1, EntryIInv, LogInIInv, RegisterIInv DEF Next
  <2>2. CASE UNCHANGED vars
    <3> USE <1>2, <2>2 DEF vars
    <3>1. TypeOK'
      BY DEF IInv, TypeOK
    <3>2. AccountsDistinct' /\ AcceptedStored'
      BY DEF IInv, AccountsDistinct, AcceptedStored, Matching
    <3>3. SessionIsItsUser' /\ RefusalIsTrue'
      BY DEF IInv, SessionIsItsUser, RefusalIsTrue, InState, NameTaken,
             EmailTaken
    <3> QED
      BY <3>1, <3>2, <3>3 DEF IInv
  <2> QED
    BY <1>2, <2>1, <2>2
<1> QED
  BY <1>1, <1>2, PTL DEF Spec

(* Every variable has its type: ids are numbers, the table is bounded.     *)
THEOREM TypeCorrect == Spec => []TypeOK
<1>1. IInv => TypeOK
  BY DEF IInv
<1> QED
  BY <1>1, Invariance, PTL

(* No two accounts share a name or an email (db_user_create). *)
THEOREM DistinctAccounts == Spec => []AccountsDistinct
<1>1. IInv => AccountsDistinct
  BY DEF IInv
<1> QED
  BY <1>1, Invariance, PTL

(* Nobody is a user without his password (login, create_user). *)
THEOREM UserOfSession == Spec => []SessionIsItsUser
<1>1. IInv => SessionIsItsUser
  BY DEF IInv
<1> QED
  BY <1>1, Invariance, PTL

(* Of whom was told "ok" a row is there to log in with (db_user_auth). *)
THEOREM AcceptedEnter == Spec => []AcceptedAccountsEnter
<1>1. IInv => AcceptedAccountsEnter
  BY DEF IInv, AcceptedStored, AcceptedAccountsEnter
<1> QED
  BY <1>1, Invariance, PTL

(* The reason of a refusal is the true one (create_user). *)
THEOREM TrueRefusal == Spec => []RefusalIsTrue
<1>1. IInv => RefusalIsTrue
  BY DEF IInv
<1> QED
  BY <1>1, Invariance, PTL
=============================================================================
