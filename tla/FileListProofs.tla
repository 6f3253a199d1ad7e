---------------------------- MODULE FileListProofs ----------------------------
(***************************************************************************)
(* A client that pages through the file list, for tables of any length,    *)
(* pages of any length, any users and any uploads meanwhile.               *)
(*                                                                         *)
(* Everything is said with the position of a row among those that the      *)
(* query joins.  Positions only grow (PosGrows), so that what was behind   *)
(* the last page when it was read cannot slip onto a page before it        *)
(* (BegunPassed); and while no registration reveals rows they stay as they *)
(* are (PagesInPlace).  That a page which is not full is the last one is a *)
(* matter of counting (PageLength): there are m rows with a position of at *)
(* most m, unless there are no more rows at all.                           *)
(***************************************************************************)
EXTENDS FileList, FiniteSetTheorems, TLAPS

(* Sets of numbers have a least and, bounded, a greatest member. *)
LEMMA LeastNat ==
  ASSUME NEW S \in SUBSET Nat, S # {}
  PROVE  \E x \in S : \A y \in S : x <= y
<1>1. PICK x \in S : \A y \in S : ~ (<<y, x>> \in OpToRel(<, Nat))
  BY NatLessThanWellFounded, WFMin, Zenon
<1>2. \A y \in S : ~ (y < x)
  BY <1>1, Zenon DEF OpToRel
<1> QED
  BY <1>2

LEMMA GreatestNat ==
  ASSUME NEW n \in Nat, NEW S \in SUBSET (0 .. n), S # {}
  PROVE  \E x \in S : \A y \in S : y <= x
<1> DEFINE U == {m \in Nat : \A y \in S : y <= m}
<1>1. n \in U
  OBVIOUS
<1>2. PICK m \in U : \A u \in U : m <= u
  <2>1. U \in SUBSET Nat /\ U # {}
    BY <1>1
  <2> HIDE DEF U
  <2> QED
    BY <2>1, LeastNat
<1>3. m \in S
  <2> SUFFICES ASSUME m \notin S PROVE FALSE
    OBVIOUS
  <2>1. \A y \in S : y <= m - 1 /\ y \in Nat
    BY <1>2
  <2>2. m \in Nat /\ \A y \in S : y <= m
    BY <1>2
  <2>3. \E y \in S : y <= m - 1 /\ y \in Nat
    BY <1>2, <2>1
  <2>4. m - 1 \in U
    BY <2>1, <2>2, <2>3
  <2> HIDE DEF U
  <2> QED
    BY <1>2, <2>2, <2>4
<1> QED
  BY <1>2, <1>3

-----------------------------------------------------------------------------
(* Positions in a set J of ids *)

UpTo(J, i) == {j \in J : j <= i}
Pos(J, i) == Cardinality(UpTo(J, i))
First(J, m) == {j \in J : Pos(J, j) <= m}
PageOf(J, o, l) == {j \in J : Pos(J, j) - o \in 1 .. l}

LEMMA FiniteIds ==
  ASSUME NEW n \in Nat, NEW J \in SUBSET (1 .. n), NEW T \in SUBSET J
  PROVE  IsFiniteSet(T) /\ Cardinality(T) \in Nat /\ Cardinality(T) <= n
<1>1. IsFiniteSet(1 .. n) /\ Cardinality(1 .. n) = n
  BY FS_Interval
<1>2. T \in SUBSET (1 .. n)
  OBVIOUS
<1> QED
  BY <1>1, <1>2, FS_Subset, FS_CardinalityType

LEMMA PosType ==
  ASSUME NEW n \in Nat, NEW J \in SUBSET (1 .. n), NEW i
  PROVE  Pos(J, i) \in Nat /\ Pos(J, i) <= n
BY FiniteIds DEF Pos, UpTo

LEMMA PosIncreases ==
  ASSUME NEW n \in Nat, NEW J \in SUBSET (1 .. n), NEW i \in Int, NEW j \in J,
         i < j
  PROVE  Pos(J, i) < Pos(J, j)
<1>0. \A k \in J : k \in Int
  OBVIOUS
<1>1. /\ \A x \in UpTo(J, i) : x \in UpTo(J, j)
      /\ j \in UpTo(J, j) /\ j \notin UpTo(J, i)
  <2>1. \A k \in J : k <= i => k <= j
    BY <1>0
  <2>2. j <= j /\ ~ (j <= i)
    BY <1>0
  <2> QED
    BY <2>1, <2>2, Zenon DEF UpTo
<1>2. UpTo(J, i) \subseteq J /\ UpTo(J, j) \subseteq J
  BY DEF UpTo
<1>3. /\ IsFiniteSet(UpTo(J, j))
      /\ Pos(J, i) \in Nat /\ Pos(J, j) \in Nat
  BY <1>2, FiniteIds DEF Pos
<1> QED
  BY <1>1, <1>3, FS_Subset DEF Pos

LEMMA PosPositive ==
  ASSUME NEW n \in Nat, NEW J \in SUBSET (1 .. n), NEW i \in J
  PROVE  Pos(J, i) >= 1
<1>1. Pos(J, 0) < Pos(J, i)
  BY PosIncreases
<1> QED
  BY <1>1, PosType

LEMMA PosGrows ==
  ASSUME NEW n \in Nat, NEW K \in SUBSET (1 .. n), NEW J \in SUBSET K, NEW i
  PROVE  Pos(J, i) <= Pos(K, i)
<1>1. UpTo(J, i) \subseteq UpTo(K, i) /\ UpTo(K, i) \subseteq K
  BY DEF UpTo
<1>2. IsFiniteSet(UpTo(K, i))
  BY <1>1, FiniteIds
<1> QED
  BY <1>1, <1>2, FS_Subset DEF Pos

(* The greatest of the rows up to position m has all of them up to it. *)
LEMMA FirstAtMost ==
  ASSUME NEW n \in Nat, NEW J \in SUBSET (1 .. n), NEW m \in Nat
  PROVE  Cardinality(First(J, m)) <= m
<1> DEFINE S == First(J, m)
<1>1. S \subseteq J /\ \A j \in S : Pos(J, j) <= m
  BY DEF First
<1>2. CASE S = {}
  BY <1>2, FS_EmptySet
<1>3. CASE S # {}
  <2>1. PICK g \in S : \A y \in S : y <= g
    <3>1. S \in SUBSET (0 .. n)
      <4>1. \A j \in J : j \in 0 .. n
        OBVIOUS
      <4> QED
        BY <1>1, <4>1, Zenon
    <3> HIDE DEF S
    <3> QED
      BY <1>3, <3>1, GreatestNat
  <2>2. S \subseteq UpTo(J, g) /\ UpTo(J, g) \subseteq J
    BY <1>1, <2>1 DEF UpTo
  <2>3. IsFiniteSet(UpTo(J, g)) /\ Cardinality(S) \in Nat
    BY <1>1, <2>2, FiniteIds
  <2>4. Cardinality(S) <= Pos(J, g)
    BY <2>2, <2>3, FS_Subset DEF Pos
  <2>5. Pos(J, g) <= m
    BY <1>1, <2>1
  <2>6. Pos(J, g) \in Nat
    BY PosType
  <2> HIDE DEF S
  <2> QED
    BY <2>3, <2>4, <2>5, <2>6 DEF S
<1> QED
  BY <1>2, <1>3

(* The least row behind position m has none but these before it. *)
LEMMA FirstAtLeast ==
  ASSUME NEW n \in Nat, NEW J \in SUBSET (1 .. n), NEW m \in Nat,
         NEW i \in J, Pos(J, i) > m
  PROVE  Cardinality(First(J, m)) >= m
<1> DEFINE S == First(J, m)
           R == J \ S
<1>0. /\ \A j \in J : j \in Nat
      /\ \A j \in J : Pos(J, j) \in Nat
      /\ \A j \in J : j \in S <=> Pos(J, j) <= m
  BY PosType DEF First
<1> HIDE DEF S
<1>1. PICK k \in R : \A y \in R : k <= y
  <2>1. i \in R
    BY <1>0
  <2>2. R \in SUBSET Nat
    BY <1>0, Zenon
  <2> HIDE DEF R
  <2> QED
    BY <2>1, <2>2, LeastNat
<1>2. Pos(J, k) > m
  BY <1>0
<1>3. UpTo(J, k) \subseteq S \cup {k}
  <2> SUFFICES ASSUME NEW j \in J, j <= k, j # k PROVE j \in S
    BY DEF UpTo
  <2> QED
    BY <1>0, <1>1
<1>4. IsFiniteSet(S) /\ Cardinality(S) \in Nat
  <2>1. S \in SUBSET J
    BY DEF First, S
  <2> QED
    BY <2>1, FiniteIds
<1>5. IsFiniteSet(S \cup {k}) /\ Cardinality(S \cup {k}) <= Cardinality(S) + 1
  <2>1. /\ IsFiniteSet(S \cup {k})
        /\ Cardinality(S \cup {k}) =
             IF k \in S THEN Cardinality(S) ELSE Cardinality(S) + 1
    BY <1>4, FS_AddElement, Zenon
  <2> QED
    BY <1>4, <2>1
<1>6. Pos(J, k) <= Cardinality(S \cup {k})
  BY <1>3, <1>5, FS_Subset DEF Pos
<1>7. Pos(J, k) \in Nat /\ Cardinality(S \cup {k}) \in Nat
  BY <1>5, PosType, FS_CardinalityType
<1> QED
  BY <1>2, <1>4, <1>5, <1>6, <1>7 DEF S

(* LIMIT l OFFSET o: at most l rows, and l when there are rows behind. *)
LEMMA PageLength ==
  ASSUME NEW n \in Nat, NEW J \in SUBSET (1 .. n), NEW o \in Nat, NEW l \in Nat
  PROVE  /\ Cardinality(PageOf(J, o, l)) \in 0 .. l
         /\ \A i \in J : Pos(J, i) > o + l => Cardinality(PageOf(J, o, l)) = l
<1> DEFINE P == PageOf(J, o, l)
           A == First(J, o)
           B == First(J, o + l)
<1>0. o + l \in Nat
  OBVIOUS
<1>1. /\ A \in SUBSET J /\ B \in SUBSET J /\ P \in SUBSET J
      /\ \A i \in J : Pos(J, i) \in Nat
      /\ \A i \in J : i \in A <=> Pos(J, i) <= o
      /\ \A i \in J : i \in B <=> Pos(J, i) <= o + l
      /\ \A i \in J : i \in P <=> Pos(J, i) - o \in 1 .. l
  BY PosType DEF First, PageOf
<1>2. \A i \in J : Pos(J, i) > o => Cardinality(A) >= o
  BY FirstAtLeast
<1>3. \A i \in J : Pos(J, i) > o + l => Cardinality(B) >= o + l
  BY <1>0, FirstAtLeast
<1>4. Cardinality(A) <= o /\ Cardinality(B) <= o + l
  BY <1>0, FirstAtMost
<1> HIDE DEF A, B, P
<1>5. P = B \ A /\ B \cap A = A
  <2>1. \A i \in J : (i \in P <=> i \in B /\ i \notin A) /\ (i \in A => i \in B)
    BY <1>1
  <2> QED
    BY <1>1, <2>1
<1>6. /\ IsFiniteSet(B) /\ IsFiniteSet(P)
      /\ Cardinality(A) \in Nat /\ Cardinality(B) \in Nat
      /\ Cardinality(P) \in Nat
  BY <1>1, FiniteIds
<1>7. Cardinality(P) = Cardinality(B) - Cardinality(A)
  <2>1. Cardinality(B \ A) = Cardinality(B) - Cardinality(B \cap A)
    BY <1>6, FS_Difference
  <2> QED
    BY <1>5, <2>1
<1>8. Cardinality(P) \in 0 .. l
  <2>1. CASE P = {}
    <3>1. Cardinality(P) = 0
      BY <2>1, FS_EmptySet
    <3> QED
      BY <3>1
  <2>2. CASE P # {}
    <3>0. PICK p \in P : TRUE
      BY <2>2
    <3>1. p \in J /\ Pos(J, p) - o \in 1 .. l /\ Pos(J, p) \in Nat
      BY <1>1
    <3>2. Pos(J, p) > o
      BY <3>1
    <3> QED
      BY <1>2, <1>4, <1>6, <1>7, <3>1, <3>2
  <2> QED
    BY <2>1, <2>2
<1>9. ASSUME NEW i \in J, Pos(J, i) > o + l
      PROVE  Cardinality(P) = l
  <2>1. Cardinality(B) >= o + l
    BY <1>3, <1>9
  <2> QED
    BY <1>4, <1>6, <1>7, <1>8, <2>1
<1> QED
  BY <1>8, <1>9 DEF P

-----------------------------------------------------------------------------
(* The invariant *)

(* Pages that were shown are where they were, unless rows were revealed. *)
PagesInPlace ==
  ~revealed =>
    \A k \in 1 .. page : \A i \in shown[k] :
      i \in Joined /\ Position(i) - limit * (k - 1) \in 1 .. limit

(* What there was to see and is not behind page p was shown. *)
Passed(p) ==
  \A i \in begun :
    Position(i) <= limit * p => \E k \in 1 .. page : i \in shown[k]

(* Nothing is passed over while no query fails; nor by full pages. *)
BegunPassed ==
  /\ \A i \in begun : i \in Joined /\ MayList(i)
  /\ failures = 0 => Passed(page)
  /\ page > 0 /\ steady => Passed(page - 1)
  /\ page > 0 /\ steady /\ reply.count = limit => Passed(page)

IInv ==
  /\ TypeOK
  /\ Len(files) <= MaxFiles
  /\ PagesInPlace
  /\ BegunPassed
  /\ ListedAll
  /\ CountEndsListing

LEMMA JoinedIds ==
  ASSUME TypeOK
  PROVE  /\ Len(files) \in Nat
         /\ Joined \in SUBSET (1 .. Len(files))
         /\ \A i : Position(i) = Pos(Joined, i)
         /\ limit \in Nat \ {0} /\ page \in Nat
BY FileListAssumption DEF TypeOK, Joined, Position, Pos, UpTo

LEMMA InitIInv == Init => IInv
<1> SUFFICES ASSUME Init PROVE IInv
  OBVIOUS
<1>1. TypeOK /\ Len(files) <= MaxFiles
  <2>1. users \in Seq(Name) /\ limit \in Nat /\ MaxPages \in Nat
        /\ MaxFiles \in Nat
    BY FileListAssumption DEF Init
  <2>2. reply \in Reply /\ reply.count <= limit
    BY <2>1 DEF Init, Reply
  <2>3. /\ files \in Seq(File) /\ Len(files) = 0
        /\ shown \in Seq(SUBSET (1 .. MaxFiles)) /\ Len(shown) = 0
    BY DEF Init
  <2> QED
    <3>1. /\ uname \in Viewer /\ limit \in Limit
          /\ page = 0 /\ begun = {} /\ failures = 0
          /\ {steady, revealed} \subseteq BOOLEAN
      BY DEF Init
    <3>2. /\ page \in 0 .. MaxPages /\ begun \subseteq 1 .. MaxFiles
          /\ Len(files) <= MaxFiles
          /\ failures \in 0 .. MaxFailures
      BY <2>1, <2>3, <3>1, FileListAssumption
    <3> QED
      BY <2>1, <2>2, <2>3, <3>1, <3>2 DEF TypeOK
<1>2. PagesInPlace /\ BegunPassed /\ ListedAll /\ CountEndsListing
  BY DEF Init, PagesInPlace, BegunPassed, Passed, ListedAll, CountEndsListing
<1> QED
  BY <1>1, <1>2 DEF IInv

(* Rows that are added behind the others, and users. *)
LEMMA TablesGrow ==
  ASSUME IInv,
         UNCHANGED <<uname, limit, page, reply, shown, failures, begun, steady>>,
         TypeOK', Len(files') <= MaxFiles,
         Joined \subseteq Joined',
         \A i \in Joined : MayList(i) => MayList(i)',
         revealed' \/ page = 0
           \/ (~revealed /\ \A i \in Joined : Position(i)' = Position(i))
  PROVE  IInv'
<1>1. Len(files') \in Nat /\ Joined' \in SUBSET (1 .. Len(files'))
  BY DEF TypeOK, Joined
<1>2. \A i : Position(i)' = Pos(Joined', i) /\ Position(i) = Pos(Joined, i)
  BY JoinedIds DEF IInv, Position, Pos, UpTo
<1>3. \A i : Position(i) \in Nat /\ Position(i)' \in Nat
               /\ Position(i) <= Position(i)'
  <2>1. Joined \in SUBSET Joined'
    OBVIOUS
  <2>2. Joined \in SUBSET (1 .. Len(files'))
    BY <1>1, <2>1
  <2> QED
    BY <1>1, <1>2, <2>1, <2>2, PosType, PosGrows
<1>4. page \in Nat /\ limit \in Nat
  BY JoinedIds DEF IInv
<1>5. PagesInPlace'
  <2>1. CASE revealed' \/ page = 0
    BY <2>1 DEF PagesInPlace
  <2>2. CASE ~revealed /\ \A i \in Joined : Position(i)' = Position(i)
    BY <2>2 DEF IInv, PagesInPlace
  <2> QED
    BY <2>1, <2>2
<1>6. BegunPassed'
  <2>1. ASSUME NEW p \in Nat, Passed(p)
        PROVE  Passed(p)'
    <3>1. limit * p \in Nat
      BY <1>4, <2>1
    <3>2. \A i : Position(i)' <= limit * p => Position(i) <= limit * p
      BY <1>3, <3>1
    <3> QED
      BY <2>1, <3>2 DEF Passed
  <2>2. \A i \in begun : i \in Joined /\ MayList(i)
    BY DEF IInv, BegunPassed
  <2>3. \A i \in begun' : i \in Joined' /\ MayList(i)'
    BY <2>2
  <2>4. Passed(page) => Passed(page)'
    BY <1>4, <2>1 DEF Passed
  <2>5. page > 0 /\ Passed(page - 1) => Passed(page - 1)'
    <3> SUFFICES ASSUME page > 0, Passed(page - 1) PROVE Passed(page - 1)'
      OBVIOUS
    <3> DEFINE p == page - 1
    <3>1. p \in Nat /\ p' = p
      BY <1>4
    <3>2. Passed(p)
      OBVIOUS
    <3> HIDE DEF p
    <3>3. Passed(p)'
      BY <2>1, <3>1, <3>2 DEF Passed
    <3> QED
      BY <3>3 DEF p
  <2> QED
    BY <2>3, <2>4, <2>5 DEF IInv, BegunPassed
<1>7. ListedAll' /\ CountEndsListing'
  BY DEF IInv, ListedAll, CountEndsListing, WasShown
<1> QED
  BY <1>5, <1>6, <1>7 DEF IInv

LEMMA RegisterIInv ==
  ASSUME IInv, NEW n \in Name, Register(n)
  PROVE  IInv'
<1>1. /\ users \in Seq(Name) /\ users' = Append(users, n)
      /\ UNCHANGED <<files, uname, limit, page, reply, shown, failures, begun,
                     steady>>
  BY DEF IInv, TypeOK, Register, listing
<1>2. /\ users' \in Seq(Name) /\ Len(users) \in Nat
      /\ Len(users') = Len(users) + 1
      /\ \A i \in 1 .. Len(users) : users'[i] = users[i]
      /\ \A i \in 1 .. Len(users) : i \in 1 .. Len(users')
  BY <1>1
<1>3. revealed' \in BOOLEAN
  BY DEF IInv, TypeOK, Register
<1>4. TypeOK' /\ Len(files') <= MaxFiles
  BY <1>1, <1>2, <1>3 DEF IInv, TypeOK
<1>5. Joined \subseteq Joined'
  BY <1>1, <1>2 DEF Joined
<1>6. \A i \in Joined : MayList(i) => MayList(i)'
  BY <1>1, <1>2 DEF Joined, MayList
<1>7. ASSUME ~revealed', page # 0
      PROVE  ~revealed /\ \A i \in Joined : Position(i)' = Position(i)
  <2>1. ~revealed /\ ~ \E i \in 1 .. Len(files) : files[i].uid = Len(users')
    BY <1>7, JoinedIds DEF Register, IInv
  <2>2. Joined' = Joined
    BY <1>1, <1>2, <2>1 DEF Joined, IInv, TypeOK, File
  <2> QED
    BY <2>1, <2>2 DEF Position
<1> QED
  BY <1>1, <1>4, <1>5, <1>6, <1>7, TablesGrow

LEMMA SaveFileIInv ==
  ASSUME IInv, NEW f \in File, SaveFile(f)
  PROVE  IInv'
<1>1. /\ files \in Seq(File) /\ files' = Append(files, f)
      /\ Len(files) < MaxFiles
      /\ UNCHANGED <<users, uname, limit, page, reply, shown, failures, begun,
                     steady, revealed>>
  BY DEF IInv, TypeOK, SaveFile, listing
<1>2. /\ files' \in Seq(File) /\ Len(files) \in Nat
      /\ Len(files') = Len(files) + 1
      /\ \A i \in 1 .. Len(files) : files'[i] = files[i]
      /\ \A i \in 1 .. Len(files) : i \in 1 .. Len(files')
  BY <1>1
<1>4. TypeOK' /\ Len(files') <= MaxFiles
  BY <1>1, <1>2, FileListAssumption DEF IInv, TypeOK
<1>5. Joined \subseteq Joined'
  BY <1>1, <1>2 DEF Joined
<1>6. \A i \in Joined : MayList(i) => MayList(i)'
  BY <1>1, <1>2 DEF Joined, MayList
<1>7. \A i \in Joined : Position(i)' = Position(i)
  <2> TAKE i \in Joined
  <2>1. {j \in Joined : j <= i} = {j \in Joined' : j <= i}
    <3>1. i \in 1 .. Len(files)
      BY DEF Joined
    <3>2. \A j \in 1 .. Len(files') : j <= i => j \in 1 .. Len(files)
      BY <1>2, <3>1
    <3>3. \A j \in Joined' : j <= i => j \in Joined
      BY <1>1, <1>2, <3>2 DEF Joined
    <3> QED
      BY <1>5, <3>3
  <2> QED
    BY <2>1 DEF Position
<1> QED
  BY <1>1, <1>4, <1>5, <1>6, <1>7, TablesGrow DEF IInv, TypeOK

(* The next page, of which k rows were read; what is told of it is 0, or   *)
(* what was read of what there is.                                         *)
PageRead(k, count, full) ==
  /\ Listed(FirstRows(page + 1, k), count, full)
  /\ k \in 0 .. limit /\ count \in 0 .. limit /\ full \in Int
  /\ count = limit => k = limit
  /\ count # 0 => full = Len(files) /\ count <= k
  /\ failures' \in 0 .. MaxFailures
  /\ failures' = 0 =>
       /\ failures = 0 /\ k = limit
       /\ count = Cardinality(Rows(page + 1)) /\ full = Len(files)

(* The page behind the last one. *)
LEMMA NextPage ==
  ASSUME IInv
  PROVE  /\ Offset(page + 1) = limit * page
         /\ limit * (page + 1) = limit * page + limit
         /\ limit * page \in Nat
         /\ \A i \in Joined : /\ Position(i) \in Nat /\ Position(i) >= 1
                              /\ Position(i) <= Len(files)
         /\ \A k, i : i \in FirstRows(page + 1, k) <=>
                         i \in Joined /\ Position(i) - limit * page \in 1 .. k
         /\ Cardinality(Rows(page + 1)) \in 0 .. limit
         /\ \A i \in Joined : Position(i) > limit * page + limit
                                => Cardinality(Rows(page + 1)) = limit
<1>1. /\ Len(files) \in Nat
      /\ Joined \in SUBSET (1 .. Len(files))
      /\ \A i : Position(i) = Pos(Joined, i)
      /\ limit \in Nat \ {0} /\ page \in Nat
  BY JoinedIds DEF IInv
<1>2. /\ Offset(page + 1) = limit * page
      /\ limit * (page + 1) = limit * page + limit
      /\ limit * page \in Nat
  BY <1>1 DEF Offset
<1>3. \A i \in Joined : /\ Position(i) \in Nat /\ Position(i) >= 1
                        /\ Position(i) <= Len(files)
  BY <1>1, PosType, PosPositive
<1>4. \A k, i : i \in FirstRows(page + 1, k) <=>
                  i \in Joined /\ Position(i) - limit * page \in 1 .. k
  BY <1>2 DEF FirstRows
<1>5. /\ Cardinality(Rows(page + 1)) \in 0 .. limit
      /\ \A i \in Joined : Pos(Joined, i) > limit * page + limit
                             => Cardinality(Rows(page + 1)) = limit
  <2>1. Rows(page + 1) =
          {i \in Joined : Pos(Joined, i) - limit * page \in 1 .. limit}
    BY <1>1, <1>2 DEF Rows, FirstRows
  <2>2. Rows(page + 1) = PageOf(Joined, limit * page, limit)
    BY <2>1 DEF PageOf
  <2>3. limit * page \in Nat /\ limit \in Nat
    BY <1>1, <1>2
  <2> QED
    BY <1>1, <2>2, <2>3, PageLength, Zenon
<1> QED
  BY <1>1, <1>2, <1>3, <1>4, <1>5

(* file_list, with every query answered or not. *)
LEMMA ListCases ==
  ASSUME IInv, List \/ ListCutShort \/ ListUncounted
  PROVE  \E k, count, full : PageRead(k, count, full)
<1> DEFINE c == Cardinality(Rows(page + 1))
<1>1. /\ c \in 0 .. limit /\ limit \in Nat \ {0} /\ Len(files) \in Nat
      /\ failures \in 0 .. MaxFailures /\ MaxFailures \in Nat
  BY NextPage, JoinedIds, FileListAssumption DEF IInv, TypeOK
<1>2. CASE List
  <2>1. Listed(FirstRows(page + 1, limit), c, Len(files)) /\ failures' = failures
    BY <1>2 DEF List, Rows, FullCount
  <2>2. c = Cardinality(Rows(page + 1))
    OBVIOUS
  <2> HIDE DEF c
  <2>3. PageRead(limit, c, Len(files))
    BY <1>1, <2>1, <2>2 DEF PageRead
  <2> QED
    BY <2>3
<1>3. ASSUME QueryFails
      PROVE  failures' \in 1 .. MaxFailures
  BY <1>1, <1>3 DEF QueryFails
<1>4. CASE ListCutShort
  <2>1. PICK k \in 0 .. c - 1 : Listed(FirstRows(page + 1, k), k, Len(files))
    BY <1>4 DEF ListCutShort, FullCount
  <2>2. failures' \in 1 .. MaxFailures
    BY <1>3, <1>4 DEF ListCutShort
  <2> HIDE DEF c
  <2>3. PageRead(k, k, Len(files))
    BY <1>1, <2>1, <2>2 DEF PageRead
  <2> QED
    BY <2>3
<1>5. CASE ListUncounted
  <2>1. PICK k \in 0 .. c, full \in Garbage :
          Listed(FirstRows(page + 1, k), 0, full)
    BY <1>5 DEF ListUncounted
  <2>2. failures' \in 1 .. MaxFailures
    BY <1>3, <1>5 DEF ListUncounted
  <2>3. full \in Int
    BY FileListAssumption
  <2> HIDE DEF c
  <2>4. PageRead(k, 0, full)
    BY <1>1, <2>1, <2>2, <2>3 DEF PageRead
  <2> QED
    BY <2>4
<1> QED
  BY <1>2, <1>4, <1>5

LEMMA PagesCountInt ==
  ASSUME limit \in Nat \ {0}, NEW full \in Int
  PROVE  PagesCount(full) \in Int
<1> DEFINE q == IF full >= 0 THEN full \div limit ELSE -((-full) \div limit)
<1>1. q \in Int
  <2>1. full >= 0 => full \div limit \in Int
    OBVIOUS
  <2>2. ~ (full >= 0) => -full \in Int /\ (-full) \div limit \in Int
    OBVIOUS
  <2> QED
    BY <2>1, <2>2
<1> HIDE DEF q
<1>2. PagesCount(full) \in {1, q, 1 + 1, q + 1}
  BY DEF PagesCount, q
<1> QED
  BY <1>1, <1>2

LEMMA ListTypeOK ==
  ASSUME IInv, NEW k, NEW count, NEW full, PageRead(k, count, full)
  PROVE  TypeOK'
<1>1. count \in 0 .. limit /\ full \in Int /\ failures' \in 0 .. MaxFailures
  BY DEF PageRead
<1>2. limit \in Nat \ {0} /\ page \in Nat /\ Len(files) \in Nat
  BY JoinedIds DEF IInv
<1>3. page' = page + 1 /\ page' \in 0 .. MaxPages
  BY FileListAssumption, <1>2 DEF PageRead, Listed
<1>4. reply' = [pages |-> PagesCount(full), count |-> count,
                remaining |-> Remaining(page', full)]
  BY DEF PageRead, Listed, LastLine
<1>5. PagesCount(full) \in Int
  BY <1>1, <1>2, PagesCountInt
<1>6. Remaining(page', full) \in Int
  BY <1>1, <1>2, <1>3 DEF Remaining
<1>7. reply' \in Reply /\ reply'.count <= limit
  BY <1>1, <1>2, <1>4, <1>5, <1>6 DEF Reply
<1>8. Joined \subseteq 1 .. MaxFiles
  BY <1>2, FileListAssumption DEF Joined, IInv
<1>9. /\ shown' \in Seq(SUBSET (1 .. MaxFiles)) /\ Len(shown') = page'
      /\ begun' \subseteq 1 .. MaxFiles
  <2> DEFINE now == {i \in FirstRows(page + 1, k) : MayList(i)}
  <2>1. now \in SUBSET (1 .. MaxFiles)
    BY <1>8 DEF FirstRows
  <2>2. shown' = Append(shown, now)
    BY DEF PageRead, Listed
  <2> HIDE DEF now
  <2>3. shown \in Seq(SUBSET (1 .. MaxFiles)) /\ Len(shown) = page
    BY DEF IInv, TypeOK
  <2>4. begun' \subseteq 1 .. MaxFiles
    BY <1>8 DEF PageRead, Listed, IInv, TypeOK
  <2> QED
    BY <1>3, <2>1, <2>2, <2>3, <2>4
<1>10. {steady', revealed'} \subseteq BOOLEAN
  BY DEF PageRead, Listed, IInv, TypeOK
<1>11. UNCHANGED <<users, files, uname, limit>>
  BY DEF PageRead, Listed
<1> QED
  BY <1>1, <1>3, <1>7, <1>9, <1>10, <1>11 DEF IInv, TypeOK

(* It comes behind those that were shown before. *)
LEMMA ShownNext ==
  ASSUME IInv, NEW k, NEW count, NEW full, PageRead(k, count, full)
  PROVE  /\ page' = page + 1
         /\ \A j \in 1 .. page : shown'[j] = shown[j]
         /\ shown'[page'] = {i \in FirstRows(page + 1, k) : MayList(i)}
         /\ 1 .. page' = (1 .. page) \cup {page'}
         /\ page' \in Nat \ {0}
<1> DEFINE now == {i \in FirstRows(page + 1, k) : MayList(i)}
<1>1. shown' = Append(shown, now) /\ page' = page + 1
  BY DEF PageRead, Listed
<1> HIDE DEF now
<1>2. shown \in Seq(SUBSET (1 .. MaxFiles)) /\ Len(shown) = page /\ page \in Nat
  BY DEF IInv, TypeOK
<1>3. /\ \A j \in 1 .. page : shown'[j] = shown[j]
      /\ shown'[page'] = now
      /\ 1 .. page' = (1 .. page) \cup {page'}
      /\ page' \in Nat \ {0}
  BY <1>1, <1>2
<1> QED
  BY <1>1, <1>3 DEF now

(* When what was to be seen before the page was shown, so is what is to be *)
(* seen up to the last row that was read.                                  *)
LEMMA PassedNext ==
  ASSUME IInv, NEW k, NEW count, NEW full, PageRead(k, count, full),
         page = 0 \/ Passed(page),
         NEW i \in begun', Position(i) <= limit * page + k
  PROVE  \E j \in 1 .. page' : i \in shown'[j]
<1>1. page \in Nat /\ limit \in Nat \ {0} /\ k \in 0 .. limit
  BY JoinedIds DEF IInv, PageRead
<1>2. i \in Joined /\ MayList(i)
  BY DEF PageRead, Listed, IInv, BegunPassed
<1>3. Position(i) \in Nat /\ Position(i) >= 1 /\ limit * page \in Nat
  BY <1>2, NextPage
<1>4. CASE Position(i) <= limit * page
  <2>1. page # 0
    BY <1>1, <1>3, <1>4
  <2>2. i \in begun
    BY <2>1 DEF PageRead, Listed
  <2>3. PICK j \in 1 .. page : i \in shown[j]
    BY <1>4, <2>1, <2>2 DEF Passed
  <2> QED
    BY <2>3, ShownNext
<1>5. CASE ~ (Position(i) <= limit * page)
  <2>1. Position(i) - limit * page \in 1 .. k
    BY <1>1, <1>3, <1>5
  <2>2. i \in shown'[page']
    BY <1>2, <2>1, NextPage, ShownNext
  <2> QED
    BY <2>2, ShownNext
<1> QED
  BY <1>4, <1>5

(* file_list.  What is passed by the page was on it, or on one before. *)
LEMMA ListIInv ==
  ASSUME IInv, NEW n, NEW c, NEW full, PageRead(n, c, full)
  PROVE  IInv'
<1>1. /\ UNCHANGED <<users, files, uname, limit, revealed>>
      /\ steady' = (page = 0 \/ (steady /\ reply.count = limit))
  BY DEF PageRead, Listed
<1>2. /\ Joined' = Joined /\ \A i : Position(i)' = Position(i)
      /\ \A i : MayList(i)' = MayList(i)
  BY <1>1 DEF Joined, Position, MayList
<1>3. /\ page \in Nat /\ limit \in Nat \ {0} /\ page' = page + 1
      /\ Len(files) \in Nat
      /\ n \in 0 .. limit /\ c \in 0 .. limit /\ full \in Int
  BY JoinedIds, ShownNext DEF IInv, PageRead
<1>4. PagesInPlace'
  <2> SUFFICES ASSUME ~revealed, NEW k \in 1 .. page', NEW i \in shown'[k]
               PROVE  i \in Joined /\ Position(i) - limit * (k - 1) \in 1 .. limit
    BY <1>1, <1>2 DEF PagesInPlace
  <2>1. CASE k \in 1 .. page
    BY <2>1, ShownNext DEF IInv, PagesInPlace
  <2>2. CASE k = page'
    <3>1. i \in FirstRows(page + 1, n)
      BY <2>2, ShownNext
    <3>2. k - 1 = page
      BY <1>3, <2>2
    <3>3. i \in Joined /\ Position(i) - limit * page \in 1 .. n
      BY <3>1, NextPage
    <3> QED
      BY <1>3, <3>2, <3>3
  <2> QED
    BY <2>1, <2>2, ShownNext
<1>5. \A i \in begun' : i \in Joined /\ MayList(i)
  BY DEF PageRead, Listed, IInv, BegunPassed
<1>6. steady' => page = 0 \/ Passed(page)
  <2>1. steady' => page = 0 \/ (steady /\ reply.count = limit)
    BY <1>1, Zenon
  <2>2. page > 0 /\ steady /\ reply.count = limit => Passed(page)
    BY DEF IInv, BegunPassed
  <2>3. page = 0 \/ page > 0
    BY <1>3
  <2> QED
    BY <2>1, <2>2, <2>3
<1>7. failures' = 0 => Passed(page) /\ n = limit
  BY DEF IInv, BegunPassed, PageRead
<1>8. limit * page' = limit * page + limit /\ limit * page \in Nat
  BY <1>3, NextPage
<1>9. BegunPassed'
  <2>1. n = limit /\ (page = 0 \/ Passed(page)) => Passed(page)'
    BY <1>1, <1>2, <1>8, PassedNext DEF Passed
  <2>2. steady' => Passed(page - 1)'
    <3> SUFFICES ASSUME steady', NEW i \in begun', Position(i) <= limit * page
                 PROVE  \E j \in 1 .. page' : i \in shown'[j]
      <4>1. page' - 1 = page /\ limit' = limit
        BY <1>1, <1>3
      <4> QED
        BY <1>2, <4>1 DEF Passed
    <3>1. Position(i) \in Nat
      BY <1>5, NextPage
    <3>2. Position(i) <= limit * page + n
      BY <1>3, <1>8, <3>1
    <3> QED
      BY <1>6, <3>2, PassedNext
  <2>3. reply'.count = c /\ (c = limit => n = limit)
    BY DEF PageRead, Listed, LastLine
  <2>4. failures' = 0 => Passed(page)'
    BY <1>7, <2>1
  <2>5. steady' /\ reply'.count = limit' => Passed(page)'
    BY <1>1, <1>6, <2>1, <2>3
  <2>6. \A i \in begun' : i \in Joined' /\ MayList(i)'
    BY <1>2, <1>5
  <2> QED
    BY <2>2, <2>4, <2>5, <2>6 DEF BegunPassed
<1>10. ASSUME page = 0 \/ Passed(page),
              \A i \in Joined : Position(i) <= limit * page + n
       PROVE  WasShown(begun)'
  <2>1. Len(shown') = page'
    BY ListTypeOK DEF TypeOK
  <2> QED
    BY <1>5, <1>10, <2>1, PassedNext DEF WasShown
<1>11. reply'.count = c /\ reply'.remaining = full - limit * page
  <2>1. (page' - 1) * limit = limit * page
    BY <1>3
  <2> QED
    BY <2>1 DEF PageRead, Listed, LastLine, Remaining
<1>12. ASSUME failures' = 0
       PROVE  \A i \in Joined : Position(i) > limit * page + limit => c = limit
  BY <1>12, NextPage DEF PageRead
<1>13. \A i \in Joined : Position(i) \in Nat /\ Position(i) <= Len(files)
  BY NextPage
<1>14. ListedAll'
  <2> SUFFICES ASSUME failures' = 0, c < limit PROVE WasShown(begun)'
    BY <1>1, <1>11 DEF ListedAll
  <2>1. \A i \in Joined : Position(i) <= limit * page + n
    BY <1>3, <1>7, <1>8, <1>12, <1>13
  <2> QED
    BY <1>7, <1>10, <2>1
<1>15. CountEndsListing'
  <2> SUFFICES ASSUME c = full - limit * page,
                      failures' = 0 \/ (c # 0 /\ steady')
               PROVE  WasShown(begun)'
    BY <1>11 DEF CountEndsListing
  <2>1. page = 0 \/ Passed(page)
    BY <1>6, <1>7
  <2>2. full = Len(files) /\ c <= n
    BY <1>3, <1>7 DEF PageRead
  <2>3. \A i \in Joined : Position(i) <= limit * page + n
    BY <1>3, <1>8, <1>13, <2>2
  <2> QED
    BY <1>10, <2>1, <2>3
<1> QED
  BY <1>1, <1>4, <1>9, <1>14, <1>15, ListTypeOK DEF IInv

LEMMA NextIInv == IInv /\ [Next]_vars => IInv'
<1> SUFFICES ASSUME IInv, [Next]_vars PROVE IInv'
  OBVIOUS
<1>1. CASE UNCHANGED vars
  BY <1>1 DEF vars, listing, IInv, TypeOK, PagesInPlace, BegunPassed, Passed,
              ListedAll, CountEndsListing, WasShown, Joined, Position, MayList
<1>2. CASE List \/ ListCutShort \/ ListUncounted
  BY <1>2, ListCases, ListIInv
<1> QED
  BY <1>1, <1>2, RegisterIInv, SaveFileIInv DEF Next

(* IInv holds behind every registration, upload and page (file_list). *)
THEOREM Invariance == Spec => []IInv
BY InitIInv, NextIInv, PTL DEF Spec

(* Every variable has its type, and no page is longer than the client asked *)
(* for (db_get_files_data).                                                *)
THEOREM TypeCorrect == Spec => []TypeOK
<1>1. IInv => TypeOK
  BY DEF IInv
<1> QED
  BY <1>1, Invariance, PTL

(* A row on a later page has a larger position, and so a larger id. *)
LEMMA PagesApart == IInv => ListedOnce
<1> SUFFICES ASSUME IInv, ~revealed,
                    NEW j \in 1 .. page, NEW k \in 1 .. page, j < k,
                    NEW a \in shown[j], NEW b \in shown[k]
             PROVE  a < b
  BY DEF ListedOnce, IInv, TypeOK
<1>1. /\ a \in Joined /\ Position(a) - limit * (j - 1) \in 1 .. limit
      /\ b \in Joined /\ Position(b) - limit * (k - 1) \in 1 .. limit
  BY DEF IInv, PagesInPlace
<1>2. /\ Len(files) \in Nat /\ Joined \in SUBSET (1 .. Len(files))
      /\ \A i : Position(i) = Pos(Joined, i)
      /\ limit \in Nat \ {0} /\ page \in Nat
  BY JoinedIds DEF IInv
<1>3. Position(a) \in Nat /\ Position(b) \in Nat
  BY <1>1, <1>2, PosType
<1>4. limit * (j - 1) + limit <= limit * (k - 1)
  <2>1. limit * (j - 1) + limit = limit * j
    BY <1>2
  <2>2. j <= k - 1
    OBVIOUS
  <2>3. \A x \in Int, y \in Int : x <= y => limit * x <= limit * y
    BY <1>2
  <2> QED
    BY <2>1, <2>2, <2>3
<1>5. Position(a) < Position(b)
  <2> DEFINE A == limit * (j - 1)
             B == limit * (k - 1)
  <2>1. A \in Int /\ B \in Int
    BY <1>2
  <2>2. /\ Position(a) - A \in 1 .. limit /\ Position(b) - B \in 1 .. limit
        /\ A + limit <= B
    BY <1>1, <1>4
  <2> HIDE DEF A, B
  <2> QED
    BY <1>2, <1>3, <2>1, <2>2
<1>6. a \in Int /\ b \in Int
  BY <1>1, <1>2
<1>7. ~ (b < a) /\ a # b
  <2>1. b < a => Pos(Joined, b) < Pos(Joined, a)
    BY <1>1, <1>2, <1>6, PosIncreases
  <2> QED
    BY <1>2, <1>3, <1>5, <2>1
<1> QED
  BY <1>6, <1>7

(* No file is shown twice, unless a registration reveals rows (file_list). *)
THEOREM NoFileTwice == Spec => []ListedOnce
BY PagesApart, Invariance, PTL

(* Who reads until a page is not full has missed nothing of what there was *)
(* when he began, unless a query failed (file_list).                       *)
THEOREM NoFileMissed == Spec => []ListedAll
<1>1. IInv => ListedAll
  BY DEF IInv
<1> QED
  BY <1>1, Invariance, PTL

(* Nor who reads until "COUNT: n/r" says that n are r; queries may fail    *)
(* when n is not 0 and the pages before were full (file_list).             *)
THEOREM CountTells == Spec => []CountEndsListing
<1>1. IInv => CountEndsListing
  BY DEF IInv
<1> QED
  BY <1>1, Invariance, PTL
=============================================================================
