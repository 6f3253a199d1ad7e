----------------------------- MODULE StreamProofs -----------------------------
(***************************************************************************)
(* Theorems about the bytes of Stream, for all scripts of a client and any *)
(* size of the buffer.                                                     *)
(*                                                                         *)
(* What three handlers take from the socket is what was sent, because each *)
(* moves a front part of what waits (BytesMove, ReadFileInv): StreamInv.   *)
(* Upon it: LinesInv, which lines have come; FileInv, which package the    *)
(* upload is in, and how many bytes of it are to come (Place); TellInv,    *)
(* how much of the text the description has (Told); ToCome, that a         *)
(* handler which goes on has something to wait for.                        *)
(*                                                                         *)
(* What FlattenSeq gives needs an induction over the recursive function in *)
(* it: it is done with the least index where two functions differ, or      *)
(* where there is none (FlattenNext, UpTo).                                *)
(***************************************************************************)
EXTENDS Stream, TransferProofs, SequenceTheorems, WellFoundedInduction, TLAPS

(* Least is defined on what it is applied to. *)
LEMMA LeastNat ==
  ASSUME NEW S \in SUBSET Nat, S # {}
  PROVE  Least(S) \in S /\ \A j \in S : Least(S) <= j
<1>1. PICK x \in S : \A y \in S : ~ (<<y, x>> \in OpToRel(<, Nat))
  BY NatLessThanWellFounded, WFMin, Zenon
<1>2. \A y \in S : ~ (y < x)
  BY <1>1, Zenon DEF OpToRel
<1>3. \A y \in S : x <= y
  BY <1>2
<1> QED
  BY <1>3 DEF Least

(* A sequence is its front part and the rest. *)
LEMMA Split ==
  ASSUME NEW S, NEW s \in Seq(S), NEW k \in 0 .. Len(s)
  PROVE  /\ SubSeq(s, 1, k) \in Seq(S)
         /\ Len(SubSeq(s, 1, k)) = k
         /\ SubSeq(s, k + 1, Len(s)) \in Seq(S)
         /\ Len(SubSeq(s, k + 1, Len(s))) = Len(s) - k
         /\ SubSeq(s, 1, k) \o SubSeq(s, k + 1, Len(s)) = s
<1>1. /\ SubSeq(s, 1, k) \in Seq(S)
      /\ Len(SubSeq(s, 1, k)) = k
      /\ \A i \in 1 .. k : SubSeq(s, 1, k)[i] = s[i]
  BY SubSeqProperties, LenProperties
<1>2. /\ SubSeq(s, k + 1, Len(s)) \in Seq(S)
      /\ Len(SubSeq(s, k + 1, Len(s))) = Len(s) - k
      /\ \A i \in 1 .. Len(s) - k : SubSeq(s, k + 1, Len(s))[i] = s[k + i]
  BY SubSeqProperties, LenProperties
<1>3. SubSeq(s, 1, k) \o SubSeq(s, k + 1, Len(s)) = SubSeq(s, 1, Len(s))
  <2>1. /\ 1 \in 1 .. Len(s) + 1 /\ k \in 1 - 1 .. Len(s)
        /\ Len(s) \in k .. Len(s)
    BY LenProperties
  <2> QED
    BY <2>1, ConcatAdjacentSubSeq, Zenon
<1> QED
  BY <1>1, <1>2, <1>3, SubSeqFull

-----------------------------------------------------------------------------
(* A handler reads no more than waits, and no more than fits. *)
LEMMA ReadBounds ==
  ASSUME wire \in Seq(Byte), buf \in Seq(Byte), NEW n
  PROVE  /\ n \in LineReads => n \in 1 .. Len(wire) /\ n <= INBUFSIZE - Len(buf)
         /\ n \in FileReads => n \in 1 .. Len(wire) /\ n <= INBUFSIZE
<1>1. Len(wire) \in Nat /\ Len(buf) \in Nat
  BY LenProperties
<1>2. INBUFSIZE \in Nat
  BY TransferAssumption
<1>3. n \in LineReads => n \in 1 .. Len(wire) /\ n <= INBUFSIZE - Len(buf)
  BY <1>1, <1>2 DEF LineReads, Lesser
<1>4. n \in FileReads => n \in 1 .. Len(wire) /\ n <= INBUFSIZE
  BY <1>1, <1>2 DEF FileReads, Lesser
<1> QED
  BY <1>3, <1>4

(* Concatenating messages. *)

(* f is the function that FlattenSeq(s) chooses. *)
IsFlat(f, s) ==
  f = [i \in 1 .. Len(s) |-> IF i = 1 THEN s[i] ELSE f[i - 1] \o s[i]]

LEMMA FlatAt ==
  ASSUME NEW s, NEW f, IsFlat(f, s), NEW k \in 1 .. Len(s)
  PROVE  f[k] = IF k = 1 THEN s[k] ELSE f[k - 1] \o s[k]
BY Zenon DEF IsFlat

(* There is one: otherwise there is a least length without. *)
LEMMA FlatExists ==
  ASSUME NEW S, NEW s \in Seq(S)
  PROVE  \E f : IsFlat(f, s)
<1> DEFINE Def(f, k) ==
             f = [i \in 1 .. k |-> IF i = 1 THEN s[i] ELSE f[i - 1] \o s[i]]
           C == {k \in Nat : ~ \E f : Def(f, k)}
<1>1. SUFFICES C = {}
  <2>1. Len(s) \in Nat
    BY LenProperties
  <2>2. ASSUME C = {} PROVE \E f : Def(f, Len(s))
    <3> HIDE DEF Def
    <3> QED
      BY <2>1, <2>2, Zenon
  <2> QED
    BY <2>2, Zenon DEF IsFlat
<1>2. SUFFICES ASSUME C # {} PROVE FALSE
  OBVIOUS
<1> DEFINE k == Least(C)
<1>3. k \in C /\ \A j \in C : k <= j
  <2>1. C \in SUBSET Nat
    OBVIOUS
  <2> HIDE DEF C
  <2> QED
    BY <1>2, <2>1, LeastNat
<1> HIDE DEF k
<1>4. k \in Nat
  BY <1>3
<1>5. k # 0
  <2>1. Def([i \in 1 .. 0 |-> 0], 0)
    OBVIOUS
  <2>2. 0 \notin C
    BY <2>1
  <2> QED
    BY <1>3, <2>2
<1>6. PICK f : Def(f, k - 1)
  <2>1. k - 1 \in Nat /\ ~ (k <= k - 1)
    BY <1>4, <1>5
  <2>2. k - 1 \notin C
    <3> HIDE DEF C
    <3> QED
      BY <1>3, <2>1
  <2> HIDE DEF Def
  <2> QED
    BY <2>1, <2>2
<1> DEFINE g == [i \in 1 .. k |-> IF i = 1 THEN s[i] ELSE f[i - 1] \o s[i]]
<1>7. \A i \in 1 .. k - 1 : f[i] = g[i]
  <2> TAKE i \in 1 .. k - 1
  <2>1. f[i] = IF i = 1 THEN s[i] ELSE f[i - 1] \o s[i]
    BY <1>6, Zenon
  <2>2. i \in 1 .. k
    BY <1>4
  <2> QED
    BY <2>1, <2>2
<1>8. Def(g, k)
  <2>1. \A i \in 1 .. k : i # 1 => i - 1 \in 1 .. k - 1
    BY <1>4
  <2>2. \A i \in 1 .. k : i # 1 => f[i - 1] = g[i - 1]
    BY <1>7, <2>1
  <2> QED
    BY <2>2
<1> QED
  BY <1>3, <1>8

(* What it is at i depends on the messages up to i only. *)
LEMMA FlatAgrees ==
  ASSUME NEW s, NEW t, Len(s) \in Nat, Len(t) \in Nat, Len(t) <= Len(s),
         \A i \in 1 .. Len(t) : s[i] = t[i],
         NEW f, IsFlat(f, s), NEW g, IsFlat(g, t)
  PROVE  \A i \in 1 .. Len(t) : f[i] = g[i]
<1> DEFINE C == {i \in 1 .. Len(t) : f[i] # g[i]}
<1>1. SUFFICES ASSUME C # {} PROVE FALSE
  OBVIOUS
<1> DEFINE k == Least(C)
<1>2. k \in C /\ \A j \in C : k <= j
  <2>1. C \in SUBSET Nat
    OBVIOUS
  <2> HIDE DEF C
  <2> QED
    BY <1>1, <2>1, LeastNat
<1> HIDE DEF k
<1>3. /\ k \in 1 .. Len(s)
      /\ f[k] = IF k = 1 THEN s[k] ELSE f[k - 1] \o s[k]
      /\ g[k] = IF k = 1 THEN t[k] ELSE g[k - 1] \o t[k]
  <2>1. k \in 1 .. Len(t) /\ k \in 1 .. Len(s)
    BY <1>2
  <2> QED
    BY <2>1 DEF IsFlat
<1>4. k # 1
  BY <1>2, <1>3
<1>5. k - 1 \in 1 .. Len(t) /\ k - 1 \notin C
  BY <1>2, <1>4
<1> QED
  BY <1>2, <1>3, <1>5

FlatOf(s) == CHOOSE f : IsFlat(f, s)

LEMMA FlattenIsFlat ==
  ASSUME NEW S, NEW s \in Seq(S), Len(s) # 0
  PROVE  FlattenSeq(s) = FlatOf(s)[Len(s)] /\ IsFlat(FlatOf(s), s)
<1>1. IsFlat(FlatOf(s), s)
  BY FlatExists DEF FlatOf
<1>2. FlattenSeq(s) = FlatOf(s)[Len(s)]
  BY Zenon DEF FlattenSeq, FlatOf, IsFlat
<1> QED
  BY <1>1, <1>2

(* One message more. *)
LEMMA FlattenNext ==
  ASSUME NEW S, NEW s \in Seq(Seq(S)), NEW k \in 1 .. Len(s)
  PROVE  FlattenSeq(SubSeq(s, 1, k)) = FlattenSeq(SubSeq(s, 1, k - 1)) \o s[k]
<1> DEFINE u == SubSeq(s, 1, k)
           t == SubSeq(s, 1, k - 1)
<1>1. /\ u \in Seq(Seq(S)) /\ Len(u) = k /\ \A i \in 1 .. k : u[i] = s[i]
      /\ t \in Seq(Seq(S)) /\ Len(t) = k - 1
      /\ \A i \in 1 .. k - 1 : t[i] = s[i]
  BY SubSeqProperties, LenProperties
<1> HIDE DEF u, t
<1>2. FlattenSeq(u) = FlatOf(u)[k] /\ IsFlat(FlatOf(u), u)
  BY <1>1, FlattenIsFlat
<1>3. FlatOf(u)[k] = IF k = 1 THEN u[k] ELSE FlatOf(u)[k - 1] \o u[k]
  <2>1. k \in 1 .. Len(u)
    BY <1>1, LenProperties
  <2> QED
    BY <1>2, <2>1, FlatAt, Zenon
<1>4. s[k] \in Seq(S)
  BY LenProperties
<1>5. CASE k = 1
  <2>1. t = <<>>
    <3>1. 1 \in Int /\ k - 1 \in Int /\ k - 1 < 1
      BY <1>5
    <3> QED
      BY <3>1, SubSeqEmpty, Zenon DEF t
  <2>2. FlattenSeq(t) = <<>>
    BY <2>1, EmptySeq DEF FlattenSeq
  <2> QED
    <3>1. FlattenSeq(u) = s[k]
      BY <1>1, <1>2, <1>3, <1>5
    <3>2. s[k] = <<>> \o s[k]
      BY <1>4, ConcatEmptySeq
    <3> QED
      BY <2>2, <3>1, <3>2, Zenon DEF u, t
<1>6. CASE k # 1
  <2>1. FlattenSeq(t) = FlatOf(t)[k - 1] /\ IsFlat(FlatOf(t), t)
    <3>1. Len(t) # 0 /\ Len(t) = k - 1 /\ t \in Seq(Seq(S))
      BY <1>1, <1>6
    <3> QED
      BY <3>1, FlattenIsFlat, Zenon
  <2>2. \A i \in 1 .. Len(t) : FlatOf(u)[i] = FlatOf(t)[i]
    <3>1. k \in Nat
      BY LenProperties
    <3>2. Len(u) \in Nat /\ Len(t) \in Nat /\ Len(t) <= Len(u)
      BY <1>1, <3>1
    <3>3. \A i \in 1 .. Len(t) : u[i] = t[i]
      <4>1. \A i \in 1 .. k - 1 : i \in 1 .. k
        BY <3>1
      <4> QED
        BY <1>1, <4>1, Zenon
    <3>4. IsFlat(FlatOf(u), u) /\ IsFlat(FlatOf(t), t)
      BY <1>2, <2>1
    <3> QED
      <4> DEFINE f == FlatOf(u)  g == FlatOf(t)
      <4> HIDE DEF f, g
      <4>1. IsFlat(f, u) /\ IsFlat(g, t)
        BY <3>4 DEF f, g
      <4>2. \A i \in 1 .. Len(t) : f[i] = g[i]
        <5>1. /\ Len(u) \in Nat /\ Len(t) \in Nat /\ Len(t) <= Len(u)
              /\ \A i \in 1 .. Len(t) : u[i] = t[i]
          BY <1>1, <3>2, <3>3
        <5> QED
          BY <4>1, <5>1, FlatAgrees, SMTT(30)
      <4> QED
        BY <4>2 DEF f, g
  <2>3. FlatOf(u)[k - 1] = FlatOf(t)[k - 1]
    BY <1>1, <1>6, <2>2
  <2>4. FlattenSeq(u) = FlattenSeq(t) \o u[k]
    BY <1>2, <1>3, <1>6, <2>1, <2>3, Zenon
  <2>5. u[k] = s[k]
    BY <1>1
  <2> QED
    BY <2>4, <2>5 DEF u, t
<1> QED
  BY <1>5, <1>6

-----------------------------------------------------------------------------
(* Flattening, by induction over the number of messages.                   *)

(* Induction up to n, with the set of the numbers for which a fact holds.  *)
LEMMA UpTo ==
  ASSUME NEW n \in Nat, NEW T, 0 \in T,
         \A k \in 0 .. n - 1 : k \in T => k + 1 \in T
  PROVE  \A k \in 0 .. n : k \in T
<1> DEFINE C == {k \in 0 .. n : k \notin T}
<1>1. SUFFICES ASSUME C # {} PROVE FALSE
  OBVIOUS
<1> DEFINE k == Least(C)
<1>2. k \in C /\ \A j \in C : k <= j
  <2>1. C \in SUBSET Nat
    OBVIOUS
  <2> HIDE DEF C
  <2> QED
    BY <1>1, <2>1, LeastNat
<1> HIDE DEF k
<1>3. k \in 0 .. n /\ k # 0
  BY <1>2
<1>4. k - 1 \in 0 .. n - 1 /\ ~ (k <= k - 1)
  BY <1>3
<1>5. k - 1 \in T
  BY <1>2, <1>4
<1> QED
  BY <1>2, <1>4, <1>5

(* The bytes of the first k messages. *)
Flat(s, k) == FlattenSeq(SubSeq(s, 1, k))

LEMMA FlatNone ==
  ASSUME NEW s
  PROVE  Flat(s, 0) = <<>>
<1>1. SubSeq(s, 1, 0) = <<>>
  BY SubSeqEmpty
<1>2. FlattenSeq(<<>>) = <<>>
  BY EmptySeq DEF FlattenSeq
<1> QED
  BY <1>1, <1>2 DEF Flat

LEMMA FlatAll ==
  ASSUME NEW S, NEW s \in Seq(S)
  PROVE  Flat(s, Len(s)) = FlattenSeq(s)
BY SubSeqFull DEF Flat

LEMMA FlatSeq ==
  ASSUME NEW S, NEW s \in Seq(Seq(S))
  PROVE  \A k \in 0 .. Len(s) : Flat(s, k) \in Seq(S)
<1> DEFINE T == {k \in 0 .. Len(s) : Flat(s, k) \in Seq(S)}
<1>1. Len(s) \in Nat
  BY LenProperties
<1>2. 0 \in T
  <2>1. Flat(s, 0) = <<>>
    BY FlatNone
  <2>2. <<>> \in Seq(S) /\ 0 \in 0 .. Len(s)
    BY <1>1, EmptySeq
  <2> QED
    BY <2>1, <2>2, Zenon
<1>3. ASSUME NEW k \in 0 .. Len(s) - 1, k \in T
      PROVE  k + 1 \in T
  <2>1. k + 1 \in 1 .. Len(s) /\ (k + 1) - 1 = k
    BY <1>1
  <2>2. Flat(s, k + 1) = Flat(s, k) \o s[k + 1]
    BY <2>1, FlattenNext DEF Flat
  <2>3. s[k + 1] \in Seq(S)
    BY <2>1, LenProperties
  <2>4. Flat(s, k) \in Seq(S)
    BY <1>3
  <2>5. Flat(s, k) \o s[k + 1] \in Seq(S)
    BY <2>3, <2>4, ConcatProperties
  <2>6. k + 1 \in 0 .. Len(s)
    BY <1>1
  <2> QED
    BY <2>2, <2>5, <2>6, Zenon
<1> HIDE DEF T
<1>4. \A k \in 0 .. Len(s) : k \in T
  BY <1>1, <1>2, <1>3, UpTo
<1> QED
  BY <1>4 DEF T

LEMMA FlattenSeqBytes ==
  ASSUME NEW S, NEW s \in Seq(Seq(S))
  PROVE  FlattenSeq(s) \in Seq(S)
<1>1. Len(s) \in 0 .. Len(s)
  BY LenProperties
<1> QED
  BY <1>1, FlatSeq, FlatAll

(* One step of Flat, with its type. *)
LEMMA FlatStep ==
  ASSUME NEW S, NEW s \in Seq(Seq(S)), NEW k \in 0 .. Len(s), k < Len(s)
  PROVE  /\ Flat(s, k) \in Seq(S)
         /\ s[k + 1] \in Seq(S)
         /\ Flat(s, k + 1) \in Seq(S)
         /\ Flat(s, k + 1) = Flat(s, k) \o s[k + 1]
         /\ Len(Flat(s, k + 1)) = Len(Flat(s, k)) + Len(s[k + 1])
<1>1. Len(s) \in Nat /\ k \in Nat
  BY LenProperties
<1>2. k + 1 \in 1 .. Len(s) /\ k + 1 \in 0 .. Len(s) /\ (k + 1) - 1 = k
  BY <1>1
<1>3. Flat(s, k) \in Seq(S) /\ Flat(s, k + 1) \in Seq(S)
  BY <1>2, FlatSeq
<1>4. s[k + 1] \in Seq(S)
  BY <1>2, LenProperties
<1>5. Flat(s, k + 1) = Flat(s, k) \o s[k + 1]
  BY <1>2, FlattenNext DEF Flat
<1>6. Len(Flat(s, k) \o s[k + 1]) = Len(Flat(s, k)) + Len(s[k + 1])
  BY <1>3, <1>4, ConcatProperties
<1> QED
  BY <1>3, <1>4, <1>5, <1>6

(* What is flattened in two parts. *)
LEMMA FlatConcat ==
  ASSUME NEW S, NEW s \in Seq(Seq(S)), NEW t \in Seq(Seq(S))
  PROVE  /\ s \o t \in Seq(Seq(S))
         /\ FlattenSeq(s \o t) = FlattenSeq(s) \o FlattenSeq(t)
<1> DEFINE u == s \o t
           N == Len(s)
           M == Len(t)
<1>1. /\ u \in Seq(Seq(S)) /\ Len(u) = N + M
      /\ \A i \in 1 .. N + M : u[i] = IF i <= N THEN s[i] ELSE t[i - N]
      /\ N \in Nat /\ M \in Nat
  BY ConcatProperties, LenProperties
<1> HIDE DEF u, N, M
<1> DEFINE T == {k \in 0 .. M : Flat(u, N + k) = FlattenSeq(s) \o Flat(t, k)}
<1>2. FlattenSeq(s) \in Seq(S)
  BY FlattenSeqBytes
<1>3. 0 \in T
  <2>1. SubSeq(u, 1, N) = s
    <3>1. /\ SubSeq(u, 1, N) \in Seq(Seq(S)) /\ Len(SubSeq(u, 1, N)) = N
          /\ \A i \in 1 .. N : SubSeq(u, 1, N)[i] = u[i]
      <4>1. N \in 0 .. Len(u)
        BY <1>1
      <4>2. \A i \in 1 .. N : u[i] \in Seq(S)
        BY <1>1, ElementOfSeq
      <4> QED
        BY <1>1, <4>2, SubSeqProperties
    <3>2. \A i \in 1 .. N : u[i] = s[i]
      BY <1>1
    <3> QED
      BY <3>1, <3>2, SeqEqual DEF N
  <2>2. Flat(u, N + 0) = FlattenSeq(s)
    <3>1. N + 0 = N
      BY <1>1
    <3> QED
      BY <2>1, <3>1, Zenon DEF Flat
  <2>3. FlattenSeq(s) \o <<>> = FlattenSeq(s)
    BY <1>2, ConcatEmptySeq
  <2>4. 0 \in 0 .. M /\ Flat(t, 0) = <<>>
    BY <1>1, FlatNone
  <2> QED
    BY <2>2, <2>3, <2>4
<1>4. ASSUME NEW k \in 0 .. M - 1, k \in T
      PROVE  k + 1 \in T
  <2>1. /\ N + k \in 0 .. Len(u) /\ N + k < Len(u) /\ (N + k) + 1 = N + (k + 1)
        /\ k \in 0 .. Len(t) /\ k < Len(t) /\ k + 1 \in 0 .. M
    BY <1>1 DEF M
  <2>2. Flat(u, (N + k) + 1) = Flat(u, N + k) \o u[(N + k) + 1]
    BY <1>1, <2>1, FlatStep
  <2>3. /\ Flat(t, k + 1) = Flat(t, k) \o t[k + 1]
        /\ Flat(t, k) \in Seq(S) /\ t[k + 1] \in Seq(S)
    <3>1. k \in 0 .. Len(t) /\ k < Len(t)
      BY <2>1
    <3>2. Flat(t, k + 1) = Flat(t, k) \o t[k + 1]
      BY <3>1, FlatStep, Zenon
    <3>3. Flat(t, k) \in Seq(S) /\ t[k + 1] \in Seq(S)
      BY <3>1, FlatStep, Zenon
    <3> QED
      BY <3>2, <3>3, Zenon
  <2>4. u[(N + k) + 1] = t[k + 1]
    <3>1. /\ (N + k) + 1 \in 1 .. N + M /\ ~ ((N + k) + 1 <= N)
          /\ ((N + k) + 1) - N = k + 1
      BY <1>1, <2>1
    <3> QED
      BY <1>1, <3>1
  <2>5. Flat(u, N + k) = FlattenSeq(s) \o Flat(t, k)
    BY <1>4
  <2>6. (FlattenSeq(s) \o Flat(t, k)) \o t[k + 1] =
          FlattenSeq(s) \o (Flat(t, k) \o t[k + 1])
    <3> DEFINE h == FlattenSeq(s)  g == Flat(t, k)  m == t[k + 1]
    <3>1. h \in Seq(S) /\ g \in Seq(S) /\ m \in Seq(S)
      BY <1>2, <2>3
    <3> HIDE DEF h, g, m
    <3>2. \A x, y, z \in Seq(S) : (x \o y) \o z = x \o (y \o z)
      BY ConcatAssociative
    <3>3. (h \o g) \o m = h \o (g \o m)
      BY <3>1, <3>2, Zenon
    <3> QED
      BY <3>3 DEF h, g, m
  <2> QED
    BY <2>1, <2>2, <2>3, <2>4, <2>5, <2>6
<1>5. \A k \in 0 .. M : k \in T
  <2> HIDE DEF T
  <2> QED
    BY <1>1, <1>3, <1>4, UpTo
<1>6. Flat(u, N + M) = FlattenSeq(s) \o Flat(t, M)
  BY <1>1, <1>5
<1> QED
  BY <1>1, <1>6, FlatAll DEF M, u

LEMMA FlattenOne ==
  ASSUME NEW S, NEW m \in Seq(S)
  PROVE  <<m>> \in Seq(Seq(S)) /\ FlattenSeq(<<m>>) = m
<1> DEFINE s == <<m>>
<1>1. s \in Seq(Seq(S)) /\ Len(s) = 1 /\ s[1] = m
  OBVIOUS
<1> HIDE DEF s
<1>2. 0 \in 0 .. Len(s) /\ 0 < Len(s) /\ 0 + 1 = 1
  BY <1>1
<1>3. Flat(s, 0 + 1) = Flat(s, 0) \o s[0 + 1]
  BY <1>1, <1>2, FlatStep, Zenon
<1>4. Flat(s, 1) = <<>> \o m
  BY <1>1, <1>2, <1>3, FlatNone
<1>5. <<>> \o m = m
  BY ConcatEmptySeq
<1> QED
  BY <1>1, <1>4, <1>5, FlatAll DEF s

-----------------------------------------------------------------------------
(* Line ends. *)

Pieces(s) == [i \in 1 .. Len(s) |-> IF InLineEnd(s, i) THEN <<>> ELSE <<s[i]>>]

LEMMA UnixSeq ==
  ASSUME NEW S, NEW s \in Seq(S)
  PROVE  /\ Pieces(s) \in Seq(Seq(S))
         /\ Len(Pieces(s)) = Len(s)
         /\ Unix(s) = FlattenSeq(Pieces(s))
         /\ Unix(s) \in Seq(S)
<1>1. Len(s) \in Nat /\ \A i \in 1 .. Len(s) : s[i] \in S
  BY LenProperties, ElementOfSeq
<1>2. \A i \in 1 .. Len(s) :
        (IF InLineEnd(s, i) THEN <<>> ELSE <<s[i]>>) \in Seq(S)
  <2> TAKE i \in 1 .. Len(s)
  <2>1. <<>> \in Seq(S) /\ <<s[i]>> \in Seq(S)
    BY <1>1
  <2> QED
    BY <2>1, Zenon
<1>3. Pieces(s) \in Seq(Seq(S)) /\ Len(Pieces(s)) = Len(s)
  BY <1>1, <1>2 DEF Pieces
<1>4. Unix(s) = FlattenSeq(Pieces(s))
  BY Zenon DEF Unix, Pieces
<1> QED
  BY <1>3, <1>4, FlattenSeqBytes

(* The last byte is never part of a line end that is cut off. *)
LEMMA UnixNotEmpty ==
  ASSUME NEW S, NEW s \in Seq(S), s # <<>>
  PROVE  Unix(s) # <<>>
<1> DEFINE p == Pieces(s)
           n == Len(s)
<1>1. n \in Nat /\ n # 0
  BY EmptySeq
<1>2. p \in Seq(Seq(S)) /\ Len(p) = n /\ Unix(s) = FlattenSeq(p)
  BY UnixSeq
<1>3. p[n] = <<s[n]>>
  BY <1>1 DEF Pieces, InLineEnd
<1> HIDE DEF p, n
<1>4. n - 1 \in 0 .. Len(p) /\ n - 1 < Len(p) /\ (n - 1) + 1 = n
  BY <1>1, <1>2
<1>5. Len(Flat(p, n)) = Len(Flat(p, n - 1)) + Len(p[n])
      /\ Flat(p, n - 1) \in Seq(S)
  BY <1>2, <1>4, FlatStep, Zenon
<1>6. Len(Flat(p, n)) # 0
  BY <1>3, <1>5, LenProperties
<1> QED
  BY <1>2, <1>6, FlatAll, EmptySeq

-----------------------------------------------------------------------------
(* Bytes that move. *)

LEMMA ByteAssoc ==
  \A a, b, c \in Seq(Byte) : (a \o b) \o c = a \o (b \o c)
<1> TAKE a, b, c \in Seq(Byte)
<1> QED
  BY ConcatAssociative

LEMMA ByteConcat ==
  /\ \A a, b \in Seq(Byte) :
       /\ a \o b \in Seq(Byte)
       /\ Len(a \o b) = Len(a) + Len(b)
       /\ a \o b = <<>> => a = <<>> /\ b = <<>>
  /\ \A a \in Seq(Byte) :
       /\ a \o <<>> = a /\ <<>> \o a = a
       /\ Len(a) \in Nat
  /\ <<>> \in Seq(Byte) /\ Len(<<>>) = 0
<1>1. ASSUME NEW a \in Seq(Byte), NEW b \in Seq(Byte)
      PROVE  /\ a \o b \in Seq(Byte)
             /\ Len(a \o b) = Len(a) + Len(b)
             /\ a \o b = <<>> => a = <<>> /\ b = <<>>
  BY ConcatProperties, ConcatEqualIffEmpty
<1>2. ASSUME NEW a \in Seq(Byte)
      PROVE  a \o <<>> = a /\ <<>> \o a = a /\ Len(a) \in Nat
  BY ConcatEmptySeq, LenProperties
<1> QED
  BY <1>1, <1>2, EmptySeq

LEMMA ByteAt ==
  \A a, b \in Seq(Byte) : \A i \in 1 .. Len(a) + Len(b) :
    (a \o b)[i] = IF i <= Len(a) THEN a[i] ELSE b[i - Len(a)]
<1> TAKE a, b \in Seq(Byte)
<1> QED
  BY ConcatProperties

(* The stream of a script. *)
LEMMA ScriptTypes ==
  ASSUME script \in Script
  PROVE  /\ script.commands \in Seq(Seq(Byte))
         /\ Packing(script) \in Seq(Seq(Byte))
         /\ Len(Packing(script)) = Len(script.packages)
         /\ Payload(script) \in Seq(Seq(Byte))
         /\ Len(Payload(script)) = Len(script.packages)
         /\ File \in Seq(Byte)
         /\ script.text \in Seq(Byte)
         /\ script.content \in Seq(Byte)
<1>1. /\ script.commands \in Seq(Seq(Byte) \ {<<>>})
      /\ script.packages \in Seq(Package)
      /\ script.text \in Seq(Byte)
      /\ script.content \in Seq(Byte)
  BY StreamAssumption
<1>2. script.commands \in Seq(Seq(Byte))
  BY <1>1, SeqMonotonic
<1>3. DOMAIN script.packages = 1 .. Len(script.packages)
      /\ Len(script.packages) \in Nat
  BY <1>1, LenProperties
<1>4. \A p \in Package : p.bytes \in Seq(Byte) /\ Packed(p) \in Seq(Byte)
  <2> TAKE p \in Package
  <2>1. p.bytes \in Seq(Byte) /\ p.signal \in Byte /\ p.size \in Byte
    BY DEF Package, Byte
  <2>2. <<p.signal, p.size>> \in Seq(Byte)
    BY <2>1
  <2> QED
    BY <2>1, <2>2, ConcatProperties DEF Packed
<1>5. \A i \in 1 .. Len(script.packages) : script.packages[i] \in Package
  BY <1>1, ElementOfSeq
<1>6. /\ Packing(script) \in Seq(Seq(Byte))
      /\ Len(Packing(script)) = Len(script.packages)
  BY <1>3, <1>4, <1>5 DEF Packing
<1>7. /\ Payload(script) \in Seq(Seq(Byte))
      /\ Len(Payload(script)) = Len(script.packages)
  BY <1>3, <1>4, <1>5 DEF Payload
<1> QED
  BY <1>1, <1>2, <1>6, <1>7, FlattenSeqBytes DEF File

LEMMA MessagesSeq ==
  ASSUME script \in Script
  PROVE  Messages \in Seq(Seq(Byte))
<1>1. /\ script.commands \in Seq(Seq(Byte))
      /\ File \in Seq(Byte)
      /\ script.text \in Seq(Byte)
  BY ScriptTypes
<1>3. \A m \in Seq(Byte) : MessageOf(m) \in Seq(Seq(Byte))
  BY DEF MessageOf
<1>4. script.commands \o MessageOf(File) \in Seq(Seq(Byte))
  BY <1>1, <1>3, ConcatProperties
<1> QED
  BY <1>1, <1>3, <1>4, ConcatProperties DEF Messages

(* The stream is the client's and depends on its script alone. *)
LEMMA SameStream ==
  ASSUME script' = script
  PROVE  /\ Messages' = Messages
         /\ File' = File
         /\ FileStart' = FileStart
         /\ TextStart' = TextStart
<1>1. Packing(script)' = Packing(script)
  BY DEF Packing, Packed
<1>2. File' = File
  BY <1>1 DEF File
<1> QED
  BY <1>2 DEF Messages, FileStart, TextStart

(* A handler uses one byte at least, and none that has not come. *)
LEMMA TakenBounds ==
  ASSUME NEW b \in Seq(Byte), Len(b) # 0
  PROVE  Taken(b) \in 1 .. Len(b)
<1>1. Newlines(b) \subseteq 1 .. Len(b) /\ Len(b) \in 1 .. Len(b)
  BY LenProperties DEF Newlines
<1>2. CASE Newlines(b) # {}
  <2>1. Least(Newlines(b)) \in Newlines(b)
    BY <1>1, <1>2, LeastNat
  <2> QED
    BY <1>1, <1>2, <2>1 DEF Taken
<1> QED
  BY <1>1, <1>2 DEF Taken

LEMMA CollectedBounds ==
  ASSUME NEW b \in Seq(Byte), Len(b) # 0
  PROVE  Collected(b) \in 1 .. Len(b)
<1>1. MarkedEnds(b) \subseteq 1 .. Len(b) /\ Len(b) \in 1 .. Len(b)
  BY LenProperties DEF MarkedEnds, LineEnds, Newlines
<1>2. CASE MarkedEnds(b) # {}
  <2>1. Least(MarkedEnds(b)) \in MarkedEnds(b)
    BY <1>1, <1>2, LeastNat
  <2> QED
    BY <1>1, <1>2, <2>1 DEF Collected
<1> QED
  BY <1>1, <1>2 DEF Collected

Buffers == wire \in Seq(Byte) /\ buf \in Seq(Byte) /\ taken \in Seq(Byte)

(* Of the buffer and n bytes that come behind it k are used; nothing else *)
(* happens to the bytes.                                                   *)
LEMMA BytesMove ==
  ASSUME Buffers, NEW n \in LineReads, NEW k \in 1 .. Len(Received(n)),
         Len(buf) < INBUFSIZE
  PROVE  LET b == Received(n)
             used == SubSeq(b, 1, k)
             left == SubSeq(b, k + 1, Len(b))
             unread == SubSeq(wire, n + 1, Len(wire))
         IN  /\ unread \in Seq(Byte)
             /\ left \in Seq(Byte)
             /\ Len(left) < INBUFSIZE
             /\ taken \o used \in Seq(Byte)
             /\ (taken \o used) \o left \o unread = taken \o buf \o wire
<1> DEFINE b == Received(n)
           used == SubSeq(b, 1, k)
           left == SubSeq(b, k + 1, Len(b))
           read == SubSeq(wire, 1, n)
           unread == SubSeq(wire, n + 1, Len(wire))
<1>1. n \in 1 .. Len(wire) /\ n <= INBUFSIZE - Len(buf)
  BY ReadBounds DEF Buffers
<1>2. /\ read \in Seq(Byte) /\ Len(read) = n /\ unread \in Seq(Byte)
      /\ read \o unread = wire
  BY <1>1, Split DEF Buffers
<1>3. b \in Seq(Byte) /\ Len(b) = Len(buf) + n /\ b = buf \o read
  BY <1>2, ConcatProperties DEF Buffers, Received
<1> HIDE DEF b, read, unread
<1>4. /\ used \in Seq(Byte) /\ left \in Seq(Byte) /\ Len(left) = Len(b) - k
      /\ used \o left = b
  <2>1. k \in 0 .. Len(b)
    BY <1>3, LenProperties DEF b
  <2> QED
    BY <1>3, <2>1, Split, Zenon
<1>5. Len(left) < INBUFSIZE
  BY <1>1, <1>3, <1>4, LenProperties, TransferAssumption DEF Buffers, b
<1> HIDE DEF used, left
<1>6. (taken \o used) \o left = (taken \o buf) \o read
  <2>1. (taken \o used) \o left = taken \o b
    <3>1. (taken \o used) \o left = taken \o (used \o left)
      <4>1. taken \in Seq(Byte) /\ used \in Seq(Byte) /\ left \in Seq(Byte)
        BY <1>4 DEF Buffers
      <4> QED
        BY <4>1, ByteAssoc, Zenon
    <3> QED
      BY <1>4, <3>1
  <2>2. (taken \o buf) \o read = taken \o b
    <3>1. (taken \o buf) \o read = taken \o (buf \o read)
      <4> taken \in Seq(Byte) /\ buf \in Seq(Byte) /\ read \in Seq(Byte)
        BY <1>2 DEF Buffers
      <4> QED
        BY ConcatAssociative
    <3> QED
      BY <1>3, <3>1
  <2> QED
    BY <2>1, <2>2
<1>7. taken \o used \in Seq(Byte) /\ taken \o buf \in Seq(Byte)
  BY <1>4, ConcatProperties DEF Buffers
<1>8. ((taken \o buf) \o read) \o unread = (taken \o buf) \o wire
  <2>1. ((taken \o buf) \o read) \o unread = (taken \o buf) \o (read \o unread)
    <3> DEFINE h == taken \o buf
    <3>1. h \in Seq(Byte) /\ read \in Seq(Byte) /\ unread \in Seq(Byte)
      BY <1>2, <1>7
    <3> HIDE DEF h
    <3>2. (h \o read) \o unread = h \o (read \o unread)
      BY <3>1, ConcatAssociative
    <3> QED
      BY <3>2 DEF h
  <2> QED
    BY <1>2, <2>1
<1> QED
  BY <1>2, <1>4, <1>5, <1>6, <1>7, <1>8 DEF b, used, left, unread

-----------------------------------------------------------------------------
(* The invariant: the buffer has room, an upload that began in step finds  *)
(* the buffer empty, and no byte is lost.                                  *)
StreamInv ==
  /\ script \in Script
  /\ sent \in 0 .. Len(Messages)
  /\ Buffers
  /\ ReadHasRoom
  /\ inStep => (state = "upload" => buf = <<>>)
  /\ BytesInOrder

LEMMA InitInv == Init => StreamInv
<1> SUFFICES ASSUME Init PROVE StreamInv
  OBVIOUS
<1>1. script \in Script /\ Messages \in Seq(Seq(Byte))
  BY MessagesSeq DEF Init
<1>2. sent \in 0 .. Len(Messages)
  BY <1>1, LenProperties DEF Init
<1>3. Buffers /\ ReadHasRoom
  BY EmptySeq, TransferAssumption DEF Init, Buffers, ReadHasRoom
<1>4. state # "upload"
  BY <1>1, StreamAssumption DEF Init
<1>5. BytesInOrder
  <2>1. SubSeq(Messages, 1, sent) = <<>>
    BY SubSeqEmpty DEF Init
  <2>2. FlattenSeq(<<>>) = <<>>
    BY EmptySeq DEF FlattenSeq
  <2>3. taken \o buf \o wire = <<>>
    BY DEF Init
  <2> QED
    BY <2>1, <2>2, <2>3 DEF BytesInOrder
<1> QED
  BY <1>1, <1>2, <1>3, <1>4, <1>5 DEF StreamInv

LEMMA SendInv ==
  ASSUME StreamInv, Send
  PROVE  StreamInv'
<1>1. Messages \in Seq(Seq(Byte)) /\ Messages' = Messages
  BY MessagesSeq, SameStream DEF StreamInv, Send
<1>2. sent' = sent + 1 /\ sent' \in 1 .. Len(Messages)
  BY <1>1, LenProperties DEF StreamInv, Send
<1> DEFINE m == Messages[sent']
<1>3. m \in Seq(Byte)
  BY <1>1, <1>2, LenProperties
<1>4. wire' = wire \o m /\ UNCHANGED <<script, buf, taken, state, inStep>>
  BY DEF Send, told
<1> HIDE DEF m
<1>5. Buffers'
  BY <1>3, <1>4, ConcatProperties DEF StreamInv, Buffers
<1>6. BytesInOrder'
  <2> SUFFICES ASSUME inStep
               PROVE  taken \o buf \o (wire \o m) =
                        FlattenSeq(SubSeq(Messages, 1, sent'))
    BY <1>1, <1>4 DEF BytesInOrder
  <2>1. FlattenSeq(SubSeq(Messages, 1, sent')) =
          FlattenSeq(SubSeq(Messages, 1, sent' - 1)) \o m
    BY <1>1, <1>2, FlattenNext DEF m
  <2>2. sent' - 1 = sent
    BY <1>2 DEF StreamInv
  <2>3. FlattenSeq(SubSeq(Messages, 1, sent)) = taken \o buf \o wire
    BY DEF StreamInv, BytesInOrder
  <2>4. taken \o buf \o (wire \o m) = (taken \o buf \o wire) \o m
    <3> DEFINE h == taken \o buf
    <3>1. h \in Seq(Byte) /\ wire \in Seq(Byte)
      BY ConcatProperties DEF StreamInv, Buffers
    <3> HIDE DEF h
    <3>2. (h \o wire) \o m = h \o (wire \o m)
      BY <1>3, <3>1, ConcatAssociative
    <3> QED
      BY <3>2 DEF h
  <2> QED
    BY <2>1, <2>2, <2>3, <2>4
<1> QED
  BY <1>1, <1>2, <1>4, <1>5, <1>6 DEF StreamInv, ReadHasRoom

(* What a read by session_do_read leaves: of n bytes that come k are used. *)
LEMMA LineReadInv ==
  ASSUME StreamInv, NEW n \in LineReads, NEW k \in 1 .. Len(Received(n)),
         UNCHANGED client,
         wire' = SubSeq(wire, n + 1, Len(wire)),
         buf' = SubSeq(Received(n), k + 1, Len(Received(n))),
         taken' = taken \o SubSeq(Received(n), 1, k),
         inStep' => inStep,
         inStep' => (state' = "upload" => buf' = <<>>)
  PROVE  StreamInv'
<1>1. /\ wire' \in Seq(Byte) /\ buf' \in Seq(Byte) /\ taken' \in Seq(Byte)
      /\ Len(buf') < INBUFSIZE
      /\ taken' \o buf' \o wire' = taken \o buf \o wire
  BY BytesMove DEF StreamInv, ReadHasRoom
<1>2. Messages' = Messages /\ script' = script /\ sent' = sent
  BY SameStream DEF client
<1>3. BytesInOrder'
  BY <1>1, <1>2 DEF StreamInv, BytesInOrder
<1> QED
  BY <1>1, <1>2, <1>3 DEF StreamInv, Buffers, ReadHasRoom

LEMMA ReceivedBytes ==
  ASSUME Buffers, NEW n \in LineReads
  PROVE  Received(n) \in Seq(Byte) /\ Len(Received(n)) # 0
<1>1. n \in 1 .. Len(wire)
  BY ReadBounds DEF Buffers
<1>2. SubSeq(wire, 1, n) \in Seq(Byte) /\ Len(SubSeq(wire, 1, n)) = n
  BY <1>1, Split DEF Buffers
<1> QED
  BY <1>1, <1>2, ConcatProperties, LenProperties DEF Buffers, Received

LEMMA ReadCommandInv ==
  ASSUME StreamInv, NEW n \in 1 .. INBUFSIZE, ReadCommand(n)
  PROVE  StreamInv'
<1> DEFINE k == Taken(Received(n))
<1>1. n \in LineReads
  BY DEF ReadCommand
<1>2. k \in 1 .. Len(Received(n))
  BY <1>1, ReceivedBytes, TakenBounds DEF StreamInv
<1>3. /\ UNCHANGED client
      /\ wire' = SubSeq(wire, n + 1, Len(wire))
      /\ buf' = SubSeq(Received(n), k + 1, Len(Received(n)))
      /\ taken' = taken \o SubSeq(Received(n), 1, k)
  BY DEF ReadCommand, Rest
<1>4. /\ inStep' => inStep
      /\ inStep' => (state' = "upload" => buf' = <<>>)
  BY DEF ReadCommand
<1> HIDE DEF k
<1> QED
  BY <1>1, <1>2, <1>3, <1>4, LineReadInv

LEMMA ReadDescriptionInv ==
  ASSUME StreamInv, NEW n \in 1 .. INBUFSIZE, ReadDescription(n)
  PROVE  StreamInv'
<1> DEFINE k == Collected(Received(n))
<1>1. n \in LineReads
  BY DEF ReadDescription
<1>2. k \in 1 .. Len(Received(n))
  BY <1>1, ReceivedBytes, CollectedBounds DEF StreamInv
<1>3. /\ UNCHANGED client
      /\ wire' = SubSeq(wire, n + 1, Len(wire))
      /\ buf' = SubSeq(Received(n), k + 1, Len(Received(n)))
      /\ taken' = taken \o SubSeq(Received(n), 1, k)
  BY DEF ReadDescription
<1>4. inStep' = inStep /\ state' # "upload"
  BY DEF ReadDescription
<1> HIDE DEF k
<1> QED
  BY <1>1, <1>2, <1>3, <1>4, LineReadInv

(* file_upload reads past the buffer, which is empty when it is in step.   *)
LEMMA FileTakenInv ==
  ASSUME StreamInv, NEW n \in 0 .. Len(wire),
         state = "upload", UNCHANGED <<client, buf>>,
         wire' = SubSeq(wire, n + 1, Len(wire)),
         taken' = taken \o SubSeq(wire, 1, n),
         inStep' => inStep
  PROVE  StreamInv'
<1> DEFINE r == SubSeq(wire, 1, n)
<1>1. n \in 0 .. Len(wire)
  OBVIOUS
<1>2. /\ state = "upload" /\ UNCHANGED <<client, buf>>
      /\ wire' = SubSeq(wire, n + 1, Len(wire))
      /\ taken' = taken \o r
      /\ inStep' => inStep
  OBVIOUS
<1>3. /\ SubSeq(wire, 1, n) \in Seq(Byte)
      /\ SubSeq(wire, n + 1, Len(wire)) \in Seq(Byte)
      /\ SubSeq(wire, 1, n) \o SubSeq(wire, n + 1, Len(wire)) = wire
  <2>1. wire \in Seq(Byte) /\ n \in 0 .. Len(wire)
    BY <1>1 DEF StreamInv, Buffers
  <2> QED
    BY <2>1, Split
<1>4. r \in Seq(Byte) /\ r \o SubSeq(wire, n + 1, Len(wire)) = wire
  BY <1>3
<1> HIDE DEF r
<1>5. wire' \in Seq(Byte) /\ r \o wire' = wire
  BY <1>2, <1>3, <1>4
<1>6. Buffers'
  <2>1. taken \in Seq(Byte) /\ buf' \in Seq(Byte)
    BY <1>2 DEF StreamInv, Buffers
  <2>2. taken' \in Seq(Byte)
    BY <1>2, <1>4, <2>1, ConcatProperties
  <2> QED
    BY <1>5, <2>1, <2>2 DEF Buffers
<1>7. Messages' = Messages /\ script' = script /\ sent' = sent
  BY <1>2, SameStream DEF client
<1>8. ASSUME inStep
      PROVE  taken' \o buf' \o wire' = taken \o buf \o wire
  <2>1. buf = <<>> /\ buf' = <<>>
    BY <1>2, <1>8 DEF StreamInv
  <2>2. taken \in Seq(Byte) /\ taken' \in Seq(Byte)
    BY <1>6 DEF StreamInv, Buffers
  <2>3. taken' \o buf' = taken' /\ taken \o buf = taken
    BY <2>1, <2>2, ConcatEmptySeq
  <2>4. (taken \o r) \o wire' = taken \o (r \o wire')
    <3>1. taken \in Seq(Byte) /\ r \in Seq(Byte) /\ wire' \in Seq(Byte)
      BY <1>4, <1>5, <2>2
    <3> QED
      BY <3>1, ByteAssoc, Zenon
  <2>5. taken' \o buf' = taken \o r
    BY <1>2, <2>3
  <2>6. (taken' \o buf') \o wire' = taken \o wire
    BY <1>5, <2>4, <2>5
  <2> QED
    BY <2>3, <2>6
<1>9. BytesInOrder'
  BY <1>2, <1>7, <1>8 DEF StreamInv, BytesInOrder
<1> QED
  BY <1>2, <1>6, <1>7, <1>9 DEF StreamInv, ReadHasRoom

LEMMA ReadFileInv ==
  ASSUME StreamInv, NEW n \in 1 .. INBUFSIZE, ReadFile(n)
  PROVE  StreamInv'
<1>1. n \in 0 .. Len(wire)
  BY ReadBounds DEF StreamInv, Buffers, ReadFile
<1>2. /\ state = "upload" /\ UNCHANGED <<client, buf>>
      /\ wire' = SubSeq(wire, n + 1, Len(wire))
      /\ taken' = taken \o SubSeq(wire, 1, n)
      /\ inStep' => inStep
  BY DEF ReadFile
<1> QED
  BY <1>1, <1>2, FileTakenInv

(* What a call of file_upload leaves alone in which a read (n = 0) or a    *)
(* write fails, or a write is short.                                       *)
UploadFails(n) ==
  \/ FileReadFails /\ n = 0
  \/ FileWriteFails(n)
  \/ FileWriteShort(n)

LEMMA UploadFailsStep ==
  ASSUME Buffers, NEW n \in 0 .. INBUFSIZE, UploadFails(n)
  PROVE  /\ n \in 0 .. Len(wire)
         /\ state = "upload"
         /\ UNCHANGED <<client, buf, description, saved, lines, whole, cut>>
         /\ wire' = SubSeq(wire, n + 1, Len(wire))
         /\ taken' = taken \o SubSeq(wire, 1, n)
         /\ clean' = FALSE
         /\ inStep' => inStep
         /\ inStep' /\ state' = "describing" => Len(taken') = TextStart
         /\ failures < MaxFailures /\ failures' = failures + 1
<1>1. CASE FileReadFails /\ n = 0
  <2>1. wire \in Seq(Byte) /\ taken \in Seq(Byte) /\ Len(wire) \in Nat
    BY LenProperties DEF Buffers
  <2>2. SubSeq(wire, 1, Len(wire)) = wire /\ SubSeq(wire, 1, 0) = <<>>
    BY <2>1, SubSeqFull, SubSeqEmpty
  <2>3. taken \o <<>> = taken
    BY <2>1, ConcatEmptySeq
  <2>4. /\ state = "upload"
        /\ UNCHANGED <<client, wire, buf, description, saved, lines, taken,
                       whole, cut>>
        /\ clean' = FALSE
        /\ inStep' => inStep
        /\ inStep' /\ state' = "describing" => Len(taken) = TextStart
        /\ failures < MaxFailures /\ failures' = failures + 1
    BY <1>1, Zenon DEF FileReadFails
  <2>5. 0 + 1 = 1
    OBVIOUS
  <2> QED
    BY <1>1, <2>1, <2>2, <2>3, <2>4, <2>5
<1>2. CASE FileWriteFails(n)
  <2>1. n \in 0 .. Len(wire)
    <3>1. n = 0 \/ n \in FileReads
      BY <1>2, Zenon DEF FileWriteFails
    <3>2. Len(wire) \in Nat
      BY LenProperties DEF Buffers
    <3> QED
      BY <3>1, <3>2, ReadBounds DEF Buffers
  <2>2. /\ state = "upload" /\ state' = "command"
        /\ UNCHANGED <<client, buf, description, saved, lines, whole, cut>>
        /\ wire' = SubSeq(wire, n + 1, Len(wire))
        /\ taken' = taken \o SubSeq(wire, 1, n)
        /\ clean' = FALSE /\ (inStep' => inStep)
        /\ failures < MaxFailures /\ failures' = failures + 1
    BY <1>2, Zenon DEF FileWriteFails
  <2> QED
    BY <2>1, <2>2
<1>3. CASE FileWriteShort(n)
  <2>1. n \in 0 .. Len(wire)
    <3>1. n \in FileReads
      BY <1>3, Zenon DEF FileWriteShort
    <3> QED
      BY <3>1, ReadBounds DEF Buffers
  <2>2. /\ state = "upload"
        /\ UNCHANGED <<client, buf, description, saved, lines, whole, cut>>
        /\ wire' = SubSeq(wire, n + 1, Len(wire))
        /\ taken' = taken \o SubSeq(wire, 1, n)
        /\ clean' = FALSE
        /\ inStep' => inStep
        /\ inStep' /\ state' = "describing" => Len(taken') = TextStart
        /\ failures < MaxFailures /\ failures' = failures + 1
    BY <1>3, Zenon DEF FileWriteShort
  <2> QED
    BY <2>1, <2>2
<1> QED
  BY <1>1, <1>2, <1>3 DEF UploadFails

LEMMA UploadFailsInv ==
  ASSUME StreamInv, NEW n \in 0 .. INBUFSIZE, UploadFails(n)
  PROVE  StreamInv'
<1>1. Buffers
  BY DEF StreamInv
<1> QED
  BY <1>1, UploadFailsStep, FileTakenInv

(* The steps that read nothing. *)
Idle == ReadNothing \/ LineReadFails \/ UNCHANGED vars

LEMMA IdleStep ==
  ASSUME Idle
  PROVE  /\ UNCHANGED <<script, sent, wire, buf, rest, package_rest, stored,
                        description, saved, lines, taken, whole, inStep, clean,
                        torn, cut>>
         /\ Messages' = Messages
         /\ state' \in {state, "closed"}
         /\ \/ failures' = failures
            \/ failures < MaxFailures /\ failures' = failures + 1
<1>1. /\ UNCHANGED <<script, sent, wire, buf, rest, package_rest, stored,
                     description, saved, lines, taken, whole, inStep, clean,
                     torn, cut>>
      /\ state' \in {state, "closed"}
      /\ \/ failures' = failures
         \/ failures < MaxFailures /\ failures' = failures + 1
  BY DEF Idle, ReadNothing, LineReadFails, vars, client, file, told
<1> QED
  BY <1>1, SameStream

(* The steps of Next, by what they read. *)
LEMMA NextCases ==
  ASSUME [Next]_vars
  PROVE  \/ Send
         \/ \E n \in 1 .. INBUFSIZE : Read(n)
         \/ Idle
         \/ \E n \in 0 .. INBUFSIZE : UploadFails(n)
<1>1. 0 \in 0 .. INBUFSIZE
  BY TransferAssumption
<1> QED
  BY <1>1, Zenon DEF Next, Idle, UploadFails

LEMMA NextInv == StreamInv /\ [Next]_vars => StreamInv'
<1> SUFFICES ASSUME StreamInv, [Next]_vars PROVE StreamInv'
  OBVIOUS
<1>1. CASE Send
  BY <1>1, SendInv
<1>2. CASE \E n \in 1 .. INBUFSIZE : Read(n)
  BY <1>2, ReadCommandInv, ReadFileInv, ReadDescriptionInv DEF Read
<1>3. CASE Idle
  BY <1>3, IdleStep DEF StreamInv, Buffers, ReadHasRoom, BytesInOrder
<1>4. CASE \E n \in 0 .. INBUFSIZE : UploadFails(n)
  BY <1>4, UploadFailsInv
<1> QED
  BY <1>1, <1>2, <1>3, <1>4, NextCases

(* Behind every step of the three handlers StreamInv holds. *)
THEOREM Invariance == Spec => []StreamInv
BY InitInv, NextInv, PTL DEF Spec

(* read() is called with room, whatever the client sends and the network   *)
(* makes of it (session_do_read).                                          *)
THEOREM AlwaysRoom == Spec => []ReadHasRoom
<1>1. StreamInv => ReadHasRoom
  BY DEF StreamInv
<1> QED
  BY <1>1, Invariance, PTL

(* Every byte is taken once and in order, through the three readers of the *)
(* socket (session_do_read, file_upload, file_upload_description).         *)
THEOREM NoByteLost == Spec => []BytesInOrder
<1>1. StreamInv => BytesInOrder
  BY DEF StreamInv
<1> QED
  BY <1>1, Invariance, PTL

-----------------------------------------------------------------------------
(* Types. *)

LEMMA SizesInSizeT ==
  /\ 0 \in SizeT
  /\ \A p \in DOMAIN SizeIn : SizeIn[p] \in SizeT /\ SizeIn[p] \in Nat \ {0}
  /\ \A s \in Script : Len(s.content) \in SizeT
<1>1. \A p \in DOMAIN SizeIn : SizeIn[p] \in Nat \ {0}
  BY DEF SizeIn
<1>2. \A p \in DOMAIN SizeIn : SizeIn[p] < SizeMod
  BY StreamAssumption
<1>3. \A s \in Script : s.content \in Seq(Byte) /\ Len(s.content) < SizeMod
  BY StreamAssumption
<1>4. \A s \in Script : Len(s.content) \in Nat
  BY <1>3, LenProperties
<1> QED
  BY <1>1, <1>2, <1>3, <1>4, TransferAssumption DEF SizeT

(* What is looked for in a descriptor is one of the values it may have.    *)
LEMMA DescriptorTypes ==
  ASSUME NEW r, NEW i
  PROVE  Signals(r, i) \subseteq Signal /\ PackageSizes(r, i) \subseteq SizeT
<1>1. Signals(r, i) \subseteq Signal
  BY DEF Signals
<1>2. PackageSizes(r, i) \subseteq {SizeIn[s] : s \in DOMAIN SizeIn}
  BY Zenon DEF PackageSizes
<1> QED
  BY <1>1, <1>2, SizesInSizeT

(* The two writes of file_upload are within what was read. *)
LEMMA WritesInBuffer ==
  ASSUME NEW r1 \in SizeT, NEW p1 \in SizeT, NEW n \in 1 .. INBUFSIZE,
         NEW sig, NEW ps, NEW u, u = UploadStep(r1, p1, n, sig, ps)
  PROVE  /\ u.first \in 0 .. n /\ u.first <= p1
         /\ u.second \in 0 .. n
         /\ u.second > 0 => p1 + SizeofPd + u.second <= n
<1> DEFINE first == FirstWrite(p1, n)
           rest1 == Minus(r1, first)
           second == SecondWrite(rest1, p1, n)
<1>1. first \in 0 .. n /\ first <= p1
  BY TransferAssumption DEF SizeT, FirstWrite, AsSizeT, Lesser
<1>2. rest1 \in SizeT
  <2>1. first \in SizeT
    BY <1>1, TransferAssumption DEF SizeT
  <2> HIDE DEF first
  <2> QED
    BY <2>1, MinusInSizeT
<1>3. second \in 0 .. n /\ (second > 0 => p1 + SizeofPd + second <= n)
  BY <1>2, TransferAssumption DEF SecondWrite, Behind, Lesser, SizeT
<1>4. u.first = first /\ u.second \in {0, second}
  BY DEF UploadStep
<1> HIDE DEF first, rest1, second
<1> QED
  BY <1>1, <1>3, <1>4, TransferAssumption

(* What is written are bytes. *)
LEMMA PartsBytes ==
  ASSUME NEW n \in 1 .. INBUFSIZE, NEW r \in Seq(Byte), Len(r) = n,
         package_rest \in SizeT, NEW j \in 0 .. n, NEW k \in 0 .. n,
         k > 0 => package_rest + SizeofPd + k <= n
  PROVE  Parts(r, j, k) \in Seq(Byte) /\ Len(Parts(r, j, k)) = j + k
<1> DEFINE from == package_rest + SizeofPd
<1>1. k > 0 => from + k <= n
  OBVIOUS
<1>2. from \in Nat
  BY TransferAssumption DEF SizeT
<1> HIDE DEF from
<1>3. SubSeq(r, 1, j) \in Seq(Byte) /\ Len(SubSeq(r, 1, j)) = j
  BY <1>1, Split
<1>4. /\ SubSeq(r, from + 1, from + k) \in Seq(Byte)
      /\ Len(SubSeq(r, from + 1, from + k)) = k
  <2>1. \A i \in from + 1 .. from + k : i \in 1 .. Len(r)
    BY <1>1, <1>2
  <2>2. \A i \in from + 1 .. from + k : r[i] \in Byte
    BY <2>1, ElementOfSeq
  <2>3. from + 1 \in Int /\ from + k \in Int
    BY <1>1, <1>2
  <2> DEFINE a == from + 1  b == from + k
  <2>4. /\ SubSeq(r, a, b) \in Seq(Byte)
        /\ Len(SubSeq(r, a, b)) = IF a <= b THEN b - a + 1 ELSE 0
    <3> HIDE DEF a, b
    <3>1. a \in Int /\ b \in Int /\ \A i \in a .. b : r[i] \in Byte
      BY <2>2, <2>3 DEF a, b
    <3> QED
      BY <3>1, SubSeqProperties
  <2>5. (IF a <= b THEN b - a + 1 ELSE 0) = k
    BY <1>1, <1>2
  <2> QED
    BY <2>4, <2>5
<1>5. /\ SubSeq(r, 1, j) \o SubSeq(r, from + 1, from + k) \in Seq(Byte)
      /\ Len(SubSeq(r, 1, j) \o SubSeq(r, from + 1, from + k)) = j + k
  <2> DEFINE x == SubSeq(r, 1, j)
             y == SubSeq(r, from + 1, from + k)
  <2>1. x \in Seq(Byte) /\ y \in Seq(Byte) /\ Len(x) = j /\ Len(y) = k
    BY <1>3, <1>4
  <2> HIDE DEF x, y
  <2>2. x \o y \in Seq(Byte) /\ Len(x \o y) = Len(x) + Len(y)
    BY <2>1, ByteConcat, Zenon
  <2>3. x \o y \in Seq(Byte) /\ Len(x \o y) = j + k
    BY <2>1, <2>2, Zenon
  <2> QED
    BY <2>3, Zenon DEF x, y
<1> QED
  BY <1>5 DEF Parts, from

LEMMA WrittenBytes ==
  ASSUME NEW n \in 1 .. INBUFSIZE, NEW r \in Seq(Byte), Len(r) = n,
         rest \in SizeT, package_rest \in SizeT, NEW sig, NEW ps
  PROVE  LET u == UploadStep(rest, package_rest, n, sig, ps)
         IN  /\ Written(r, u) \in Seq(Byte)
             /\ Len(Written(r, u)) = u.first + u.second
<1> DEFINE u == UploadStep(rest, package_rest, n, sig, ps)
<1>1. /\ u.first \in 0 .. n /\ u.second \in 0 .. n
      /\ u.second > 0 => package_rest + SizeofPd + u.second <= n
  BY WritesInBuffer
<1> HIDE DEF u
<1>2. /\ Parts(r, u.first, u.second) \in Seq(Byte)
      /\ Len(Parts(r, u.first, u.second)) = u.first + u.second
  BY <1>1, PartsBytes
<1> QED
  BY <1>2, Zenon DEF Written, u

LEMMA TypeInit == Init => TypeOK
<1> SUFFICES ASSUME Init PROVE TypeOK
  OBVIOUS
<1>1. script \in Script /\ Messages \in Seq(Seq(Byte))
  BY MessagesSeq DEF Init
<1>2. sent \in 0 .. Len(Messages)
  BY <1>1, LenProperties DEF Init
<1>3. script.begin \in {"command", "describing"}
  BY <1>1, StreamAssumption
<1>4. failures \in 0 .. MaxFailures
  BY StreamAssumption DEF Init
<1> QED
  BY <1>1, <1>2, <1>3, <1>4, SizesInSizeT, EmptySeq DEF Init, TypeOK

LEMMA TypeSend ==
  ASSUME TypeOK, Send
  PROVE  TypeOK'
<1>1. Messages \in Seq(Seq(Byte)) /\ Messages' = Messages
  BY MessagesSeq, SameStream DEF TypeOK, Send
<1>2. sent' = sent + 1 /\ sent' \in 1 .. Len(Messages)
  BY <1>1, LenProperties DEF TypeOK, Send
<1>3. Messages[sent'] \in Seq(Byte)
  BY <1>1, <1>2, LenProperties
<1>4. wire' \in Seq(Byte)
  BY <1>3, ConcatProperties DEF TypeOK, Send
<1>5. sent' \in 0 .. Len(Messages')
  BY <1>1, <1>2
<1> QED
  BY <1>4, <1>5 DEF TypeOK, Send, file, told

(* What session_do_read takes and leaves are bytes. *)
LEMMA LineReadTypes ==
  ASSUME TypeOK, NEW n \in LineReads, NEW k \in 1 .. Len(Received(n))
  PROVE  /\ SubSeq(wire, n + 1, Len(wire)) \in Seq(Byte)
         /\ SubSeq(Received(n), k + 1, Len(Received(n))) \in Seq(Byte)
         /\ SubSeq(Received(n), 1, k) \in Seq(Byte)
         /\ SubSeq(Received(n), 1, k) # <<>>
         /\ taken \o SubSeq(Received(n), 1, k) \in Seq(Byte)
<1>1. n \in 0 .. Len(wire)
  BY ReadBounds DEF TypeOK
<1>2. SubSeq(wire, n + 1, Len(wire)) \in Seq(Byte)
  BY <1>1, Split DEF TypeOK
<1> DEFINE b == Received(n)
<1>3. b \in Seq(Byte)
  BY ReceivedBytes DEF TypeOK, Buffers
<1>4. k \in 0 .. Len(b)
  BY <1>3, LenProperties
<1> HIDE DEF b
<1>5. /\ SubSeq(b, k + 1, Len(b)) \in Seq(Byte)
      /\ SubSeq(b, 1, k) \in Seq(Byte) /\ Len(SubSeq(b, 1, k)) = k
  BY <1>3, <1>4, Split
<1>6. SubSeq(b, 1, k) # <<>>
  BY <1>5, EmptySeq DEF b
<1>7. taken \o SubSeq(b, 1, k) \in Seq(Byte)
  BY <1>5, ConcatProperties DEF TypeOK
<1> QED
  BY <1>2, <1>5, <1>6, <1>7 DEF b

LEMMA TypeReadCommand ==
  ASSUME TypeOK, NEW n \in 1 .. INBUFSIZE, ReadCommand(n)
  PROVE  TypeOK'
<1> DEFINE b == Received(n)
           k == Taken(b)
<1>1. n \in LineReads
  BY DEF ReadCommand
<1>2. k \in 1 .. Len(b)
  BY <1>1, ReceivedBytes, TakenBounds DEF TypeOK, Buffers
<1>3. /\ wire' \in Seq(Byte) /\ buf' \in Seq(Byte) /\ taken' \in Seq(Byte)
      /\ SubSeq(b, 1, k) \in Seq(Byte) /\ SubSeq(b, 1, k) # <<>>
  <2>1. /\ wire' = SubSeq(wire, n + 1, Len(wire))
        /\ buf' = SubSeq(b, k + 1, Len(b))
        /\ taken' = taken \o SubSeq(b, 1, k)
    BY DEF ReadCommand, Rest
  <2> HIDE DEF k
  <2> QED
    BY <1>1, <1>2, <2>1, LineReadTypes
<1>4. Line(b) \in Seq(Byte) \ {<<>>}
  BY <1>3, UnixSeq, UnixNotEmpty, Zenon DEF Line
<1>5. lines' \in Seq(Seq(Byte) \ {<<>>})
  <2>1. lines' \in {lines, Append(lines, Line(b))}
    BY DEF ReadCommand
  <2> HIDE DEF b
  <2>2. Append(lines, Line(b)) \in Seq(Seq(Byte) \ {<<>>})
    BY <1>4, AppendProperties, Zenon DEF TypeOK
  <2> QED
    BY <2>1, <2>2 DEF TypeOK
<1>6. script' = script /\ sent' = sent /\ Messages' = Messages
  BY SameStream DEF ReadCommand, client
<1>7. state' \in {"command", "upload", "describing", "closed"}
  BY DEF ReadCommand, TypeOK
<1>8. /\ rest' \in SizeT /\ package_rest' \in SizeT
      /\ stored' \in Seq(Byte) /\ description' \in Seq(Byte)
  BY SizesInSizeT, EmptySeq DEF ReadCommand, TypeOK, file
<1>9. {whole', inStep', clean', torn', cut'} \subseteq BOOLEAN
  BY DEF ReadCommand, TypeOK, IsMessage
<1>10. saved' = saved /\ failures' = failures
  BY DEF ReadCommand
<1> HIDE DEF b, k
<1> QED
  BY <1>3, <1>5, <1>6, <1>7, <1>8, <1>9, <1>10 DEF TypeOK

LEMMA TypeReadFile ==
  ASSUME TypeOK, NEW n \in 1 .. INBUFSIZE, ReadFile(n)
  PROVE  TypeOK'
<1> DEFINE r == SubSeq(wire, 1, n)
<1>1. n \in 1 .. Len(wire)
  BY ReadBounds DEF TypeOK, ReadFile
<1>2. /\ r \in Seq(Byte) /\ Len(r) = n
      /\ SubSeq(wire, n + 1, Len(wire)) \in Seq(Byte)
  BY <1>1, Split DEF TypeOK
<1>3. wire' \in Seq(Byte) /\ taken' \in Seq(Byte)
  <2>1. wire' = SubSeq(wire, n + 1, Len(wire)) /\ taken' = taken \o r
    BY DEF ReadFile
  <2> HIDE DEF r
  <2> QED
    BY <1>2, <2>1, ConcatProperties DEF TypeOK
<1>4. PICK sig \in Signals(r, package_rest + 1),
           ps \in PackageSizes(r, package_rest + 2) :
        LET u == UploadStep(rest, package_rest, n, sig, ps)
        IN  /\ clean' = (clean /\ ReadClean(n, sig, ps))
            /\ rest' = u.rest
            /\ package_rest' = u.package_rest
            /\ IF u.cancel
               THEN stored' = <<>> /\ state' = "command"
               ELSE /\ stored' = stored \o Written(r, u)
                    /\ state' = IF u.rest = 0 THEN "describing" ELSE "upload"
  BY Zenon DEF ReadFile
<1> DEFINE u == UploadStep(rest, package_rest, n, sig, ps)
<1>5. sig \in Signal /\ ps \in SizeT
  BY DescriptorTypes
<1>6. u.rest \in SizeT /\ u.package_rest \in SizeT
  BY <1>5, UploadStepCounts DEF TypeOK
<1>7. Written(r, u) \in Seq(Byte)
  BY <1>2, <1>5, WrittenBytes DEF TypeOK
<1>8. rest' \in SizeT /\ package_rest' \in SizeT
  BY <1>4, <1>6, Zenon
<1>9. /\ stored' \in Seq(Byte)
      /\ state' \in {"command", "upload", "describing", "closed"}
  <2>1. stored \o Written(r, u) \in Seq(Byte)
    BY <1>7, ConcatProperties DEF TypeOK
  <2>2. \/ stored' = <<>> /\ state' = "command"
        \/ /\ stored' = stored \o Written(r, u)
           /\ state' \in {"describing", "upload"}
    <3> HIDE DEF r
    <3> QED
      BY <1>4
  <2> QED
    BY <2>1, <2>2, EmptySeq
<1>10. {inStep', clean', whole', torn', cut'} \subseteq BOOLEAN
  BY <1>4 DEF ReadFile, TypeOK, ReadClean
<1>11. /\ script' = script /\ sent' = sent /\ Messages' = Messages
       /\ UNCHANGED <<buf, description, saved, lines, failures>>
  BY SameStream DEF ReadFile, client
<1> HIDE DEF r
<1> QED
  BY <1>3, <1>8, <1>9, <1>10, <1>11 DEF TypeOK

LEMMA TypeUploadFails ==
  ASSUME TypeOK, NEW n \in 0 .. INBUFSIZE, UploadFails(n)
  PROVE  TypeOK'
<1>1. Buffers
  BY DEF TypeOK, Buffers
<1>2. /\ n \in 0 .. Len(wire)
      /\ UNCHANGED <<client, buf, description, saved, lines, whole, cut>>
      /\ wire' = SubSeq(wire, n + 1, Len(wire))
      /\ taken' = taken \o SubSeq(wire, 1, n)
      /\ clean' = FALSE
      /\ failures < MaxFailures /\ failures' = failures + 1
  BY <1>1, UploadFailsStep
<1>3. wire' \in Seq(Byte) /\ taken' \in Seq(Byte)
  <2>1. SubSeq(wire, 1, n) \in Seq(Byte) /\ SubSeq(wire, n + 1, Len(wire)) \in Seq(Byte)
    BY <1>2, Split DEF TypeOK
  <2> QED
    BY <1>2, <2>1, ConcatProperties DEF TypeOK
<1>4. script' = script /\ sent' = sent /\ Messages' = Messages
  BY <1>2, SameStream DEF client
<1>5. /\ rest' \in SizeT /\ package_rest' \in SizeT /\ stored' \in Seq(Byte)
      /\ state' \in {"command", "upload", "describing", "closed"}
      /\ inStep' \in BOOLEAN /\ torn' \in BOOLEAN
  <2>1. CASE FileReadFails
    <3>1. PICK sig \in Signals(<<>>, 1), ps \in PackageSizes(<<>>, 2) :
            LET u == UploadStep(rest, package_rest, -1, sig, ps)
            IN  /\ rest' = u.rest
                /\ package_rest' = u.package_rest
                /\ IF u.cancel
                   THEN stored' = <<>> /\ state' = "command"
                   ELSE /\ stored' = stored \o [i \in 1 .. u.first |-> "?"]
                        /\ state' = IF u.rest = 0 THEN "describing" ELSE "upload"
      BY <2>1, Zenon DEF FileReadFails
    <3> DEFINE u == UploadStep(rest, package_rest, -1, sig, ps)
    <3>2. sig \in Signal /\ ps \in SizeT
      BY DescriptorTypes
    <3>3. rest \in SizeT /\ package_rest \in SizeT
      BY DEF TypeOK
    <3>4. u.rest \in SizeT /\ u.package_rest \in SizeT /\ u.first \in SizeT
      BY <3>2, <3>3, UploadStepCounts
    <3>5. [i \in 1 .. u.first |-> "?"] \in Seq(Byte)
      <4> HIDE DEF u
      <4>1. \A i \in 1 .. u.first : "?" \in Byte
        BY DEF Byte
      <4> QED
        BY <3>4, <4>1 DEF SizeT
    <3>6. stored \o [i \in 1 .. u.first |-> "?"] \in Seq(Byte)
      <4> HIDE DEF u
      <4> QED
        BY <3>5, ConcatProperties DEF TypeOK
    <3>7. inStep' \in BOOLEAN /\ torn' \in BOOLEAN
      BY <2>1 DEF FileReadFails, TypeOK
    <3> HIDE DEF u
    <3>8. /\ rest' = u.rest /\ package_rest' = u.package_rest
          /\ \/ stored' = <<>> /\ state' = "command"
             \/ /\ stored' = stored \o [i \in 1 .. u.first |-> "?"]
                /\ state' \in {"describing", "upload"}
      BY <3>1 DEF u
    <3> QED
      BY <3>4, <3>6, <3>7, <3>8, EmptySeq
  <2>2. CASE FileWriteFails(n)
    BY <2>2, EmptySeq DEF FileWriteFails, TypeOK
  <2>3. CASE FileWriteShort(n)
    <3> DEFINE r == SubSeq(wire, 1, n)
    <3>1. PICK sig \in Signals(r, package_rest + 1),
               ps \in PackageSizes(r, package_rest + 2) :
            LET u == UploadStep(rest, package_rest, n, sig, ps)
            IN  \E j \in Lesser(1, u.first) .. u.first,
                   k \in Lesser(1, u.second) .. u.second :
                  /\ stored' = stored \o Parts(r, j, k)
                  /\ rest' = u.rest
                  /\ package_rest' = u.package_rest
                  /\ state' = IF u.rest = 0 THEN "describing" ELSE "upload"
      BY <2>3, Zenon DEF FileWriteShort
    <3> DEFINE u == UploadStep(rest, package_rest, n, sig, ps)
    <3>2. PICK j \in Lesser(1, u.first) .. u.first,
               k \in Lesser(1, u.second) .. u.second :
            /\ stored' = stored \o Parts(r, j, k)
            /\ rest' = u.rest
            /\ package_rest' = u.package_rest
            /\ state' = IF u.rest = 0 THEN "describing" ELSE "upload"
      BY <3>1, Zenon
    <3>3. sig \in Signal /\ ps \in SizeT
      BY DescriptorTypes
    <3>4. rest \in SizeT /\ package_rest \in SizeT
      BY DEF TypeOK
    <3>5. n \in 1 .. INBUFSIZE
      BY <2>3 DEF FileWriteShort, FileReads
    <3>6. r \in Seq(Byte) /\ Len(r) = n
      BY <1>2, Split DEF TypeOK
    <3>7. u.rest \in SizeT /\ u.package_rest \in SizeT
      BY <3>3, <3>4, <3>5, UploadStepCounts
    <3>8. /\ u.first \in 0 .. n /\ u.second \in 0 .. n
          /\ u.second > 0 => package_rest + SizeofPd + u.second <= n
      BY <3>4, <3>5, WritesInBuffer
    <3> HIDE DEF r, u
    <3>9. /\ j \in 0 .. n /\ k \in 0 .. n
          /\ k > 0 => package_rest + SizeofPd + k <= n
      BY <3>4, <3>5, <3>8, TransferAssumption DEF Lesser, SizeT
    <3>10. Parts(r, j, k) \in Seq(Byte)
      BY <3>4, <3>5, <3>6, <3>9, PartsBytes
    <3>11. stored' \in Seq(Byte)
      BY <3>2, <3>10, ConcatProperties DEF TypeOK
    <3>12. inStep' \in BOOLEAN /\ torn' \in BOOLEAN
      BY <2>3 DEF FileWriteShort, TypeOK
    <3>13. state' \in {"command", "upload", "describing", "closed"}
      BY <3>2
    <3>14. rest' \in SizeT /\ package_rest' \in SizeT
      BY <3>2, <3>7
    <3> QED
      BY <3>11, <3>12, <3>13, <3>14
  <2> QED
    BY <2>1, <2>2, <2>3 DEF UploadFails
<1>6. failures' \in 0 .. MaxFailures
  BY <1>2, StreamAssumption DEF TypeOK
<1>7. UNCHANGED <<buf, description, saved, lines, whole, cut>>
  BY <1>2
<1> QED
  BY <1>2, <1>3, <1>4, <1>5, <1>6, <1>7 DEF TypeOK

LEMMA TypeIdle ==
  ASSUME TypeOK, Idle
  PROVE  TypeOK'
BY IdleStep, StreamAssumption DEF TypeOK

(* Cutting the marker off. *)
LEMMA CutBytes ==
  ASSUME NEW d \in Seq(Byte)
  PROVE  Cut(d) \in Seq(Byte)
<1>1. Len(d) \in Nat /\ Len(Marker) = 2
  BY LenProperties DEF Marker
<1>2. CASE Len(d) <= 2
  BY <1>1, <1>2 DEF Cut
<1>3. CASE Len(d) > 2
  <2>1. Len(d) - 2 - 1 \in 0 .. Len(d)
    BY <1>1, <1>3
  <2> QED
    BY <1>1, <1>3, <2>1, Split DEF Cut
<1> QED
  BY <1>1, <1>2, <1>3

LEMMA TypeReadDescription ==
  ASSUME TypeOK, NEW n \in 1 .. INBUFSIZE, ReadDescription(n)
  PROVE  TypeOK'
<1> DEFINE b == Received(n)
           k == Collected(b)
           d == description \o Unix(SubSeq(b, 1, k))
<1>1. n \in LineReads
  BY DEF ReadDescription
<1>2. k \in 1 .. Len(b)
  BY <1>1, ReceivedBytes, CollectedBounds DEF TypeOK, Buffers
<1>3. /\ wire' \in Seq(Byte) /\ buf' \in Seq(Byte) /\ taken' \in Seq(Byte)
      /\ SubSeq(b, 1, k) \in Seq(Byte)
  <2>1. /\ wire' = SubSeq(wire, n + 1, Len(wire))
        /\ buf' = SubSeq(b, k + 1, Len(b))
        /\ taken' = taken \o SubSeq(b, 1, k)
    BY DEF ReadDescription
  <2> HIDE DEF k
  <2> QED
    BY <1>1, <1>2, <2>1, LineReadTypes
<1>4. d \in Seq(Byte) /\ Cut(d) \in Seq(Byte)
  <2>1. Unix(SubSeq(b, 1, k)) \in Seq(Byte)
    BY <1>3, UnixSeq, Zenon
  <2>2. d \in Seq(Byte)
    BY <2>1, ConcatProperties DEF TypeOK
  <2> QED
    BY <2>2, CutBytes
<1>5. \/ /\ saved' = Append(saved, [bytes |-> stored, description |-> Cut(d)])
         /\ state' = "command" /\ stored' = <<>> /\ description' = <<>>
      \/ description' = d /\ UNCHANGED <<saved, state, stored>>
  BY DEF ReadDescription
<1>6. /\ script' = script /\ sent' = sent /\ Messages' = Messages
      /\ UNCHANGED <<rest, package_rest, lines, whole, inStep, clean, torn,
                     failures>>
  BY SameStream DEF ReadDescription, client
<1>7. cut' \in BOOLEAN
  BY DEF ReadDescription, TypeOK
<1> HIDE DEF d, k, b
<1>8. /\ saved' \in Seq([bytes : Seq(Byte), description : Seq(Byte)])
      /\ state' \in {"command", "upload", "describing", "closed"}
      /\ stored' \in Seq(Byte) /\ description' \in Seq(Byte)
  <2> DEFINE a == [bytes |-> stored, description |-> Cut(d)]
             R == [bytes : Seq(Byte), description : Seq(Byte)]
  <2>1. a \in R /\ saved \in Seq(R)
    BY <1>4 DEF TypeOK
  <2> HIDE DEF R
  <2>2. Append(saved, a) \in Seq(R)
    BY <2>1, AppendProperties
  <2>3. saved' \in Seq(R)
    BY <1>5, <2>1, <2>2
  <2>4. /\ state' \in {"command", "upload", "describing", "closed"}
        /\ stored' \in Seq(Byte) /\ description' \in Seq(Byte)
    BY <1>4, <1>5, EmptySeq DEF TypeOK
  <2> QED
    BY <2>3, <2>4 DEF R
<1> QED
  BY <1>3, <1>6, <1>7, <1>8 DEF TypeOK

(* Every variable has its type; lines are not empty, the counters of an    *)
(* upload stay size_t values (session_do_read, file_upload).               *)
THEOREM TypeCorrect == Spec => []TypeOK
<1>1. TypeOK /\ [Next]_vars => TypeOK'
  <2> SUFFICES ASSUME TypeOK, [Next]_vars PROVE TypeOK'
    OBVIOUS
  <2>1. CASE Send
    BY <2>1, TypeSend
  <2>2. CASE \E n \in 1 .. INBUFSIZE : Read(n)
    BY <2>2, TypeReadCommand, TypeReadFile, TypeReadDescription DEF Read
  <2>3. CASE Idle
    BY <2>3, TypeIdle
  <2>4. CASE \E n \in 0 .. INBUFSIZE : UploadFails(n)
    BY <2>4, TypeUploadFails
  <2> QED
    BY <2>1, <2>2, <2>3, <2>4, NextCases
<1> QED
  BY <1>1, TypeInit, PTL DEF Spec

-----------------------------------------------------------------------------
(* Lines are messages. *)

(* No message is empty, and the commands come first. *)
LEMMA MessagesNotEmpty ==
  ASSUME script \in Script
  PROVE  /\ Messages \in Seq(Seq(Byte) \ {<<>>})
         /\ \A i \in 1 .. Len(script.commands) :
              /\ i \in 1 .. Len(Messages)
              /\ Messages[i] = script.commands[i]
<1> DEFINE M == Seq(Byte) \ {<<>>}
<1>1. script.commands \in Seq(M) /\ File \in Seq(Byte) /\ script.text \in Seq(Byte)
  BY ScriptTypes, StreamAssumption
<1>2. \A m \in Seq(Byte) : MessageOf(m) \in Seq(M)
  <2> TAKE m \in Seq(Byte)
  <2>1. CASE m = <<>>
    BY <2>1, EmptySeq DEF MessageOf
  <2>2. CASE m # <<>>
    <3>1. m \in M
      BY <2>2
    <3> HIDE DEF M
    <3>2. <<m>> \in Seq(M)
      BY <3>1
    <3> QED
      BY <2>2, <3>2 DEF MessageOf
  <2> QED
    BY <2>1, <2>2
<1> DEFINE c == script.commands
           f == MessageOf(File)
           t == MessageOf(script.text)
<1>3. c \in Seq(M) /\ f \in Seq(M) /\ t \in Seq(M)
  BY <1>1, <1>2
<1>4. Messages = (c \o f) \o t
  BY DEF Messages
<1> HIDE DEF M, c, f, t
<1>5. /\ c \o f \in Seq(M) /\ Len(c \o f) = Len(c) + Len(f)
      /\ \A i \in 1 .. Len(c) + Len(f) :
           (c \o f)[i] = IF i <= Len(c) THEN c[i] ELSE f[i - Len(c)]
      /\ Len(c) \in Nat /\ Len(f) \in Nat /\ Len(t) \in Nat
  BY <1>3, ConcatProperties, LenProperties
<1> DEFINE cf == c \o f
<1> HIDE DEF cf
<1>6. /\ cf \o t \in Seq(M) /\ Len(cf \o t) = Len(cf) + Len(t)
      /\ \A i \in 1 .. Len(cf) + Len(t) :
           (cf \o t)[i] = IF i <= Len(cf) THEN cf[i] ELSE t[i - Len(cf)]
  <2>1. cf \in Seq(M)
    BY <1>5 DEF cf
  <2> QED
    BY <1>3, <2>1, ConcatProperties
<1>7. \A i \in 1 .. Len(c) :
        /\ i \in 1 .. Len(cf \o t)
        /\ (cf \o t)[i] = c[i]
  <2>1. Len(cf) = Len(c) + Len(f)
        /\ \A i \in 1 .. Len(c) + Len(f) :
             cf[i] = IF i <= Len(c) THEN c[i] ELSE f[i - Len(c)]
    BY <1>5 DEF cf
  <2> QED
    BY <1>5, <1>6, <2>1
<1> QED
  BY <1>4, <1>6, <1>7 DEF c, M, cf

(* More messages are more bytes. *)
LEMMA FlatGrows ==
  ASSUME NEW S, NEW s \in Seq(Seq(S) \ {<<>>}), NEW j \in 0 .. Len(s)
  PROVE  \A k \in 0 .. Len(s) - j :
           Len(Flat(s, j + k)) >= Len(Flat(s, j)) + k
<1>1. s \in Seq(Seq(S)) /\ Len(s) \in Nat
      /\ \A i \in 1 .. Len(s) : s[i] \in Seq(S) \ {<<>>}
  BY SeqMonotonic, LenProperties, ElementOfSeq
<1> DEFINE n == Len(s) - j
           T == {k \in 0 .. n : Len(Flat(s, j + k)) >= Len(Flat(s, j)) + k}
<1>2. \A k \in 0 .. n : Len(Flat(s, j + k)) \in Nat
  <2> TAKE k \in 0 .. n
  <2>1. j + k \in 0 .. Len(s)
    BY <1>1
  <2>2. Flat(s, j + k) \in Seq(S)
    BY <1>1, <2>1, FlatSeq
  <2> QED
    BY <2>2, LenProperties
<1>3. n \in Nat /\ j \in Nat
  BY <1>1
<1>4. 0 \in T
  <2>1. j + 0 = j /\ 0 \in 0 .. n
    BY <1>3
  <2>2. Len(Flat(s, j)) \in Nat
    BY <1>2, <2>1
  <2> QED
    BY <2>1, <2>2
<1>5. ASSUME NEW k \in 0 .. n - 1, k \in T
      PROVE  k + 1 \in T
  <2>1. /\ j + k \in 0 .. Len(s) /\ j + k < Len(s)
        /\ (j + k) + 1 = j + (k + 1) /\ j + (k + 1) \in 1 .. Len(s)
        /\ k \in 0 .. n /\ k + 1 \in 0 .. n
    BY <1>1, <1>3
  <2>2. Len(Flat(s, (j + k) + 1)) = Len(Flat(s, j + k)) + Len(s[(j + k) + 1])
    BY <1>1, <2>1, FlatStep
  <2>3. Len(s[j + (k + 1)]) \in Nat \ {0}
    BY <1>1, <2>1, EmptySeq
  <2>4. Len(Flat(s, j + k)) >= Len(Flat(s, j)) + k
    BY <1>5
  <2>5. Len(Flat(s, j + k)) \in Nat
    BY <1>2, <2>1
  <2>6. Len(Flat(s, j + 0)) \in Nat
    BY <1>2, <1>3
  <2>7. Len(Flat(s, j + (k + 1))) = Len(Flat(s, j + k)) + Len(s[j + (k + 1)])
    BY <2>1, <2>2
  <2>8. j + 0 = j
    BY <1>3
  <2>9. Len(Flat(s, j + (k + 1))) >= Len(Flat(s, j)) + (k + 1)
    <3> DEFINE x == Len(Flat(s, j))  y == Len(Flat(s, j + k))
               z == Len(s[j + (k + 1)])  w == Len(Flat(s, j + (k + 1)))
    <3>1. x \in Nat /\ y \in Nat /\ z \in Nat \ {0} /\ w = y + z /\ y >= x + k
      BY <2>3, <2>4, <2>5, <2>6, <2>7, <2>8
    <3> HIDE DEF x, y, z, w
    <3>2. w >= x + (k + 1)
      BY <1>3, <2>1, <3>1
    <3> QED
      BY <3>2 DEF x, w
  <2> QED
    BY <2>1, <2>9
<1> HIDE DEF n, T
<1>6. \A k \in 0 .. n : k \in T
  BY <1>3, <1>4, <1>5, UpTo
<1> QED
  BY <1>6 DEF n, T

(* Two ends of one sequence that have the same length are the same. *)
LEMMA SameEnd ==
  ASSUME NEW S, NEW a \in Seq(S), NEW b \in Seq(S), NEW c \in Seq(S),
         NEW d \in Seq(S), a \o b = c \o d, Len(b) = Len(d)
  PROVE  a = c /\ b = d
<1>1. /\ Len(a) \in Nat /\ Len(b) \in Nat /\ Len(c) \in Nat /\ Len(d) \in Nat
      /\ Len(a \o b) = Len(a) + Len(b)
      /\ Len(c \o d) = Len(c) + Len(d)
  BY ConcatProperties, LenProperties
<1>2. Len(a) = Len(c)
  BY <1>1
<1>3. \A i \in 1 .. Len(a) + Len(b) :
        /\ (a \o b)[i] = IF i <= Len(a) THEN a[i] ELSE b[i - Len(a)]
        /\ (c \o d)[i] = IF i <= Len(c) THEN c[i] ELSE d[i - Len(c)]
  <2>1. \A i \in 1 .. Len(a) + Len(b) :
          (a \o b)[i] = IF i <= Len(a) THEN a[i] ELSE b[i - Len(a)]
    BY ConcatProperties, Zenon
  <2>2. \A i \in 1 .. Len(c) + Len(d) :
          (c \o d)[i] = IF i <= Len(c) THEN c[i] ELSE d[i - Len(c)]
    BY ConcatProperties, Zenon
  <2>3. Len(c) + Len(d) = Len(a) + Len(b)
    BY <1>2
  <2> QED
    BY <2>1, <2>2, <2>3
<1>4. \A i \in 1 .. Len(a) : a[i] = c[i]
  <2> TAKE i \in 1 .. Len(a)
  <2>1. i \in 1 .. Len(a) + Len(b) /\ i <= Len(a)
    BY <1>1
  <2> QED
    BY <1>2, <1>3, <2>1
<1>5. \A i \in 1 .. Len(b) : b[i] = d[i]
  <2> TAKE i \in 1 .. Len(b)
  <2>1. Len(a) + i \in 1 .. Len(a) + Len(b) /\ ~(Len(a) + i <= Len(a))
        /\ Len(a) + i - Len(a) = i
    BY <1>1
  <2> QED
    BY <1>2, <1>3, <2>1
<1> QED
  BY <1>2, <1>4, <1>5, SeqEqual

(* What has not been read is the end of what was sent. *)
WireEnds == \E past \in Seq(Byte) : past \o wire = Flat(Messages, sent)

LEMMA WireEndsRead ==
  ASSUME TypeOK, WireEnds, UNCHANGED client, NEW n \in 0 .. Len(wire),
         wire' = SubSeq(wire, n + 1, Len(wire))
  PROVE  WireEnds'
<1>1. PICK past \in Seq(Byte) : past \o wire = Flat(Messages, sent)
  BY DEF WireEnds
<1> DEFINE r == SubSeq(wire, 1, n)
<1>2. r \in Seq(Byte) /\ wire' \in Seq(Byte) /\ r \o wire' = wire
  <2>1. wire \in Seq(Byte)
    BY DEF TypeOK
  <2> QED
    BY <2>1, Split
<1>3. (past \o r) \o wire' = past \o (r \o wire')
  BY <1>2, ByteAssoc, Zenon
<1>4. past \o r \in Seq(Byte)
  BY <1>2, ByteConcat, Zenon
<1>5. Messages' = Messages /\ sent' = sent
  BY SameStream DEF client
<1> HIDE DEF r
<1> QED
  BY <1>1, <1>2, <1>3, <1>4, <1>5 DEF WireEnds

LEMMA WireEndsSend ==
  ASSUME TypeOK, Send, NEW past \in Seq(Byte),
         past \o wire = Flat(Messages, sent)
  PROVE  past \o wire' = Flat(Messages', sent') /\ Messages' = Messages
<1>1. Messages \in Seq(Seq(Byte)) /\ Messages' = Messages
  BY MessagesSeq, SameStream DEF TypeOK, Send
<1>2. sent' = sent + 1 /\ sent \in 0 .. Len(Messages) /\ sent < Len(Messages)
  BY DEF TypeOK, Send
<1> DEFINE m == Messages[sent + 1]
<1>3. m \in Seq(Byte) /\ Flat(Messages, sent + 1) = Flat(Messages, sent) \o m
  BY <1>1, <1>2, FlatStep
<1>4. wire' = wire \o m /\ wire \in Seq(Byte)
  BY <1>2 DEF Send, TypeOK
<1> HIDE DEF m
<1>5. (past \o wire) \o m = past \o (wire \o m)
  BY <1>3, <1>4, ByteAssoc, Zenon
<1> QED
  BY <1>1, <1>2, <1>3, <1>4, <1>5

(* A line that ends with its only newline is taken whole. *)
LEMMA TakenWhole ==
  ASSUME NEW m \in Seq(Byte), m # <<>>, Newlines(m) \subseteq {Len(m)}
  PROVE  Taken(m) = Len(m)
<1>1. CASE Newlines(m) = {}
  BY <1>1 DEF Taken
<1>2. CASE Newlines(m) # {}
  <2>1. Newlines(m) \in SUBSET Nat
    BY LenProperties DEF Newlines
  <2>2. Least(Newlines(m)) \in Newlines(m)
    BY <1>2, <2>1, LeastNat
  <2> QED
    BY <1>2, <2>2 DEF Taken
<1> QED
  BY <1>1, <1>2

(* One read that brings one message, and nothing else is there.            *)
LEMMA WholeRead ==
  ASSUME TypeOK, WireEnds, NEW n \in LineReads, IsMessage(n)
  PROVE  /\ sent \in 1 .. Len(Messages)
         /\ wire = Messages[sent] /\ wire # <<>>
         /\ SubSeq(wire, n + 1, Len(wire)) = <<>>
         /\ Received(n) = wire
         /\ Rest(Received(n)) = <<>>
         /\ Line(Received(n)) = Unix(Messages[sent])
<1> DEFINE m == Messages[sent]
<1>1. buf = <<>> /\ n = Len(wire) /\ n = Len(m) /\ Newlines(m) \subseteq {n}
  BY DEF IsMessage
<1>2. n \in Nat \ {0} /\ wire \in Seq(Byte)
  BY ReadBounds DEF TypeOK
<1>3. wire # <<>>
  BY <1>1, <1>2, EmptySeq
<1>4. PICK past \in Seq(Byte) : past \o wire = Flat(Messages, sent)
  BY DEF WireEnds
<1>5. sent # 0
  <2>1. SUFFICES ASSUME sent = 0 PROVE FALSE
    OBVIOUS
  <2>2. past \o wire = <<>>
    BY <1>4, <2>1, FlatNone
  <2> QED
    BY <1>2, <1>3, <2>2, ByteConcat, Zenon
<1>6. sent \in 1 .. Len(Messages) /\ Messages \in Seq(Seq(Byte))
  BY <1>5, MessagesSeq, LenProperties DEF TypeOK
<1>7. /\ sent - 1 \in 0 .. Len(Messages) /\ sent - 1 < Len(Messages)
      /\ (sent - 1) + 1 = sent
  BY <1>6
<1>8. /\ Flat(Messages, sent - 1) \in Seq(Byte) /\ m \in Seq(Byte)
      /\ Flat(Messages, sent) = Flat(Messages, sent - 1) \o m
  <2>1. /\ Flat(Messages, sent - 1) \in Seq(Byte)
        /\ Messages[(sent - 1) + 1] \in Seq(Byte)
        /\ Flat(Messages, (sent - 1) + 1) =
             Flat(Messages, sent - 1) \o Messages[(sent - 1) + 1]
    BY <1>6, <1>7, FlatStep, Zenon
  <2> QED
    BY <1>7, <2>1
<1>9. wire = m
  <2> HIDE DEF m
  <2>1. past \o wire = Flat(Messages, sent - 1) \o m /\ Len(wire) = Len(m)
    BY <1>1, <1>4, <1>8
  <2> DEFINE h == Flat(Messages, sent - 1)
  <2> HIDE DEF h
  <2>2. h \in Seq(Byte) /\ past \o wire = h \o m
    BY <1>8, <2>1 DEF h
  <2>3. wire \in Seq(Byte) /\ m \in Seq(Byte) /\ Len(wire) = Len(m)
    BY <1>2, <1>8, <2>1
  <2>4. \A a, b, c, d \in Seq(Byte) :
          a \o b = c \o d /\ Len(b) = Len(d) => b = d
    <3> TAKE a, b, c, d \in Seq(Byte)
    <3> QED
      BY SameEnd
  <2> QED
    BY <2>2, <2>3, <2>4, Zenon
<1>10. Received(n) = wire
  <2>1. SubSeq(wire, 1, n) = wire
    BY <1>1, <1>2, SubSeqFull
  <2>2. <<>> \o wire = wire
    BY <1>2, ConcatEmptySeq
  <2> QED
    BY <1>1, <2>1, <2>2 DEF Received
<1>11. SubSeq(wire, n + 1, Len(wire)) = <<>>
  BY <1>1, <1>2, SubSeqEmpty
<1>12. Taken(wire) = n
  <2>1. Newlines(wire) \subseteq {Len(wire)}
    BY <1>1, <1>9
  <2> QED
    BY <1>1, <1>2, <1>3, <2>1, TakenWhole
<1>13. SubSeq(wire, 1, n) = wire
  BY <1>1, <1>2, SubSeqFull
<1> HIDE DEF m
<1> QED
  BY <1>3, <1>6, <1>9, <1>10, <1>11, <1>12, <1>13 DEF Rest, Line, m

(* Until the last command every message that was sent is a line or waits,  *)
(* as long as messages arrive whole; so the next one is the next line.     *)
LinesInv ==
  /\ TypeOK
  /\ WireEnds
  /\ whole =>
       /\ Len(lines) < Len(script.commands) =>
            /\ state \in {"command", "closed"}
            /\ Len(lines) <= sent
            /\ Flat(Messages, Len(lines)) \o wire = Flat(Messages, sent)
       /\ LinesAreMessages

LEMMA LinesInit == Init => LinesInv
<1> SUFFICES ASSUME Init PROVE LinesInv
  OBVIOUS
<1>1. TypeOK
  BY TypeInit
<1>2. Flat(Messages, 0) = <<>> /\ Len(lines) = 0 /\ sent = 0
  BY FlatNone, EmptySeq DEF Init
<1>3. <<>> \o wire = <<>> /\ <<>> \in Seq(Byte)
  BY EmptySeq DEF Init
<1>4. WireEnds
  BY <1>2, <1>3 DEF WireEnds
<1>5. ASSUME Len(lines) < Len(script.commands)
      PROVE  state = "command"
  <2>1. script.begin = "describing" => script.commands = <<>>
    BY StreamAssumption DEF Init
  <2>2. script.begin \in {"command", "describing"}
    BY StreamAssumption DEF Init
  <2> QED
    BY <1>2, <1>5, <2>1, <2>2, EmptySeq DEF Init
<1>6. LinesAreMessages
  <2>1. DOMAIN lines = {} /\ buf = <<>>
    BY DEF Init
  <2> QED
    BY <2>1 DEF LinesAreMessages
<1>7. Len(lines) <= sent /\ Flat(Messages, Len(lines)) \o wire = Flat(Messages, sent)
  <2>1. Len(lines) <= sent
    BY <1>2
  <2> QED
    BY <1>2, <1>3, <2>1, Zenon
<1> QED
  BY <1>1, <1>4, <1>5, <1>6, <1>7 DEF LinesInv

LEMMA LinesSend ==
  ASSUME LinesInv, Send
  PROVE  LinesInv'
<1>1. TypeOK /\ TypeOK'
  BY TypeSend DEF LinesInv
<1>2. PICK past \in Seq(Byte) : past \o wire = Flat(Messages, sent)
  BY DEF LinesInv, WireEnds
<1>3. WireEnds'
  BY <1>1, <1>2, WireEndsSend DEF WireEnds
<1>4. /\ UNCHANGED <<script, buf, state, saved, lines, whole>>
      /\ sent' = sent + 1 /\ sent \in Nat
  BY <1>1, MessagesSeq, LenProperties DEF Send, told, TypeOK
<1>5. ASSUME whole, Len(lines) < Len(script.commands)
      PROVE  /\ Len(lines) <= sent'
             /\ (Flat(Messages, Len(lines)) \o wire = Flat(Messages, sent))'
  <2>1. Len(lines) <= sent /\ Len(lines) \in Nat
    BY <1>1, <1>5, LenProperties DEF LinesInv, TypeOK
  <2> DEFINE h == Flat(Messages, Len(lines))
  <2>2. h \o wire = Flat(Messages, sent)
    BY <1>5 DEF LinesInv
  <2>3. h \in Seq(Byte)
    <3>1. Messages \in Seq(Seq(Byte)) /\ sent \in 0 .. Len(Messages)
      BY <1>1, MessagesSeq DEF TypeOK
    <3>2. Len(lines) \in 0 .. Len(Messages)
      BY <2>1, <3>1, LenProperties
    <3> QED
      BY <3>1, <3>2, FlatSeq
  <2>4. Messages' = Messages
    BY <1>1, <1>2, WireEndsSend
  <2>5. h' = h
    BY <1>4, <2>4
  <2> HIDE DEF h
  <2>6. h \o wire' = Flat(Messages', sent')
    BY <1>1, <2>2, <2>3, WireEndsSend
  <2>7. (h \o wire = Flat(Messages, sent))'
    BY <2>5, <2>6
  <2> QED
    BY <1>4, <2>1, <2>7 DEF h
<1>6. (whole => LinesAreMessages)'
  BY <1>4 DEF LinesInv, LinesAreMessages
<1> QED
  BY <1>1, <1>3, <1>4, <1>5, <1>6 DEF LinesInv

(* An upload command has "UP" in it. *)
LEMMA UnixKeepsOut ==
  ASSUME NEW s \in Seq(Byte), \A i \in 1 .. Len(s) : s[i] # "UP", s # <<>>
  PROVE  ~ IsUpload(Unix(s))
<1>1. s \in Seq(Byte \ {"UP"})
  BY LenProperties
<1>2. Unix(s) \in Seq(Byte \ {"UP"}) /\ Unix(s) # <<>>
  BY <1>1, UnixSeq, UnixNotEmpty
<1>3. 1 \in 1 .. Len(Unix(s))
  BY <1>2, EmptySeq
<1>4. Unix(s)[1] \in Byte \ {"UP"}
  BY <1>2, <1>3, ElementOfSeq
<1> QED
  BY <1>4 DEF IsUpload

LEMMA LinesReadCommand ==
  ASSUME LinesInv, NEW n \in 1 .. INBUFSIZE, ReadCommand(n)
  PROVE  LinesInv'
<1>1. TypeOK /\ TypeOK' /\ WireEnds
  BY TypeReadCommand DEF LinesInv
<1>2. n \in LineReads /\ state = "command"
  BY DEF ReadCommand
<1>3. WireEnds'
  <2>1. n \in 0 .. Len(wire)
    BY <1>1, <1>2, ReadBounds DEF TypeOK
  <2>2. UNCHANGED client /\ wire' = SubSeq(wire, n + 1, Len(wire))
    BY DEF ReadCommand
  <2> QED
    BY <1>1, <2>1, <2>2, WireEndsRead
<1>4. /\ script' = script /\ sent' = sent /\ Messages' = Messages
      /\ saved' = saved /\ (whole' <=> whole /\ IsMessage(n))
  BY SameStream DEF ReadCommand, client
<1> SUFFICES ASSUME whole'
             PROVE  /\ Len(lines') < Len(script.commands) =>
                         /\ state' \in {"command", "closed"}
                         /\ Len(lines') <= sent
                         /\ Flat(Messages, Len(lines')) \o wire' =
                              Flat(Messages, sent)
                    /\ LinesAreMessages'
  BY <1>1, <1>3, <1>4 DEF LinesInv
<1>5. whole /\ IsMessage(n)
  BY <1>4
<1>6. /\ sent \in 1 .. Len(Messages)
      /\ wire = Messages[sent] /\ wire # <<>>
      /\ SubSeq(wire, n + 1, Len(wire)) = <<>>
      /\ Rest(Received(n)) = <<>>
      /\ Line(Received(n)) = Unix(Messages[sent])
  BY <1>1, <1>2, <1>5, WholeRead
<1> DEFINE line == Unix(Messages[sent])
<1>7. /\ wire' = <<>> /\ buf' = <<>>
      /\ lines' = Append(lines, line)
      /\ state' = IF IsUpload(line) THEN "upload" ELSE "command"
  <2>1. ~ (Len(<<>>) >= INBUFSIZE)
    BY TransferAssumption
  <2> QED
    BY <1>2, <1>6, <2>1 DEF ReadCommand
<1>8. /\ Len(lines') = Len(lines) + 1 /\ Len(lines) \in Nat
      /\ DOMAIN lines = 1 .. Len(lines) /\ DOMAIN lines' = 1 .. Len(lines')
      /\ \A i \in 1 .. Len(lines) : lines'[i] = lines[i]
      /\ lines'[Len(lines) + 1] = line
  <2> DEFINE L == Seq(Byte) \ {<<>>}
  <2>1. lines \in Seq(L) /\ lines' \in Seq(L)
    BY <1>1 DEF TypeOK
  <2>2. line \in L
    <3>1. wire \in Seq(Byte)
      BY <1>1 DEF TypeOK
    <3> QED
      BY <1>6, <3>1, UnixSeq, UnixNotEmpty
  <2> HIDE DEF L, line
  <2> QED
    BY <1>7, <2>1, <2>2, AppendProperties, LenProperties
<1> HIDE DEF line
<1>9. Messages \in Seq(Seq(Byte) \ {<<>>}) /\ Messages \in Seq(Seq(Byte))
      /\ \A i \in 1 .. Len(script.commands) :
           i \in 1 .. Len(Messages) /\ Messages[i] = script.commands[i]
  BY <1>1, MessagesNotEmpty, MessagesSeq DEF TypeOK
<1>10. Len(script.commands) \in Nat /\ Len(Messages) \in Nat
  BY <1>1, <1>9, ScriptTypes, LenProperties DEF TypeOK
(* A command that is next is the message that was sent last. *)
<1>11. ASSUME Len(lines) < Len(script.commands)
       PROVE  Len(lines) + 1 = sent
  <2> DEFINE j == Len(lines)
             k == sent - j
  <2>1. j \in 0 .. Len(Messages) /\ k \in 0 .. Len(Messages) - j /\ j + k = sent
    <3>1. j <= sent
      BY <1>5, <1>11 DEF LinesInv
    <3> QED
      BY <1>6, <1>8, <1>10, <3>1
  <2>2. Flat(Messages, j) \o wire = Flat(Messages, sent)
    BY <1>5, <1>11 DEF LinesInv
  <2>3. /\ Flat(Messages, sent - 1) \in Seq(Byte)
        /\ Flat(Messages, sent) = Flat(Messages, sent - 1) \o wire
    <3>1. /\ sent - 1 \in 0 .. Len(Messages) /\ sent - 1 < Len(Messages)
          /\ (sent - 1) + 1 = sent
      BY <1>6, <1>10
    <3>2. /\ Flat(Messages, sent - 1) \in Seq(Byte)
          /\ Flat(Messages, (sent - 1) + 1) =
               Flat(Messages, sent - 1) \o Messages[(sent - 1) + 1]
      BY <1>9, <3>1, FlatStep, Zenon
    <3> QED
      BY <1>6, <3>1, <3>2
  <2>4. Flat(Messages, j) \in Seq(Byte) /\ wire \in Seq(Byte)
    BY <1>1, <1>9, <2>1, FlatSeq DEF TypeOK
  <2>5. Len(Flat(Messages, j)) = Len(Flat(Messages, sent - 1))
    <3>1. /\ Len(Flat(Messages, j) \o wire) = Len(Flat(Messages, j)) + Len(wire)
          /\ Len(Flat(Messages, sent - 1) \o wire) =
               Len(Flat(Messages, sent - 1)) + Len(wire)
          /\ Len(Flat(Messages, j)) \in Nat
          /\ Len(Flat(Messages, sent - 1)) \in Nat
          /\ Len(wire) \in Nat
      BY <2>3, <2>4, ByteConcat, Zenon
    <3> QED
      BY <2>2, <2>3, <3>1
  <2>6. k # 0
    <3>1. SUFFICES ASSUME k = 0 PROVE FALSE
      OBVIOUS
    <3>2. sent = j
      BY <1>8, <2>1, <3>1
    <3>3. /\ Len(Flat(Messages, j) \o wire) = Len(Flat(Messages, j)) + Len(wire)
          /\ Len(Flat(Messages, j)) \in Nat
      BY <2>4, ByteConcat, Zenon
    <3>4. Len(wire) \in Nat \ {0}
      BY <1>6, <2>4, EmptySeq
    <3> QED
      BY <2>2, <3>2, <3>3, <3>4
  <2>7. \A i \in 0 .. Len(Messages) - j :
          Len(Flat(Messages, j + i)) >= Len(Flat(Messages, j)) + i
    BY <1>9, <2>1, FlatGrows
  <2>8. k - 1 \in 0 .. Len(Messages) - j /\ j + (k - 1) = sent - 1
    <3>1. j \in Nat /\ sent \in Nat /\ Len(Messages) \in Nat
      BY <1>6, <1>8, <1>10
    <3>2. k = sent - j
      OBVIOUS
    <3> HIDE DEF j, k
    <3> QED
      BY <2>1, <2>6, <3>1, <3>2
  <2>9. Len(Flat(Messages, sent - 1)) >= Len(Flat(Messages, j)) + (k - 1)
    BY <2>7, <2>8
  <2>10. Len(Flat(Messages, j)) \in Nat
    BY <2>4, ByteConcat, Zenon
  <2>11. k - 1 <= 0
    <3> DEFINE x == Len(Flat(Messages, j))
    <3> HIDE DEF x
    <3>1. x \in Nat /\ x >= x + (k - 1)
      BY <2>5, <2>9, <2>10 DEF x
    <3> QED
      BY <2>1, <3>1
  <2> QED
    BY <1>8, <2>1, <2>6, <2>11
<1>12. ASSUME Len(lines') < Len(script.commands)
       PROVE  /\ state' \in {"command", "closed"}
              /\ Len(lines') <= sent
              /\ Flat(Messages, Len(lines')) \o wire' = Flat(Messages, sent)
  <2>1. Len(lines') = sent /\ sent \in 1 .. Len(script.commands) - 1
    BY <1>6, <1>8, <1>10, <1>11, <1>12
  <2>2. sent \in 1 .. Len(script.commands)
    BY <1>10, <2>1
  <2>3. wire = script.commands[sent]
    BY <1>6, <1>9, <2>2
  <2>4. \A i \in 1 .. Len(wire) : wire[i] # "UP"
    BY <1>1, <2>1, <2>3, StreamAssumption DEF TypeOK
  <2>5. ~ IsUpload(line)
    <3>1. wire \in Seq(Byte)
      BY <1>1 DEF TypeOK
    <3> QED
      BY <1>6, <2>4, <3>1, UnixKeepsOut DEF line
  <2>6. Flat(Messages, sent) \in Seq(Byte)
    <3>1. sent \in 0 .. Len(Messages)
      BY <1>1 DEF TypeOK
    <3> QED
      BY <1>9, <3>1, FlatSeq
  <2>7. Flat(Messages, sent) \o <<>> = Flat(Messages, sent)
    BY <2>6, ByteConcat, Zenon
  <2>8. Len(lines') <= sent
    BY <1>6, <2>1
  <2> QED
    BY <1>7, <2>1, <2>5, <2>7, <2>8
<1>13. LinesAreMessages'
  <2>1. ASSUME NEW i \in DOMAIN lines' \cap DOMAIN script.commands
        PROVE  lines'[i] = Unix(script.commands[i])
    <3>1. i \in 1 .. Len(script.commands) /\ i \in 1 .. Len(lines) + 1
      BY <1>1, <1>8, <2>1, ScriptTypes, LenProperties DEF TypeOK
    <3>2. CASE i = Len(lines) + 1
      <4>1. i = sent
        BY <1>8, <1>10, <1>11, <3>1, <3>2
      <4>2. Messages[sent] = script.commands[i]
        BY <1>9, <3>1, <4>1
      <4> QED
        BY <1>8, <3>2, <4>2 DEF line
    <3>3. CASE i # Len(lines) + 1
      <4>1. i \in DOMAIN lines \cap DOMAIN script.commands
        BY <1>8, <2>1, <3>1, <3>3
      <4>2. lines[i] = Unix(script.commands[i])
        BY <1>5, <4>1 DEF LinesInv, LinesAreMessages
      <4> QED
        BY <1>8, <4>1, <4>2
    <3> QED
      BY <3>2, <3>3
  <2> QED
    BY <1>4, <1>7, <2>1 DEF LinesAreMessages
<1> QED
  BY <1>12, <1>13

(* A file is read by no command, and behind all of them. *)
LEMMA LinesReadFile ==
  ASSUME LinesInv, NEW n \in 1 .. INBUFSIZE, ReadFile(n)
  PROVE  LinesInv'
<1>1. TypeOK /\ TypeOK' /\ WireEnds
  BY TypeReadFile DEF LinesInv
<1>2. /\ state = "upload" /\ n \in FileReads
      /\ wire' = SubSeq(wire, n + 1, Len(wire))
      /\ UNCHANGED <<client, buf, saved, lines, whole>>
  BY DEF ReadFile
<1>3. n \in 0 .. Len(wire)
  BY <1>1, <1>2, ReadBounds DEF TypeOK
<1>4. WireEnds'
  BY <1>1, <1>2, <1>3, WireEndsRead
<1>5. script' = script
  BY <1>2 DEF client
<1> QED
  BY <1>1, <1>2, <1>4, <1>5 DEF LinesInv, LinesAreMessages

LEMMA LinesUploadFails ==
  ASSUME LinesInv, NEW n \in 0 .. INBUFSIZE, UploadFails(n)
  PROVE  LinesInv'
<1>1. TypeOK /\ TypeOK' /\ WireEnds
  BY TypeUploadFails DEF LinesInv
<1>2. /\ state = "upload" /\ n \in 0 .. Len(wire)
      /\ wire' = SubSeq(wire, n + 1, Len(wire))
      /\ UNCHANGED <<client, buf, saved, lines, whole>>
  BY <1>1, UploadFailsStep DEF TypeOK, Buffers
<1>3. WireEnds'
  BY <1>1, <1>2, WireEndsRead
<1>4. script' = script
  BY <1>2 DEF client
<1> QED
  BY <1>1, <1>2, <1>3, <1>4 DEF LinesInv, LinesAreMessages

LEMMA LinesReadDescription ==
  ASSUME LinesInv, NEW n \in 1 .. INBUFSIZE, ReadDescription(n)
  PROVE  LinesInv'
<1>1. TypeOK /\ TypeOK' /\ WireEnds
  BY TypeReadDescription DEF LinesInv
<1>2. /\ state = "describing" /\ n \in LineReads
      /\ wire' = SubSeq(wire, n + 1, Len(wire))
      /\ UNCHANGED <<client, lines, whole>>
      /\ state' = "describing" \/ saved' # <<>>
  <2>1. \A a : Append(saved, a) # <<>>
    <3> TAKE a
    <3>1. saved \in Seq([bytes : Seq(Byte), description : Seq(Byte)])
      BY <1>1 DEF TypeOK
    <3> QED
      BY <3>1
  <2> QED
    BY <2>1 DEF ReadDescription
<1>3. n \in 0 .. Len(wire)
  BY <1>1, <1>2, ReadBounds DEF TypeOK
<1>4. WireEnds'
  BY <1>1, <1>2, <1>3, WireEndsRead
<1>5. script' = script
  BY <1>2 DEF client
<1> QED
  BY <1>1, <1>2, <1>4, <1>5 DEF LinesInv, LinesAreMessages

LEMMA LinesNext == LinesInv /\ [Next]_vars => LinesInv'
<1> SUFFICES ASSUME LinesInv, [Next]_vars PROVE LinesInv'
  OBVIOUS
<1>1. CASE Send
  BY <1>1, LinesSend
<1>2. CASE \E n \in 1 .. INBUFSIZE : Read(n)
  BY <1>2, LinesReadCommand, LinesReadFile, LinesReadDescription DEF Read
<1>3. CASE Idle
  <2>1. /\ UNCHANGED <<script, sent, wire, buf, saved, lines, whole>>
        /\ state' \in {state, "closed"} /\ Messages' = Messages
    BY <1>3, IdleStep
  <2>2. TypeOK'
    BY <1>3, TypeIdle DEF LinesInv
  <2>3. WireEnds'
    BY <2>1 DEF LinesInv, WireEnds
  <2> QED
    BY <2>1, <2>2, <2>3 DEF LinesInv, LinesAreMessages
<1>4. CASE \E n \in 0 .. INBUFSIZE : UploadFails(n)
  BY <1>4, LinesUploadFails
<1> QED
  BY <1>1, <1>2, <1>3, <1>4, NextCases

(* With a client that waits for answers and messages that arrive whole,    *)
(* every line executed is the message that was sent, and nothing stays in  *)
(* the buffer, where file_upload would not look (session_do_read).         *)
THEOREM MessagesExecuted == Spec => []LinesAreMessages
<1>1. LinesInv => LinesAreMessages
  BY DEF LinesInv, LinesAreMessages
<1> QED
  BY <1>1, LinesInit, LinesNext, PTL DEF Spec

-----------------------------------------------------------------------------
(* Where the bytes of a file are in the stream. *)

(* The first k messages are the beginning of all of them. *)
LEMMA FlatPart ==
  ASSUME NEW S, NEW s \in Seq(Seq(S)), NEW k \in 0 .. Len(s)
  PROVE  /\ Flat(s, k) \in Seq(S)
         /\ FlattenSeq(s) \in Seq(S)
         /\ Len(Flat(s, k)) \in Nat
         /\ Len(Flat(s, k)) <= Len(FlattenSeq(s))
         /\ \A i \in 1 .. Len(Flat(s, k)) : FlattenSeq(s)[i] = Flat(s, k)[i]
<1> DEFINE a == SubSeq(s, 1, k)
           b == SubSeq(s, k + 1, Len(s))
<1>1. a \in Seq(Seq(S)) /\ b \in Seq(Seq(S)) /\ a \o b = s
  BY Split
<1> HIDE DEF a, b
<1>2. FlattenSeq(a \o b) = FlattenSeq(a) \o FlattenSeq(b)
  BY <1>1, FlatConcat
<1> DEFINE x == FlattenSeq(a)
           y == FlattenSeq(b)
<1>3. x \in Seq(S) /\ y \in Seq(S)
  BY <1>1, FlattenSeqBytes
<1>4. FlattenSeq(s) = x \o y
  BY <1>1, <1>2
<1>5. Flat(s, k) = x
  BY DEF Flat, a
<1> HIDE DEF x, y
<1>6. /\ x \o y \in Seq(S) /\ Len(x \o y) = Len(x) + Len(y)
      /\ \A i \in 1 .. Len(x) + Len(y) :
           (x \o y)[i] = IF i <= Len(x) THEN x[i] ELSE y[i - Len(x)]
      /\ Len(x) \in Nat /\ Len(y) \in Nat
  BY <1>3, ConcatProperties, LenProperties
<1>7. \A i \in 1 .. Len(x) : (x \o y)[i] = x[i]
  BY <1>6
<1>8. Len(x) <= Len(x \o y)
  BY <1>6
<1> QED
  BY <1>3, <1>4, <1>5, <1>6, <1>7, <1>8

(* The k-th message is behind those before it. *)
LEMMA FlatMessage ==
  ASSUME NEW S, NEW s \in Seq(Seq(S)), NEW k \in 1 .. Len(s)
  PROVE  /\ Len(Flat(s, k - 1)) \in Nat
         /\ Len(s[k]) \in Nat
         /\ Len(Flat(s, k)) = Len(Flat(s, k - 1)) + Len(s[k])
         /\ Len(Flat(s, k)) <= Len(FlattenSeq(s))
         /\ \A j \in 1 .. Len(s[k]) :
              FlattenSeq(s)[Len(Flat(s, k - 1)) + j] = s[k][j]
<1>1. /\ k - 1 \in 0 .. Len(s) /\ k - 1 < Len(s) /\ (k - 1) + 1 = k
      /\ k \in 0 .. Len(s)
  BY LenProperties
<1> DEFINE x == Flat(s, k - 1)
           m == s[k]
<1>2. x \in Seq(S) /\ m \in Seq(S) /\ Flat(s, k) = x \o m
  <2>1. /\ Flat(s, k - 1) \in Seq(S) /\ s[(k - 1) + 1] \in Seq(S)
        /\ Flat(s, (k - 1) + 1) = Flat(s, k - 1) \o s[(k - 1) + 1]
    BY <1>1, FlatStep, Zenon
  <2> QED
    BY <1>1, <2>1
<1> HIDE DEF x, m
<1>3. /\ Len(x \o m) = Len(x) + Len(m)
      /\ \A i \in 1 .. Len(x) + Len(m) :
           (x \o m)[i] = IF i <= Len(x) THEN x[i] ELSE m[i - Len(x)]
      /\ Len(x) \in Nat /\ Len(m) \in Nat
  BY <1>2, ConcatProperties, LenProperties
<1>4. /\ Len(Flat(s, k)) <= Len(FlattenSeq(s))
      /\ \A i \in 1 .. Len(Flat(s, k)) : FlattenSeq(s)[i] = Flat(s, k)[i]
  BY <1>1, FlatPart
<1>5. \A j \in 1 .. Len(m) : FlattenSeq(s)[Len(x) + j] = m[j]
  <2> TAKE j \in 1 .. Len(m)
  <2>1. /\ Len(x) + j \in 1 .. Len(x) + Len(m) /\ ~ (Len(x) + j <= Len(x))
        /\ Len(x) + j - Len(x) = j
    BY <1>3
  <2>2. (x \o m)[Len(x) + j] = m[j]
    BY <1>3, <2>1
  <2> QED
    BY <1>2, <1>3, <1>4, <2>1, <2>2
<1> QED
  BY <1>2, <1>3, <1>4, <1>5 DEF x, m

AllBytes == FlattenSeq(Messages)

(* The stream is the commands, the file and the text. *)
LEMMA StreamParts ==
  ASSUME script \in Script
  PROVE  /\ AllBytes \in Seq(Byte)
         /\ FileStart \in Nat /\ Len(File) \in Nat /\ Len(script.text) \in Nat
         /\ TextStart = FileStart + Len(File)
         /\ Len(AllBytes) = TextStart + Len(script.text)
         /\ \A x \in 1 .. Len(File) : AllBytes[FileStart + x] = File[x]
         /\ \A x \in 1 .. Len(script.text) :
              AllBytes[TextStart + x] = script.text[x]
<1> DEFINE c == FlattenSeq(script.commands)
           t == script.text
<1>1. /\ script.commands \in Seq(Seq(Byte)) /\ File \in Seq(Byte)
      /\ t \in Seq(Byte) /\ c \in Seq(Byte)
  BY ScriptTypes, FlattenSeqBytes
<1>2. \A m \in Seq(Byte) :
        MessageOf(m) \in Seq(Seq(Byte)) /\ FlattenSeq(MessageOf(m)) = m
  <2> TAKE m \in Seq(Byte)
  <2>1. CASE m = <<>>
    <3>1. FlattenSeq(<<>>) = <<>> /\ <<>> \in Seq(Seq(Byte))
      BY EmptySeq DEF FlattenSeq
    <3> QED
      BY <2>1, <3>1 DEF MessageOf
  <2>2. CASE m # <<>>
    BY <2>2, FlattenOne DEF MessageOf
  <2> QED
    BY <2>1, <2>2
<1>3. AllBytes = (c \o File) \o t
  <2> DEFINE a == script.commands
             f == MessageOf(File)
             g == MessageOf(t)
  <2>1. a \in Seq(Seq(Byte)) /\ f \in Seq(Seq(Byte)) /\ g \in Seq(Seq(Byte))
    BY <1>1, <1>2
  <2>2. FlattenSeq(f) = File /\ FlattenSeq(g) = t /\ Messages = (a \o f) \o g
    BY <1>1, <1>2 DEF Messages
  <2> HIDE DEF a, f, g
  <2>3. a \o f \in Seq(Seq(Byte))
        /\ FlattenSeq(a \o f) = FlattenSeq(a) \o FlattenSeq(f)
    BY <2>1, FlatConcat
  <2> DEFINE h == a \o f
  <2> HIDE DEF h
  <2>4. FlattenSeq(h \o g) = FlattenSeq(h) \o FlattenSeq(g)
    <3>1. h \in Seq(Seq(Byte))
      BY <2>3 DEF h
    <3> QED
      BY <2>1, <3>1, FlatConcat
  <2> QED
    BY <2>2, <2>3, <2>4 DEF AllBytes, h, a
<1> DEFINE F == File
           cf == c \o F
<1> HIDE DEF c, t, F
<1>4. /\ cf \in Seq(Byte) /\ Len(cf) = Len(c) + Len(F)
      /\ \A i \in 1 .. Len(c) + Len(F) :
           cf[i] = IF i <= Len(c) THEN c[i] ELSE F[i - Len(c)]
      /\ Len(c) \in Nat /\ Len(F) \in Nat /\ Len(t) \in Nat
  <2>1. c \in Seq(Byte) /\ F \in Seq(Byte) /\ t \in Seq(Byte)
    BY <1>1 DEF F
  <2> QED
    BY <2>1, ConcatProperties, LenProperties
<1> HIDE DEF cf
<1>5. /\ cf \o t \in Seq(Byte) /\ Len(cf \o t) = Len(cf) + Len(t)
      /\ \A i \in 1 .. Len(cf) + Len(t) :
           (cf \o t)[i] = IF i <= Len(cf) THEN cf[i] ELSE t[i - Len(cf)]
  <2>1. cf \in Seq(Byte) /\ t \in Seq(Byte)
    BY <1>1, <1>4
  <2> QED
    BY <2>1, ByteConcat, ByteAt, Zenon
<1>6. FileStart = Len(c) /\ TextStart = Len(cf) /\ AllBytes = cf \o t
  BY <1>3, <1>4 DEF FileStart, TextStart, c, F, cf
<1>7. \A x \in 1 .. Len(F) : (cf \o t)[Len(c) + x] = F[x]
  <2> TAKE x \in 1 .. Len(F)
  <2>1. /\ Len(c) + x \in 1 .. Len(c) + Len(F) /\ ~ (Len(c) + x <= Len(c))
        /\ Len(c) + x - Len(c) = x
        /\ Len(c) + x \in 1 .. Len(cf) + Len(t) /\ Len(c) + x <= Len(cf)
    BY <1>4
  <2> QED
    BY <1>4, <1>5, <2>1
<1>8. \A x \in 1 .. Len(t) : (cf \o t)[Len(cf) + x] = t[x]
  <2> TAKE x \in 1 .. Len(t)
  <2>1. /\ Len(cf) + x \in 1 .. Len(cf) + Len(t) /\ ~ (Len(cf) + x <= Len(cf))
        /\ Len(cf) + x - Len(cf) = x
    BY <1>4
  <2> QED
    BY <1>5, <2>1
<1> QED
  BY <1>4, <1>5, <1>6, <1>7, <1>8 DEF F, t

(* In step, what waits is what comes next in the stream. *)
LEMMA WireIsStream ==
  ASSUME TypeOK, BytesInOrder, inStep, buf = <<>>
  PROVE  /\ Len(taken) \in Nat /\ Len(wire) \in Nat
         /\ Len(taken) + Len(wire) <= Len(AllBytes)
         /\ \A i \in 1 .. Len(wire) : wire[i] = AllBytes[Len(taken) + i]
         /\ \A i \in 1 .. Len(taken) : taken[i] = AllBytes[i]
<1>1. taken \in Seq(Byte) /\ wire \in Seq(Byte)
  BY DEF TypeOK
<1>2. taken \o wire = Flat(Messages, sent)
  <2>1. taken \o buf = taken
    BY <1>1, ByteConcat, Zenon
  <2> QED
    BY <2>1 DEF BytesInOrder, Flat
<1>3. Messages \in Seq(Seq(Byte)) /\ sent \in 0 .. Len(Messages)
  BY MessagesSeq DEF TypeOK
<1>4. /\ Len(Flat(Messages, sent)) <= Len(AllBytes)
      /\ \A i \in 1 .. Len(Flat(Messages, sent)) :
           AllBytes[i] = Flat(Messages, sent)[i]
  BY <1>3, FlatPart DEF AllBytes
<1>5. /\ Len(taken \o wire) = Len(taken) + Len(wire)
      /\ \A i \in 1 .. Len(taken) + Len(wire) :
           (taken \o wire)[i] = IF i <= Len(taken) THEN taken[i]
                                                   ELSE wire[i - Len(taken)]
      /\ Len(taken) \in Nat /\ Len(wire) \in Nat
  BY <1>1, ConcatProperties, LenProperties
<1>6. \A i \in 1 .. Len(taken) + Len(wire) : AllBytes[i] = (taken \o wire)[i]
  BY <1>2, <1>4, <1>5
<1>7. \A i \in 1 .. Len(taken) : taken[i] = AllBytes[i]
  BY <1>5, <1>6
<1>8. \A i \in 1 .. Len(wire) : wire[i] = AllBytes[Len(taken) + i]
  <2> TAKE i \in 1 .. Len(wire)
  <2>1. /\ Len(taken) + i \in 1 .. Len(taken) + Len(wire)
        /\ ~ (Len(taken) + i <= Len(taken)) /\ Len(taken) + i - Len(taken) = i
    BY <1>5
  <2> QED
    BY <1>5, <1>6, <2>1
<1> QED
  BY <1>2, <1>4, <1>5, <1>7, <1>8

(* The first i packages, packed, and the bytes in them. *)
PackedEnd(i) == Len(Flat(Packing(script), i))
ContentEnd(i) == Len(Flat(Payload(script), i))
BytesOf(i) == script.packages[i].bytes

LEMMA PackageAt ==
  ASSUME script \in Script, NEW i \in 1 .. Len(script.packages)
  PROVE  /\ script.packages[i] \in Package
         /\ Len(BytesOf(i)) \in Nat
         /\ PackedEnd(i - 1) \in Nat /\ ContentEnd(i - 1) \in Nat
         /\ PackedEnd(i) = PackedEnd(i - 1) + 2 + Len(BytesOf(i))
         /\ ContentEnd(i) = ContentEnd(i - 1) + Len(BytesOf(i))
         /\ PackedEnd(i) <= Len(File)
         /\ ContentEnd(i) <= Len(script.content)
         /\ File[PackedEnd(i - 1) + 1] = script.packages[i].signal
         /\ File[PackedEnd(i - 1) + 2] = script.packages[i].size
         /\ \A j \in 1 .. Len(BytesOf(i)) :
              /\ File[PackedEnd(i - 1) + 2 + j] = BytesOf(i)[j]
              /\ script.content[ContentEnd(i - 1) + j] = BytesOf(i)[j]
<1> DEFINE p == script.packages[i]
           b == p.bytes
           q == Packing(script)
           l == Payload(script)
<1>1. /\ q \in Seq(Seq(Byte)) /\ Len(q) = Len(script.packages)
      /\ l \in Seq(Seq(Byte)) /\ Len(l) = Len(script.packages)
      /\ script.content \in Seq(Byte)
  BY ScriptTypes
<1>2. p \in Package /\ DOMAIN script.packages = 1 .. Len(script.packages)
  BY StreamAssumption, ElementOfSeq, LenProperties
<1>3. q[i] = Packed(p) /\ l[i] = b
  BY <1>2 DEF Packing, Payload
<1>4. b \in Seq(Byte) /\ p.signal \in Byte /\ p.size \in Byte
  BY <1>2 DEF Package, Byte
<1> HIDE DEF q, l, b
<1>5. /\ Packed(p) = <<p.signal, p.size>> \o b
      /\ <<p.signal, p.size>> \in Seq(Byte)
  BY <1>4 DEF Packed, b
<1> DEFINE pq == Packed(p)
<1>6. /\ Len(pq) = 2 + Len(b) /\ Len(b) \in Nat
      /\ pq[1] = p.signal /\ pq[2] = p.size
      /\ \A j \in 1 .. Len(b) : pq[2 + j] = b[j]
  <2> DEFINE h == <<p.signal, p.size>>
  <2>1. h \in Seq(Byte) /\ Len(h) = 2 /\ h[1] = p.signal /\ h[2] = p.size
    BY <1>5
  <2>2. pq = h \o b
    BY <1>5
  <2> HIDE DEF h, pq
  <2>3. /\ Len(h \o b) = 2 + Len(b) /\ Len(b) \in Nat
        /\ \A j \in 1 .. 2 + Len(b) :
             (h \o b)[j] = IF j <= 2 THEN h[j] ELSE b[j - 2]
    <3>1. h \in Seq(Byte) /\ b \in Seq(Byte)
      BY <1>4, <2>1
    <3>2. /\ Len(h \o b) = Len(h) + Len(b) /\ Len(b) \in Nat
          /\ \A j \in 1 .. Len(h) + Len(b) :
               (h \o b)[j] = IF j <= Len(h) THEN h[j] ELSE b[j - Len(h)]
      BY <3>1, ByteConcat, ByteAt, Zenon
    <3> QED
      BY <2>1, <3>2
  <2>4. \A j \in 1 .. Len(b) : (h \o b)[2 + j] = b[j]
    <3> TAKE j \in 1 .. Len(b)
    <3>1. 2 + j \in 1 .. 2 + Len(b) /\ ~ (2 + j <= 2) /\ 2 + j - 2 = j
      BY <2>3
    <3> QED
      BY <2>3, <3>1
  <2>5. (h \o b)[1] = h[1] /\ (h \o b)[2] = h[2]
    BY <2>3
  <2> QED
    BY <2>1, <2>2, <2>3, <2>4, <2>5
<1> HIDE DEF pq
<1>7. /\ Len(Flat(q, i - 1)) \in Nat
      /\ Len(Flat(q, i)) = Len(Flat(q, i - 1)) + Len(q[i])
      /\ Len(Flat(q, i)) <= Len(FlattenSeq(q))
      /\ \A j \in 1 .. Len(q[i]) :
           FlattenSeq(q)[Len(Flat(q, i - 1)) + j] = q[i][j]
  <2>1. q \in Seq(Seq(Byte)) /\ i \in 1 .. Len(q)
    BY <1>1
  <2> QED
    BY <2>1, FlatMessage
<1>8. /\ Len(Flat(l, i - 1)) \in Nat
      /\ Len(Flat(l, i)) = Len(Flat(l, i - 1)) + Len(l[i])
      /\ Len(Flat(l, i)) <= Len(FlattenSeq(l))
      /\ \A j \in 1 .. Len(l[i]) :
           FlattenSeq(l)[Len(Flat(l, i - 1)) + j] = l[i][j]
  <2>1. l \in Seq(Seq(Byte)) /\ i \in 1 .. Len(l)
    BY <1>1
  <2> QED
    BY <2>1, FlatMessage
<1> DEFINE x == Len(Flat(q, i - 1))
           y == Len(Flat(l, i - 1))
<1>9. /\ PackedEnd(i - 1) = x /\ ContentEnd(i - 1) = y
      /\ PackedEnd(i) = Len(Flat(q, i)) /\ ContentEnd(i) = Len(Flat(l, i))
      /\ File = FlattenSeq(q)
  BY DEF PackedEnd, ContentEnd, q, l, File
<1> HIDE DEF x, y
<1>10. /\ File[x + 1] = p.signal /\ File[x + 2] = p.size
       /\ \A j \in 1 .. Len(b) : File[x + 2 + j] = b[j]
  <2>1. q[i] = pq /\ x \in Nat
    BY <1>3, <1>7 DEF pq, x
  <2>2. \A j \in 1 .. 2 + Len(b) : File[x + j] = pq[j]
    BY <1>6, <1>7, <1>9, <2>1 DEF x
  <2>3. 1 \in 1 .. 2 + Len(b) /\ 2 \in 1 .. 2 + Len(b)
    BY <1>6
  <2>4. \A j \in 1 .. Len(b) : 2 + j \in 1 .. 2 + Len(b) /\ x + 2 + j = x + (2 + j)
    BY <1>6, <2>1
  <2> QED
    BY <1>6, <2>2, <2>3, <2>4
<1>11. /\ Len(FlattenSeq(l)) <= Len(script.content)
       /\ \A k \in 1 .. Len(FlattenSeq(l)) :
            FlattenSeq(l)[k] = script.content[k]
       /\ Len(FlattenSeq(l)) \in Nat /\ Len(script.content) \in Nat
  <2> DEFINE f == FlattenSeq(l)
             c == script.content
  <2>1. f \in Seq(Byte) /\ c \in Seq(Byte)
    BY <1>1, FlattenSeqBytes
  <2>2. Len(f) <= Len(c) /\ SubSeq(f, 1, Len(f)) = SubSeq(c, 1, Len(f))
    BY StreamAssumption DEF IsPrefix, l
  <2> HIDE DEF f, c
  <2>3. SubSeq(f, 1, Len(f)) = f /\ Len(f) \in Nat /\ Len(c) \in Nat
    BY <2>1, SubSeqFull, LenProperties
  <2>4. \A k \in 1 .. Len(f) : SubSeq(c, 1, Len(f))[k] = c[k]
    <3>1. \A k \in 1 .. Len(f) : c[k] \in Byte
      BY <2>1, <2>2, <2>3, ElementOfSeq
    <3> QED
      BY <2>3, <3>1, SubSeqProperties
  <2> QED
    BY <2>2, <2>3, <2>4 DEF f, c
<1>12. \A j \in 1 .. Len(b) : script.content[y + j] = b[j]
  <2> TAKE j \in 1 .. Len(b)
  <2>1. l[i] = b /\ y \in Nat /\ y + Len(b) <= Len(FlattenSeq(l))
    BY <1>3, <1>8 DEF y
  <2>2. FlattenSeq(l)[y + j] = b[j]
    BY <1>8, <2>1 DEF y
  <2>3. y + j \in 1 .. Len(FlattenSeq(l))
    BY <1>6, <1>11, <2>1
  <2> QED
    BY <1>11, <2>2, <2>3
<1>13. BytesOf(i) = b
  BY DEF BytesOf, b
<1>14. /\ x \in Nat /\ y \in Nat
       /\ Len(Flat(q, i)) = x + 2 + Len(b) /\ Len(Flat(l, i)) = y + Len(b)
       /\ Len(Flat(l, i)) <= Len(script.content)
  <2>1. Len(Flat(q, i)) = x + (2 + Len(b)) /\ x \in Nat
    BY <1>3, <1>6, <1>7 DEF x, pq
  <2>2. Len(Flat(l, i)) = y + Len(b) /\ y \in Nat
    BY <1>3, <1>8 DEF y
  <2>3. Len(Flat(l, i)) <= Len(script.content)
    <3>1. /\ Len(Flat(l, i)) <= Len(FlattenSeq(l)) /\ Len(Flat(l, i)) \in Nat
          /\ Len(FlattenSeq(l)) <= Len(script.content)
          /\ Len(FlattenSeq(l)) \in Nat /\ Len(script.content) \in Nat
      <4>1. Len(Flat(l, i)) \in Nat
        BY <1>6, <2>2
      <4> QED
        BY <1>8, <1>11, <4>1, Zenon
    <3> DEFINE u == Len(Flat(l, i))  v == Len(FlattenSeq(l))
               w == Len(script.content)
    <3> HIDE DEF u, v, w
    <3>2. u <= w
      BY <3>1 DEF u, v, w
    <3> QED
      BY <3>2 DEF u, w
  <2> QED
    BY <1>6, <2>1, <2>2, <2>3
<1> QED
  BY <1>2, <1>6, <1>7, <1>9, <1>10, <1>12, <1>13, <1>14

-----------------------------------------------------------------------------
(* What one call of file_upload does with n bytes, case by case.           *)

(* They are within the current package. *)
LEMMA StepWithin ==
  ASSUME NEW r1 \in SizeT, NEW p1 \in SizeT, NEW n \in 1 .. INBUFSIZE,
         n <= p1, n <= r1, NEW sig, NEW ps
  PROVE  UploadStep(r1, p1, n, sig, ps) =
           [first |-> n, second |-> 0, rest |-> r1 - n,
            package_rest |-> p1 - n, cancel |-> FALSE]
<1>1. FirstWrite(p1, n) = n /\ p1 >= AsSizeT(n)
  BY TransferAssumption DEF FirstWrite, AsSizeT, Lesser, SizeT
<1>2. Minus(r1, n) = r1 - n
  BY DEF Minus
<1> QED
  BY <1>1, <1>2 DEF UploadStep

(* The package ends in them, and so does the file. *)
LEMMA StepLast ==
  ASSUME NEW p1 \in SizeT, NEW n \in 1 .. INBUFSIZE, p1 < n,
         NEW sig, NEW ps
  PROVE  UploadStep(p1, p1, n, sig, ps) =
           [first |-> p1, second |-> 0, rest |-> 0,
            package_rest |-> p1, cancel |-> FALSE]
<1>1. FirstWrite(p1, n) = p1 /\ ~ (p1 >= AsSizeT(n))
  BY TransferAssumption DEF FirstWrite, AsSizeT, Lesser, SizeT
<1>2. Minus(p1, p1) = 0
  BY DEF Minus, SizeT
<1> QED
  BY <1>1, <1>2 DEF UploadStep

(* The package ends in them, and the next one begins. *)
LEMMA StepNext ==
  ASSUME NEW r1 \in SizeT, NEW p1 \in SizeT, NEW n \in 1 .. INBUFSIZE,
         NEW ps \in SizeT, SizeofPd = 2, p1 + 2 <= n, p1 < r1,
         n - p1 - 2 <= r1 - p1, n - p1 - 2 <= ps
  PROVE  UploadStep(r1, p1, n, "continue", ps) =
           [first |-> p1, second |-> n - p1 - 2,
            rest |-> (r1 - p1) - (n - p1 - 2),
            package_rest |-> ps - (n - p1 - 2), cancel |-> FALSE]
<1> DEFINE b == n - p1 - 2
<1>0. b \in Nat /\ b <= r1 - p1 /\ b <= ps /\ n = p1 + 2 + b
  BY DEF SizeT
<1> HIDE DEF b
<1>1. FirstWrite(p1, n) = p1 /\ ~ (p1 >= AsSizeT(n))
  BY TransferAssumption DEF FirstWrite, AsSizeT, Lesser, SizeT
<1>2. Minus(r1, p1) = r1 - p1 /\ r1 - p1 # 0
  BY DEF Minus, SizeT
<1>3. Behind(p1, n) = b
  BY <1>0 DEF Behind, SizeT
<1>4. SecondWrite(r1 - p1, p1, n) = b
  BY <1>0, <1>3 DEF SecondWrite, Lesser, SizeT
<1>5. (ps - b) % SizeMod = ps - b
  <2>1. ps - b \in 0 .. SizeMod - 1 /\ SizeMod \in Nat
    BY <1>0, TransferAssumption DEF SizeT
  <2> QED
    BY <2>1
<1>6. (IF Behind(p1, n) > 0 THEN b ELSE Behind(p1, n)) = b
  BY <1>0, <1>3
<1>7. UploadStep(r1, p1, n, "continue", ps) =
        [first |-> p1, second |-> b, rest |-> (r1 - p1) - b,
         package_rest |-> ps - b, cancel |-> FALSE]
  BY <1>1, <1>2, <1>3, <1>4, <1>5, <1>6, Zenon DEF UploadStep
<1> QED
  BY <1>7 DEF b

(* ... or asks to wait, or cancels. *)
LEMMA StepOther ==
  ASSUME NEW r1 \in SizeT, NEW p1 \in SizeT, NEW n \in 1 .. INBUFSIZE,
         p1 < n, p1 < r1, NEW sig, sig # "continue", NEW ps
  PROVE  LET u == UploadStep(r1, p1, n, sig, ps)
         IN  /\ u.first = p1 /\ u.second = 0
             /\ u.rest = r1 - p1 /\ u.package_rest = p1
             /\ u.cancel <=> sig = "cancel"
<1>1. FirstWrite(p1, n) = p1 /\ ~ (p1 >= AsSizeT(n))
  BY TransferAssumption DEF FirstWrite, AsSizeT, Lesser, SizeT
<1>2. Minus(r1, p1) = r1 - p1 /\ r1 - p1 # 0
  BY DEF Minus, SizeT
<1>3. UploadStep(r1, p1, n, sig, ps) =
        [first |-> p1, second |-> 0, rest |-> r1 - p1,
         package_rest |-> p1, cancel |-> sig = "cancel"]
  BY <1>1, <1>2 DEF UploadStep
<1> DEFINE u == UploadStep(r1, p1, n, sig, ps)
<1>4. u.first = p1 /\ u.second = 0 /\ u.rest = r1 - p1 /\ u.package_rest = p1
  BY <1>3
<1>5. CASE sig = "cancel"
  <2>1. u = [first |-> p1, second |-> 0, rest |-> r1 - p1,
             package_rest |-> p1, cancel |-> TRUE]
    BY <1>1, <1>2, <1>5 DEF UploadStep
  <2> QED
    BY <1>4, <1>5, <2>1
<1>6. CASE sig # "cancel"
  <2>1. u = [first |-> p1, second |-> 0, rest |-> r1 - p1,
             package_rest |-> p1, cancel |-> FALSE]
    BY <1>1, <1>2, <1>6 DEF UploadStep
  <2> QED
    BY <1>4, <1>6, <2>1
<1> QED
  BY <1>5, <1>6

(* A part of c that grows by what comes next in c. *)
LEMMA PartGrows ==
  ASSUME NEW c \in Seq(Byte), NEW a \in Nat, NEW w \in Seq(Byte),
         a + Len(w) <= Len(c), \A j \in 1 .. Len(w) : w[j] = c[a + j]
  PROVE  SubSeq(c, 1, a) \o w = SubSeq(c, 1, a + Len(w))
<1> DEFINE s == SubSeq(c, 1, a)
           t == SubSeq(c, 1, a + Len(w))
<1>1. Len(w) \in Nat /\ Len(c) \in Nat
  BY LenProperties
<1>2. /\ s \in Seq(Byte) /\ Len(s) = a /\ \A j \in 1 .. a : s[j] = c[j]
      /\ t \in Seq(Byte) /\ Len(t) = a + Len(w)
      /\ \A j \in 1 .. a + Len(w) : t[j] = c[j]
  <2>1. \A j \in 1 .. a + Len(w) : c[j] \in Byte
    BY <1>1, ElementOfSeq
  <2>2. \A j \in 1 .. a : c[j] \in Byte
    BY <1>1, <2>1
  <2> QED
    BY <1>1, <2>1, <2>2, SubSeqProperties
<1> HIDE DEF s, t
<1>3. /\ s \o w \in Seq(Byte) /\ Len(s \o w) = a + Len(w)
      /\ \A j \in 1 .. a + Len(w) :
           (s \o w)[j] = IF j <= a THEN s[j] ELSE w[j - a]
  <2>1. s \in Seq(Byte) /\ Len(s) = a
    BY <1>2
  <2> QED
    BY <2>1, ConcatProperties
<1>4. \A j \in 1 .. a + Len(w) : (s \o w)[j] = t[j]
  <2> TAKE j \in 1 .. a + Len(w)
  <2>1. CASE j <= a
    <3>1. j \in 1 .. a
      BY <2>1
    <3>2. s[j] = c[j] /\ t[j] = c[j]
      BY <1>2, <3>1, Zenon
    <3> QED
      BY <1>3, <2>1, <3>2
  <2>2. CASE ~ (j <= a)
    <3>1. j - a \in 1 .. Len(w) /\ a + (j - a) = j
      BY <1>1, <2>2
    <3>2. w[j - a] = c[j]
      BY <3>1
    <3> QED
      BY <1>2, <1>3, <2>2, <3>2
  <2> QED
    BY <2>1, <2>2
<1> QED
  BY <1>2, <1>3, <1>4, SeqEqual DEF s, t

-----------------------------------------------------------------------------
(* A file in packages.  i packages have begun, and y bytes of the last one *)
(* are to come; what the server counts of it is as much, or more when the  *)
(* last package of the file announced more than it has.                    *)

LastSize(i) == IF i = 0 THEN 0 ELSE Len(BytesOf(i))

Place(i, y) ==
  /\ i \in 0 .. Len(script.packages)
  /\ y \in 0 .. LastSize(i)
  /\ Len(taken) = FileStart + PackedEnd(i) - y
  /\ stored = SubSeq(script.content, 1, ContentEnd(i) - y)
  /\ rest = Len(script.content) - (ContentEnd(i) - y)
  /\ package_rest >= y
  /\ i < Len(script.packages) => package_rest = y

LEMMA PlaceBounds ==
  ASSUME script \in Script, NEW i \in 0 .. Len(script.packages),
         NEW y \in 0 .. LastSize(i)
  PROVE  /\ i \in Nat /\ y \in Nat /\ Len(script.packages) \in Nat
         /\ PackedEnd(i) \in Nat /\ y <= PackedEnd(i) /\ PackedEnd(i) <= Len(File)
         /\ i = Len(script.packages) => PackedEnd(i) = Len(File)
         /\ ContentEnd(i) \in Nat /\ y <= ContentEnd(i)
         /\ ContentEnd(i) <= Len(script.content)
         /\ Len(script.content) \in Nat /\ Len(File) \in Nat
         /\ LastSize(i) \in Nat
         /\ \A j \in 1 .. y :
              File[(PackedEnd(i) - y) + j] =
                script.content[(ContentEnd(i) - y) + j]
<1>1. /\ script.packages \in Seq(Package) /\ script.content \in Seq(Byte)
      /\ File \in Seq(Byte) /\ Packing(script) \in Seq(Seq(Byte))
      /\ Len(Packing(script)) = Len(script.packages)
  BY ScriptTypes, StreamAssumption
<1>2. /\ Len(script.packages) \in Nat /\ Len(script.content) \in Nat
      /\ Len(File) \in Nat
  BY <1>1, LenProperties
<1>3. i = Len(script.packages) => PackedEnd(i) = Len(File)
  BY <1>1, FlatAll DEF PackedEnd, File
<1>4. CASE i = 0
  <2>1. PackedEnd(0) = 0 /\ ContentEnd(0) = 0
    BY FlatNone, EmptySeq DEF PackedEnd, ContentEnd
  <2>2. y = 0 /\ LastSize(i) = 0
    BY <1>4 DEF LastSize
  <2>3. 1 .. 0 = {}
    OBVIOUS
  <2> QED
    BY <1>2, <1>3, <1>4, <2>1, <2>2, <2>3
<1>5. CASE i # 0
  <2> DEFINE e == PackedEnd(i - 1)
             c == ContentEnd(i - 1)
             l == Len(BytesOf(i))
  <2>1. i \in 1 .. Len(script.packages)
    BY <1>2, <1>5
  <2>2. /\ l \in Nat /\ e \in Nat /\ c \in Nat
        /\ PackedEnd(i) = e + 2 + l /\ ContentEnd(i) = c + l
        /\ PackedEnd(i) <= Len(File) /\ ContentEnd(i) <= Len(script.content)
        /\ \A j \in 1 .. l :
             /\ File[e + 2 + j] = BytesOf(i)[j]
             /\ script.content[c + j] = BytesOf(i)[j]
    BY <2>1, PackageAt
  <2>3. y \in 0 .. l /\ LastSize(i) = l
    BY <1>5 DEF LastSize
  <2> HIDE DEF e, c, l
  <2>4. /\ PackedEnd(i) \in Nat /\ y <= PackedEnd(i)
        /\ ContentEnd(i) \in Nat /\ y <= ContentEnd(i) /\ y \in Nat
        /\ LastSize(i) \in Nat /\ i \in Nat
    BY <2>1, <2>2, <2>3
  <2>5. \A j \in 1 .. y :
          File[(PackedEnd(i) - y) + j] = script.content[(ContentEnd(i) - y) + j]
    <3> TAKE j \in 1 .. y
    <3>1. /\ (l - y) + j \in 1 .. l
          /\ (PackedEnd(i) - y) + j = e + 2 + ((l - y) + j)
          /\ (ContentEnd(i) - y) + j = c + ((l - y) + j)
      BY <2>2, <2>3
    <3> DEFINE k == (l - y) + j
    <3> HIDE DEF k
    <3>2. File[e + 2 + k] = script.content[c + k]
      BY <2>2, <3>1 DEF k
    <3> QED
      BY <3>1, <3>2 DEF k
  <2> QED
    BY <1>2, <1>3, <2>2, <2>4, <2>5, Zenon
<1> QED
  BY <1>4, <1>5

(* Where the next package is, and what it has.                             *)
LEMMA NextPackage ==
  ASSUME script \in Script, NEW i \in 0 .. Len(script.packages),
         i < Len(script.packages)
  PROVE  LET q == script.packages[i + 1]
             l == Len(BytesOf(i + 1))
         IN  /\ i + 1 \in 0 .. Len(script.packages)
             /\ q.signal \in Signal /\ q.size \in DOMAIN SizeIn
             /\ l \in Nat /\ LastSize(i + 1) = l
             /\ PackedEnd(i + 1) = PackedEnd(i) + 2 + l
             /\ ContentEnd(i + 1) = ContentEnd(i) + l
             /\ PackedEnd(i + 1) <= Len(File)
             /\ ContentEnd(i + 1) <= Len(script.content)
             /\ File[PackedEnd(i) + 1] = q.signal
             /\ File[PackedEnd(i) + 2] = q.size
             /\ \A j \in 1 .. l : File[PackedEnd(i) + 2 + j] =
                                    script.content[ContentEnd(i) + j]
             /\ q.signal # "continue" => l = 0
             /\ q.signal = "continue" =>
                  /\ l <= SizeIn[q.size]
                  /\ l = SizeIn[q.size] \/ i + 1 = Len(script.packages)
<1>1. i + 1 \in 1 .. Len(script.packages) /\ i + 1 \in 0 .. Len(script.packages)
      /\ (i + 1) - 1 = i /\ i + 1 # 0
  <2>1. script.packages \in Seq(Package)
    BY StreamAssumption
  <2> QED
    BY <2>1, LenProperties
<1> DEFINE q == script.packages[i + 1]
           l == Len(BytesOf(i + 1))
<1>2. /\ q \in Package /\ l \in Nat
      /\ PackedEnd(i + 1) = PackedEnd((i + 1) - 1) + 2 + l
      /\ ContentEnd(i + 1) = ContentEnd((i + 1) - 1) + l
      /\ PackedEnd(i + 1) <= Len(File)
      /\ ContentEnd(i + 1) <= Len(script.content)
      /\ File[PackedEnd((i + 1) - 1) + 1] = q.signal
      /\ File[PackedEnd((i + 1) - 1) + 2] = q.size
      /\ \A j \in 1 .. l :
           /\ File[PackedEnd((i + 1) - 1) + 2 + j] = BytesOf(i + 1)[j]
           /\ script.content[ContentEnd((i + 1) - 1) + j] = BytesOf(i + 1)[j]
  BY <1>1, PackageAt
<1>3. q.signal \in Signal /\ q.size \in DOMAIN SizeIn
  BY <1>2 DEF Package
<1>4. /\ q.signal # "continue" => q.bytes = <<>>
      /\ q.signal = "continue" =>
           \/ Len(q.bytes) = SizeIn[q.size]
           \/ i + 1 = Len(script.packages) /\ Len(q.bytes) < SizeIn[q.size]
  BY <1>1, StreamAssumption
<1>6. SizeIn[q.size] \in Nat
  BY <1>3, SizesInSizeT
<1>7. q.signal = "continue" =>
        /\ Len(q.bytes) <= SizeIn[q.size]
        /\ Len(q.bytes) = SizeIn[q.size] \/ i + 1 = Len(script.packages)
  <2>1. Len(q.bytes) \in Nat
    BY <1>2 DEF BytesOf
  <2> QED
    BY <1>4, <1>6, <2>1
<1>5. LastSize(i + 1) = l /\ BytesOf(i + 1) = q.bytes
  BY <1>1 DEF LastSize, BytesOf
<1> QED
  BY <1>1, <1>2, <1>3, <1>4, <1>5, <1>7, EmptySeq

(* A place is one of the next state. *)
LEMMA PlaceNext ==
  ASSUME script' = script, NEW i \in 0 .. Len(script.packages),
         NEW y \in 0 .. LastSize(i),
         Len(taken') = FileStart + PackedEnd(i) - y,
         stored' = SubSeq(script.content, 1, ContentEnd(i) - y),
         rest' = Len(script.content) - (ContentEnd(i) - y),
         package_rest' >= y,
         i < Len(script.packages) => package_rest' = y
  PROVE  Place(i, y)'
<1>1. Packing(script)' = Packing(script) /\ Payload(script)' = Payload(script)
  BY DEF Packing, Packed, Payload
<1>2. PackedEnd(i)' = PackedEnd(i) /\ ContentEnd(i)' = ContentEnd(i)
  BY <1>1 DEF PackedEnd, ContentEnd
<1>3. LastSize(i)' = LastSize(i)
  BY DEF LastSize, BytesOf
<1>4. FileStart' = FileStart
  BY SameStream
<1> QED
  BY <1>2, <1>3, <1>4 DEF Place

(* When nothing rests, the file is whole. *)
FileSoFar ==
  /\ state = "upload" => \E i \in Nat, y \in Nat : Place(i, y)
  /\ state = "describing" => stored = script.content

LEMMA PlaceSoFar ==
  ASSUME script \in Script, script' = script,
         NEW i \in Nat, NEW y \in Nat, Place(i, y)',
         i \in 0 .. Len(script.packages), y \in 0 .. LastSize(i),
         stored' = SubSeq(script.content, 1, ContentEnd(i) - y),
         rest' = Len(script.content) - (ContentEnd(i) - y),
         state' = IF rest' = 0 THEN "describing" ELSE "upload"
  PROVE  FileSoFar'
<1>1. CASE rest' # 0
  BY <1>1 DEF FileSoFar
<1>2. CASE rest' = 0
  <2>1. /\ ContentEnd(i) \in Nat /\ y <= ContentEnd(i)
        /\ Len(script.content) \in Nat /\ y \in Nat
    BY PlaceBounds
  <2>2. ContentEnd(i) - y = Len(script.content)
    <3> DEFINE a == ContentEnd(i)  b == Len(script.content)
    <3>1. a \in Nat /\ b \in Nat /\ 0 = b - (a - y)
      BY <1>2, <2>1
    <3> HIDE DEF a, b
    <3>2. a - y = b
      BY <3>1
    <3> QED
      BY <3>2 DEF a, b
  <2>3. stored' = SubSeq(script.content, 1, Len(script.content))
    BY <2>2
  <2>4. script.content \in Seq(Byte)
    BY ScriptTypes
  <2>5. stored' = script.content
    BY <2>3, <2>4, SubSeqFull
  <2> QED
    BY <1>2, <2>5 DEF FileSoFar
<1> QED
  BY <1>1, <1>2

LEMMA OneWrite ==
  ASSUME NEW r \in Seq(Byte), package_rest \in SizeT, NEW u, u.second = 0
  PROVE  Written(r, u) = SubSeq(r, 1, u.first) \o <<>>
<1>1. /\ package_rest + SizeofPd + 1 \in Int
      /\ package_rest + SizeofPd + u.second \in Int
      /\ package_rest + SizeofPd + u.second < package_rest + SizeofPd + 1
  BY TransferAssumption DEF SizeT
<1>2. SubSeq(r, package_rest + SizeofPd + 1,
                package_rest + SizeofPd + u.second) = <<>>
  BY <1>1, SubSeqEmpty, Zenon
<1> QED
  BY <1>2 DEF Written, Parts

FileInv ==
  /\ TypeOK
  /\ StreamInv
  /\ inStep /\ clean =>
       /\ FileSoFar
       /\ \A k \in DOMAIN saved : saved[k].bytes = script.content

(* n bytes that file_upload reads in step are bytes of the file. *)
LEMMA FileBytes ==
  ASSUME TypeOK, BytesInOrder, inStep, buf = <<>>,
         NEW i, NEW y, Place(i, y),
         NEW n \in 1 .. Len(wire), Len(taken) + n <= TextStart
  PROVE  LET r == SubSeq(wire, 1, n)
             f == PackedEnd(i) - y
         IN  /\ r \in Seq(Byte) /\ Len(r) = n
             /\ f \in Nat /\ f + n <= Len(File)
             /\ \A j \in 1 .. n : r[j] = File[f + j]
<1> DEFINE r == SubSeq(wire, 1, n)
           f == PackedEnd(i) - y
<1>1. script \in Script /\ wire \in Seq(Byte)
  BY DEF TypeOK
<1>2. n \in Nat /\ n \in 0 .. Len(wire)
  BY <1>1, LenProperties
<1>3. r \in Seq(Byte) /\ Len(r) = n /\ \A j \in 1 .. n : r[j] = wire[j]
  <2>1. \A j \in 1 .. n : wire[j] \in Byte
    BY <1>1, <1>2, ElementOfSeq
  <2> QED
    BY <1>2, <2>1, SubSeqProperties
<1>4. /\ FileStart \in Nat /\ Len(File) \in Nat
      /\ TextStart = FileStart + Len(File)
      /\ \A x \in 1 .. Len(File) : AllBytes[FileStart + x] = File[x]
  BY <1>1, StreamParts
<1>5. \A j \in 1 .. n : wire[j] = AllBytes[Len(taken) + j]
  BY <1>2, WireIsStream
<1>6. f \in Nat /\ Len(taken) = FileStart + f
  <2>1. PackedEnd(i) \in Nat /\ y \in Nat /\ y <= PackedEnd(i)
    BY <1>1, PlaceBounds DEF Place
  <2> QED
    BY <1>4, <2>1 DEF Place
<1> HIDE DEF r, f
<1>7. f + n <= Len(File)
  BY <1>2, <1>4, <1>6
<1>8. \A j \in 1 .. n : r[j] = File[f + j]
  <2> TAKE j \in 1 .. n
  <2>1. f + j \in 1 .. Len(File) /\ Len(taken) + j = FileStart + (f + j)
    BY <1>2, <1>4, <1>6, <1>7
  <2> QED
    BY <1>3, <1>4, <1>5, <2>1
<1> QED
  BY <1>3, <1>6, <1>7, <1>8 DEF r, f

LEMMA FileReadStep ==
  ASSUME FileInv, NEW n \in 1 .. INBUFSIZE, ReadFile(n), inStep', clean'
  PROVE  FileSoFar'
<1> DEFINE r == SubSeq(wire, 1, n)
           content == script.content
<1>1. TypeOK /\ StreamInv /\ script \in Script
  BY DEF FileInv, TypeOK
<1>2. /\ state = "upload" /\ inStep /\ clean
      /\ taken' = taken \o r /\ script' = script
      /\ Len(taken') <= TextStart
      /\ state' = "describing" => Len(taken') = TextStart
  <2>1. TextStart' = TextStart
    BY SameStream DEF ReadFile, client
  <2>2. clean' => clean
    BY Zenon DEF ReadFile
  <2> QED
    BY <2>2 DEF ReadFile, client
<1>3. n \in 1 .. Len(wire)
  BY <1>1, ReadBounds DEF TypeOK, ReadFile
<1>4. buf = <<>> /\ BytesInOrder
  BY <1>1, <1>2 DEF StreamInv
<1>5. PICK i \in Nat, y \in Nat : Place(i, y)
  BY <1>2 DEF FileInv, FileSoFar
<1>6. r \in Seq(Byte) /\ Len(r) = n /\ wire \in Seq(Byte)
  <2>1. wire \in Seq(Byte) /\ n \in 0 .. Len(wire)
    BY <1>1, <1>3, LenProperties DEF TypeOK
  <2> QED
    BY <2>1, Split
<1>7. /\ Len(taken') = Len(taken) + n /\ Len(taken) \in Nat
      /\ Len(taken) + n <= TextStart
  <2>1. taken \in Seq(Byte)
    BY <1>1 DEF TypeOK
  <2>2. Len(taken \o r) = Len(taken) + Len(r) /\ Len(taken) \in Nat
    BY <1>6, <2>1, ByteConcat, Zenon
  <2>3. Len(taken') = Len(taken) + n
    BY <1>2, <1>6, <2>2
  <2> QED
    BY <1>2, <2>2, <2>3
<1> DEFINE e == PackedEnd(i)
           c == ContentEnd(i)
           f == e - y
           g == c - y
           P == Len(script.packages)
           L == Len(content)
           F == Len(File)
<1>8. /\ i \in 0 .. P /\ y \in 0 .. LastSize(i)
      /\ Len(taken) = FileStart + f
      /\ stored = SubSeq(content, 1, g)
      /\ rest = L - g
      /\ package_rest >= y
      /\ i < P => package_rest = y
  <2>1. PackedEnd(i) \in Nat /\ y \in Nat /\ FileStart \in Nat
    BY <1>1, <1>5, PlaceBounds, StreamParts DEF Place
  <2> QED
    BY <1>5, <2>1 DEF Place
<1>9. /\ e \in Nat /\ y <= e /\ e <= F /\ (i = P => e = F) /\ P \in Nat
      /\ c \in Nat /\ y <= c /\ c <= L /\ L \in Nat /\ F \in Nat
      /\ LastSize(i) \in Nat
  BY <1>1, <1>8, PlaceBounds
<1>20. \A j \in 1 .. y : File[f + j] = content[g + j]
  BY <1>1, <1>8, PlaceBounds
<1>10. /\ f \in Nat /\ f + n <= F
       /\ \A j \in 1 .. n : r[j] = File[f + j]
  <2>1. Len(taken) + n <= TextStart
    BY <1>7
  <2> HIDE DEF r
  <2> QED
    BY <1>1, <1>2, <1>3, <1>4, <1>5, <2>1, FileBytes, Zenon DEF r, f, F
<1>11. FileStart \in Nat /\ content \in Seq(Byte)
  BY <1>1, StreamParts, ScriptTypes
<1>12. rest \in SizeT /\ package_rest \in SizeT
  BY <1>1 DEF TypeOK
<1>13. PICK sig \in Signals(r, package_rest + 1),
            ps \in PackageSizes(r, package_rest + 2) :
         LET u == UploadStep(rest, package_rest, n, sig, ps)
         IN  /\ clean' = (clean /\ ReadClean(n, sig, ps))
             /\ rest' = u.rest
             /\ package_rest' = u.package_rest
             /\ IF u.cancel
                THEN stored' = <<>> /\ state' = "command"
                ELSE /\ stored' = stored \o Written(r, u)
                     /\ state' = IF u.rest = 0 THEN "describing" ELSE "upload"
  BY Zenon DEF ReadFile
<1> DEFINE u == UploadStep(rest, package_rest, n, sig, ps)
<1>14. /\ ReadClean(n, sig, ps)
       /\ rest' = u.rest /\ package_rest' = u.package_rest
       /\ u.cancel => state' = "command"
       /\ ~ u.cancel =>
            /\ stored' = stored \o Written(r, u)
            /\ state' = IF rest' = 0 THEN "describing" ELSE "upload"
  <2> HIDE DEF r, u
  <2>1. /\ clean' = (clean /\ ReadClean(n, sig, ps))
        /\ rest' = u.rest
        /\ package_rest' = u.package_rest
        /\ IF u.cancel
           THEN stored' = <<>> /\ state' = "command"
           ELSE /\ stored' = stored \o Written(r, u)
                /\ state' = IF u.rest = 0 THEN "describing" ELSE "upload"
    BY <1>13, Zenon DEF u
  <2> QED
    BY <2>1
<1>15. sig \in Signal /\ ps \in SizeT
  BY <1>13, DescriptorTypes
<1>16. ASSUME NEW i2 \in 0 .. P, NEW y2 \in 0 .. LastSize(i2), ~ u.cancel,
              Len(taken') = FileStart + PackedEnd(i2) - y2,
              stored' = SubSeq(content, 1, ContentEnd(i2) - y2),
              rest' = L - (ContentEnd(i2) - y2),
              package_rest' >= y2, i2 < P => package_rest' = y2
       PROVE  FileSoFar'
  <2>1. state' = IF rest' = 0 THEN "describing" ELSE "upload"
    BY <1>14, <1>16
  <2>2. Place(i2, y2)'
    BY <1>2, <1>16, PlaceNext
  <2>3. i2 \in Nat /\ y2 \in Nat
    BY <1>1, PlaceBounds
  <2> HIDE DEF u
  <2> QED
    BY <1>1, <1>2, <1>16, <2>1, <2>2, <2>3, PlaceSoFar
<1> HIDE DEF r, e, c, P, L, F, u, content
(* The bytes up to the end of the package. *)
<1>17. ASSUME NEW k \in 0 .. n, k <= y
       PROVE  stored \o SubSeq(r, 1, k) = SubSeq(content, 1, g + k)
  <2> DEFINE w == SubSeq(r, 1, k)
  <2>1. w \in Seq(Byte) /\ Len(w) = k /\ \A j \in 1 .. k : w[j] = r[j]
    <3>1. \A j \in 1 .. k : r[j] \in Byte
      BY <1>3, <1>6, ElementOfSeq
    <3> QED
      BY <3>1, SubSeqProperties
  <2>2. g \in Nat /\ g + k <= L
    BY <1>8, <1>9, <1>17
  <2>3. \A j \in 1 .. Len(w) : w[j] = content[g + j]
    <3>1. \A j \in 1 .. k : j \in 1 .. n /\ j \in 1 .. y
      BY <1>3, <1>5, <1>17
    <3> HIDE DEF w, f, g
    <3> QED
      BY <1>10, <1>20, <2>1, <3>1
  <2> HIDE DEF w, g
  <2>4. SubSeq(content, 1, g) \o w = SubSeq(content, 1, g + Len(w))
    BY <1>11, <2>1, <2>2, <2>3, PartGrows DEF L
  <2> QED
    BY <1>8, <2>1, <2>4 DEF w
<1>18. CASE n <= package_rest
  <2>1. n <= y
    <3>1. CASE i < P
      BY <1>8, <1>18, <3>1
    <3>2. CASE ~ (i < P)
      <4>1. e = F
        BY <1>8, <1>9, <3>2
      <4> QED
        BY <1>3, <1>5, <1>9, <1>10, <4>1
    <3> QED
      BY <3>1, <3>2
  <2>2. u = [first |-> n, second |-> 0, rest |-> rest - n,
             package_rest |-> package_rest - n, cancel |-> FALSE]
    <3>1. n <= rest
      BY <1>3, <1>8, <1>9, <2>1
    <3> QED
      BY <1>12, <1>18, <3>1, StepWithin DEF u
  <2>3. stored' = SubSeq(content, 1, g + n)
    <3>1. Written(r, u) = SubSeq(r, 1, n) \o <<>>
      <4>1. u.first = n /\ u.second = 0
        BY <2>2
      <4> QED
        BY <1>6, <1>12, <4>1, OneWrite
    <3>2. n \in 0 .. n /\ n \in 0 .. Len(r)
      BY <1>3, <1>6
    <3>3. SubSeq(r, 1, n) \in Seq(Byte)
      BY <1>6, <3>2, Split
    <3>4. Written(r, u) = SubSeq(r, 1, n)
      BY <3>1, <3>3, ByteConcat, Zenon
    <3>5. stored \o SubSeq(r, 1, n) = SubSeq(content, 1, g + n)
      BY <1>17, <2>1, <3>2
    <3> QED
      BY <1>14, <2>2, <3>4, <3>5
  <2> DEFINE y2 == y - n
  <2>4. /\ y2 \in Nat /\ y2 \in 0 .. LastSize(i)
        /\ Len(taken') = FileStart + e - y2
        /\ g + n = c - y2 /\ rest' = L - (c - y2)
        /\ package_rest' >= y2 /\ (i < P => package_rest' = y2)
    <3>1. y2 \in Nat /\ y2 \in 0 .. LastSize(i)
      BY <1>3, <1>8, <1>9, <2>1
    <3>2. Len(taken') = FileStart + e - y2
      BY <1>3, <1>7, <1>8, <1>9, <1>11
    <3>3. g + n = c - y2 /\ rest' = L - (c - y2)
      BY <1>3, <1>8, <1>9, <1>14, <2>2
    <3>4. package_rest' >= y2 /\ (i < P => package_rest' = y2)
      BY <1>3, <1>8, <1>12, <1>14, <2>2 DEF SizeT
    <3> QED
      BY <3>1, <3>2, <3>3, <3>4
  <2> HIDE DEF y2, g
  <2>5. stored' = SubSeq(content, 1, c - y2)
    BY <2>3, <2>4
  <2>6. ~ u.cancel
    BY <2>2
  <2> QED
    BY <1>8, <1>16, <2>4, <2>5, <2>6 DEF e, c
<1>19. CASE ~ (n <= package_rest)
  <2>1. i < P /\ package_rest = y /\ y < n
    <3>1. y < n
      BY <1>3, <1>5, <1>8, <1>12, <1>19 DEF SizeT
    <3>2. i < P
      <4>1. SUFFICES ASSUME i = P PROVE FALSE
        BY <1>8, <1>9
      <4> QED
        BY <1>3, <1>5, <1>9, <1>10, <3>1, <4>1
    <3> QED
      BY <1>8, <3>1, <3>2
  <2>2. CASE rest = package_rest
    <3>1. u = [first |-> y, second |-> 0, rest |-> 0, package_rest |-> y,
               cancel |-> FALSE]
      <4>1. u = UploadStep(y, y, n, sig, ps) /\ y \in SizeT
        BY <1>12, <2>1, <2>2 DEF u
      <4> QED
        BY <2>1, <4>1, StepLast
    <3>2. y \in 0 .. n /\ y <= y /\ g + y = L
      BY <1>5, <1>8, <1>9, <2>1, <2>2
    <3>3. SubSeq(r, 1, y) \in Seq(Byte)
      <4>1. y \in 0 .. Len(r)
        BY <1>6, <3>2
      <4> QED
        BY <1>6, <4>1, Split
    <3>4. Written(r, u) = SubSeq(r, 1, y)
      <4>1. Written(r, u) = SubSeq(r, 1, y) \o <<>>
        BY <1>6, <1>12, <3>1, OneWrite
      <4> QED
        BY <3>3, <4>1, ByteConcat, Zenon
    <3>5. stored \o SubSeq(r, 1, y) = SubSeq(content, 1, L)
      <4>1. stored \o SubSeq(r, 1, y) = SubSeq(content, 1, g + y)
        BY <1>17, <3>2
      <4> QED
        BY <3>2, <4>1
    <3>6. stored' = content /\ state' = "describing"
      <4>1. SubSeq(content, 1, L) = content
        BY <1>11, SubSeqFull DEF L
      <4> QED
        BY <1>14, <3>1, <3>4, <3>5, <4>1
    <3> QED
      BY <1>2, <3>6 DEF FileSoFar, content
  <2>3. CASE rest # package_rest
    <3> DEFINE q == script.packages[i + 1]
               l == Len(BytesOf(i + 1))
               b == n - y - 2
    <3>1. /\ i + 1 \in 0 .. P
          /\ q.signal \in Signal /\ q.size \in DOMAIN SizeIn
          /\ l \in Nat /\ LastSize(i + 1) = l
          /\ PackedEnd(i + 1) = e + 2 + l
          /\ ContentEnd(i + 1) = c + l
          /\ e + 2 + l <= F /\ c + l <= L
          /\ File[e + 1] = q.signal /\ File[e + 2] = q.size
          /\ \A j \in 1 .. l : File[e + 2 + j] = content[c + j]
          /\ q.signal # "continue" => l = 0
          /\ q.signal = "continue" =>
               l <= SizeIn[q.size] /\ (l = SizeIn[q.size] \/ i + 1 = P)
          /\ i + 1 = P => e + 2 + l = F
      <4>1. i + 1 = P => PackedEnd(i + 1) = F
        BY <1>1, FlatAll, ScriptTypes DEF PackedEnd, File, F, P
      <4>2. i \in 0 .. Len(script.packages) /\ i < Len(script.packages)
        BY <1>8, <2>1 DEF P
      <4>3. LET qq == script.packages[i + 1]
                ll == Len(BytesOf(i + 1))
            IN  /\ i + 1 \in 0 .. Len(script.packages)
                /\ qq.signal \in Signal /\ qq.size \in DOMAIN SizeIn
                /\ ll \in Nat /\ LastSize(i + 1) = ll
                /\ PackedEnd(i + 1) = PackedEnd(i) + 2 + ll
                /\ ContentEnd(i + 1) = ContentEnd(i) + ll
                /\ PackedEnd(i + 1) <= Len(File)
                /\ ContentEnd(i + 1) <= Len(script.content)
                /\ File[PackedEnd(i) + 1] = qq.signal
                /\ File[PackedEnd(i) + 2] = qq.size
                /\ \A j \in 1 .. ll : File[PackedEnd(i) + 2 + j] =
                                        script.content[ContentEnd(i) + j]
                /\ qq.signal # "continue" => ll = 0
                /\ qq.signal = "continue" =>
                     /\ ll <= SizeIn[qq.size]
                     /\ ll = SizeIn[qq.size] \/ i + 1 = Len(script.packages)
        BY <1>1, <4>2, NextPackage
      <4> QED
        BY <4>1, <4>3 DEF e, c, P, L, F, content
    <3>2. /\ b \in Nat /\ n = y + 2 + b
          /\ \/ sig = "continue" /\ b <= ps
             \/ sig = "pause" /\ y = 0 /\ b = 0
             \/ sig = "cancel"
      <4>1. Behind(package_rest, n) = b /\ b \in Int
        BY <1>3, <1>5, <2>1, StreamAssumption DEF Behind
      <4> QED
        BY <1>3, <1>5, <1>14, <1>19, <2>1, <2>3, <4>1 DEF ReadClean
    <3>3. sig = q.signal /\ ps = SizeIn[q.size]
      <4>1. /\ y + 1 \in 1 .. n /\ y + 2 \in 1 .. n
            /\ f + (y + 1) = e + 1 /\ f + (y + 2) = e + 2
        BY <1>3, <1>5, <1>9, <3>2
      <4>2. r[y + 1] = q.signal /\ r[y + 2] = q.size
        BY <1>10, <3>1, <4>1
      <4>3. y + 1 <= Len(r) /\ y + 2 <= Len(r)
        BY <1>6, <4>1
      <4>4. Signals(r, y + 1) = {q.signal}
        BY <3>1, <4>2, <4>3 DEF Signals
      <4>5. PackageSizes(r, y + 2) = {SizeIn[q.size]}
        <5> HIDE DEF q
        <5> QED
          BY <3>1, <4>2, <4>3, Zenon DEF PackageSizes
      <4>6. sig \in Signals(r, y + 1) /\ ps \in PackageSizes(r, y + 2)
        BY <1>13, <2>1
      <4> QED
        BY <4>4, <4>5, <4>6
    <3> HIDE DEF q, l
    <3>4. SizeIn[q.size] \in Nat
      BY <3>1, SizesInSizeT
    <3>5. /\ y \in SizeT /\ rest \in SizeT /\ y < rest /\ rest - y = L - c
          /\ u = UploadStep(rest, y, n, sig, ps)
      BY <1>8, <1>9, <1>12, <2>1, <2>3 DEF u
    <3>6. ASSUME sig # "continue"
          PROVE  /\ u.first = y /\ u.second = 0
                 /\ u.rest = rest - y /\ u.package_rest = y
                 /\ u.cancel <=> sig = "cancel"
      <4> DEFINE v == UploadStep(rest, y, n, sig, ps)
      <4>1. /\ v.first = y /\ v.second = 0
            /\ v.rest = rest - y /\ v.package_rest = y
            /\ v.cancel <=> sig = "cancel"
        BY <2>1, <3>5, <3>6, StepOther
      <4> QED
        BY <3>5, <4>1, Zenon
    <3>7. CASE sig = "cancel"
      <4>1. u.cancel
        BY <3>6, <3>7
      <4> QED
        BY <1>14, <4>1 DEF FileSoFar
    <3>8. /\ stored \o SubSeq(r, 1, y) = SubSeq(content, 1, c)
          /\ SubSeq(r, 1, y) \in Seq(Byte)
      <4>1. y \in 0 .. n /\ y <= y /\ g + y = c /\ y \in 0 .. Len(r)
        BY <1>5, <1>6, <1>9, <2>1
      <4>2. stored \o SubSeq(r, 1, y) = SubSeq(content, 1, g + y)
        BY <1>17, <4>1
      <4> QED
        BY <1>6, <4>1, <4>2, Split
    <3>9. CASE sig = "continue"
      <4>1. b <= l /\ b <= rest - y /\ b <= ps
            /\ (l = ps \/ i + 1 = P) /\ l <= ps
        <5>1. b <= ps
          BY <3>2, <3>9
        <5>2. (l = ps \/ i + 1 = P) /\ l <= ps
          BY <3>1, <3>3, <3>9
        <5>3. b <= l
          BY <1>5, <1>9, <1>10, <3>1, <3>2, <5>1, <5>2
        <5>4. b <= rest - y
          BY <1>9, <3>1, <3>2, <3>5, <5>3
        <5> QED
          BY <5>1, <5>2, <5>3, <5>4
      <4>2. u = [first |-> y, second |-> b, rest |-> (rest - y) - b,
                 package_rest |-> ps - b, cancel |-> FALSE]
        <5>1. SizeofPd = 2
          BY StreamAssumption
        <5>2. /\ y + 2 <= n /\ b <= rest - y /\ b <= ps
              /\ ps \in SizeT /\ y \in SizeT /\ rest \in SizeT /\ y < rest
          BY <1>15, <1>5, <3>2, <3>5, <4>1
        <5> QED
          BY <3>5, <3>9, <5>1, <5>2, StepNext
      <4> DEFINE w == SubSeq(r, y + 3, y + 2 + b)
      <4>3. w \in Seq(Byte) /\ Len(w) = b /\ \A j \in 1 .. b : w[j] = r[y + 2 + j]
        <5>1. \A j \in y + 3 .. y + 2 + b : r[j] \in Byte
          <6>1. \A j \in y + 3 .. y + 2 + b : j \in 1 .. Len(r)
            BY <1>5, <1>6, <3>2
          <6> QED
            BY <1>6, <6>1, ElementOfSeq
        <5> HIDE DEF b
        <5>2. y + 3 \in Int /\ y + 2 + b \in Int
          BY <1>5, <3>2
        <5>3. /\ w \in Seq(Byte)
              /\ Len(w) = IF y + 3 <= y + 2 + b
                          THEN (y + 2 + b) - (y + 3) + 1 ELSE 0
              /\ \A j \in 1 .. (y + 2 + b) - (y + 3) + 1 :
                   w[j] = r[(y + 3) + j - 1]
          BY <5>1, <5>2, SubSeqProperties
        <5>4. (y + 2 + b) - (y + 3) + 1 = b
          BY <1>5, <3>2
        <5>5. \A j \in 1 .. b : (y + 3) + j - 1 = y + 2 + j
          BY <1>5, <3>2
        <5> HIDE DEF w
        <5>6. \A j \in 1 .. b : w[j] = r[y + 2 + j]
          BY <5>3, <5>4, <5>5
        <5>7. Len(w) = b
          BY <1>5, <3>2, <5>3
        <5> QED
          BY <5>3, <5>6, <5>7
      <4>4. \A j \in 1 .. b : w[j] = content[c + j]
        <5> TAKE j \in 1 .. b
        <5>1. /\ y + 2 + j \in 1 .. n /\ j \in 1 .. l
              /\ f + (y + 2 + j) = e + 2 + j
          BY <1>5, <1>9, <3>1, <3>2, <4>1
        <5>2. r[y + 2 + j] = content[c + j]
          <6> HIDE DEF f, b
          <6>1. r[y + 2 + j] = File[f + (y + 2 + j)]
            BY <1>10, <5>1
          <6>2. File[e + 2 + j] = content[c + j]
            BY <3>1, <5>1
          <6> QED
            BY <5>1, <6>1, <6>2
        <5> QED
          BY <4>3, <5>2
      <4>5. Written(r, u) = SubSeq(r, 1, y) \o w
        <5>1. /\ package_rest + SizeofPd + 1 = y + 3
              /\ package_rest + SizeofPd + b = y + 2 + b
          BY <1>5, <2>1, <3>2, StreamAssumption
        <5>2. Written(r, u) =
                SubSeq(r, 1, y)
                  \o SubSeq(r, package_rest + SizeofPd + 1,
                               package_rest + SizeofPd + b)
          <6> HIDE DEF b
          <6> QED
            BY <4>2 DEF Written, Parts
        <5> QED
          BY <5>1, <5>2
      <4> HIDE DEF w
      <4>6. stored' = SubSeq(content, 1, c + b)
        <5>1. SubSeq(content, 1, c) \o w = SubSeq(content, 1, c + b)
          <6> HIDE DEF b
          <6>1. c + Len(w) <= Len(content)
            BY <1>9, <3>1, <3>2, <4>1, <4>3 DEF L
          <6>2. SubSeq(content, 1, c) \o w = SubSeq(content, 1, c + Len(w))
            BY <1>9, <1>11, <4>3, <4>4, <6>1, PartGrows
          <6> QED
            BY <4>3, <6>2
        <5>2. (stored \o SubSeq(r, 1, y)) \o w = stored \o (SubSeq(r, 1, y) \o w)
          <6>1. stored \in Seq(Byte)
            BY <1>1 DEF TypeOK
          <6> QED
            BY <3>8, <4>3, <6>1, ByteAssoc, Zenon
        <5>3. ~ u.cancel
          BY <4>2
        <5>4. stored' = stored \o Written(r, u)
          BY <1>14, <5>3, Zenon
        <5> QED
          BY <3>8, <4>5, <5>1, <5>2, <5>4, Zenon
      <4> DEFINE y2 == l - b
      <4>7. /\ y2 \in 0 .. LastSize(i + 1)
            /\ Len(taken') = FileStart + PackedEnd(i + 1) - y2
            /\ c + b = ContentEnd(i + 1) - y2
            /\ rest' = L - (ContentEnd(i + 1) - y2)
            /\ package_rest' >= y2 /\ (i + 1 < P => package_rest' = y2)
        <5>1. rest' = (rest - y) - b /\ package_rest' = ps - b
          BY <1>14, <4>2
        <5>2. y2 \in 0 .. LastSize(i + 1)
          BY <3>1, <3>2, <4>1
        <5>3. Len(taken') = FileStart + PackedEnd(i + 1) - y2
          BY <1>5, <1>7, <1>8, <1>9, <1>11, <3>1, <3>2, SMTT(30)
        <5>4. c + b = ContentEnd(i + 1) - y2
          BY <1>9, <3>1, <3>2
        <5>5. rest' = L - (ContentEnd(i + 1) - y2)
          BY <1>9, <3>1, <3>2, <3>5, <5>1, <5>4
        <5>6. package_rest' >= y2 /\ (i + 1 < P => package_rest' = y2)
          BY <1>9, <3>1, <3>2, <3>3, <3>4, <4>1, <5>1
        <5> QED
          BY <5>2, <5>3, <5>4, <5>5, <5>6
      <4> HIDE DEF y2
      <4>8. ~ u.cancel /\ stored' = SubSeq(content, 1, ContentEnd(i + 1) - y2)
        BY <4>2, <4>6, <4>7
      <4> QED
        BY <1>16, <3>1, <4>7, <4>8
    <3>10. CASE sig = "pause"
      <4>1. l = 0 /\ y = 0 /\ b = 0
        BY <3>1, <3>2, <3>3, <3>10
      <4>2. /\ u.first = y /\ u.second = 0
            /\ u.rest = rest - y /\ u.package_rest = y
            /\ ~ u.cancel
        BY <3>6, <3>10
      <4>3. stored' = SubSeq(content, 1, c) /\ ~ u.cancel
        <5>1. Written(r, u) = SubSeq(r, 1, y) \o <<>>
          BY <1>6, <1>12, <4>2, OneWrite
        <5>2. Written(r, u) = SubSeq(r, 1, y)
          BY <3>8, <5>1, ByteConcat, Zenon
        <5> QED
          BY <1>14, <3>8, <4>2, <5>2
      <4>4. /\ 0 \in 0 .. LastSize(i + 1)
            /\ Len(taken') = FileStart + PackedEnd(i + 1) - 0
            /\ c = ContentEnd(i + 1) - 0
            /\ rest' = L - (ContentEnd(i + 1) - 0)
            /\ package_rest' = 0
        <5>1. rest' = rest - y /\ package_rest' = y
          BY <1>14, <4>2
        <5> QED
          BY <1>7, <1>8, <1>9, <1>11, <3>1, <3>2, <3>5, <4>1, <5>1
      <4>5. stored' = SubSeq(content, 1, ContentEnd(i + 1) - 0)
            /\ package_rest' >= 0
        BY <4>3, <4>4
      <4> QED
        BY <1>16, <3>1, <4>3, <4>4, <4>5
    <3> QED
      BY <3>2, <3>7, <3>9, <3>10
  <2> QED
    BY <2>2, <2>3
<1> QED
  BY <1>18, <1>19

LEMMA FileSame ==
  ASSUME script \in Script, FileSoFar,
         UNCHANGED <<script, taken, stored, rest, package_rest, state>>
  PROVE  FileSoFar'
<1>1. CASE state = "upload"
  <2>1. PICK i \in Nat, y \in Nat : Place(i, y)
    BY <1>1 DEF FileSoFar
  <2>2. Place(i, y)'
    <3>1. /\ i \in 0 .. Len(script.packages) /\ y \in 0 .. LastSize(i)
          /\ Len(taken') = FileStart + PackedEnd(i) - y
          /\ stored' = SubSeq(script.content, 1, ContentEnd(i) - y)
          /\ rest' = Len(script.content) - (ContentEnd(i) - y)
          /\ package_rest' >= y
          /\ i < Len(script.packages) => package_rest' = y
      BY <2>1 DEF Place
    <3> QED
      BY <3>1, PlaceNext
  <2> QED
    BY <1>1, <2>1, <2>2 DEF FileSoFar
<1>2. CASE state # "upload"
  BY <1>2 DEF FileSoFar
<1> QED
  BY <1>1, <1>2

LEMMA FileInit == Init => FileInv
<1> SUFFICES ASSUME Init PROVE FileInv
  OBVIOUS
<1>1. TypeOK /\ StreamInv
  BY TypeInit, InitInv
<1>2. script.begin \in {"command", "describing"}
      /\ (script.begin = "describing" => script.content = <<>>)
  BY StreamAssumption DEF Init
<1>3. FileSoFar
  BY <1>2 DEF Init, FileSoFar
<1>4. DOMAIN saved = {}
  BY DEF Init
<1> QED
  BY <1>1, <1>3, <1>4 DEF FileInv

LEMMA FileReadCommand ==
  ASSUME FileInv, NEW n \in 1 .. INBUFSIZE, ReadCommand(n), inStep', clean'
  PROVE  FileSoFar'
<1>1. state' # "describing" /\ script' = script
  BY DEF ReadCommand, client
<1>2. CASE state' = "upload"
  <2>1. /\ Len(taken') = FileStart /\ rest' = Len(script.content)
        /\ package_rest' = 0 /\ stored' = <<>>
    BY <1>2 DEF ReadCommand, file
  <2>2. script \in Script
    BY DEF FileInv, TypeOK
  <2>3. PackedEnd(0) = 0 /\ ContentEnd(0) = 0 /\ LastSize(0) = 0
    BY FlatNone, EmptySeq DEF PackedEnd, ContentEnd, LastSize
  <2>4. /\ FileStart \in Nat /\ Len(script.content) \in Nat
        /\ Len(script.packages) \in Nat
    BY <2>2, StreamParts, ScriptTypes, StreamAssumption, LenProperties
  <2>5. SubSeq(script.content, 1, 0) = <<>>
    BY SubSeqEmpty
  <2>6. /\ 0 \in 0 .. Len(script.packages) /\ 0 \in 0 .. LastSize(0)
        /\ Len(taken') = FileStart + PackedEnd(0) - 0
        /\ stored' = SubSeq(script.content, 1, ContentEnd(0) - 0)
        /\ rest' = Len(script.content) - (ContentEnd(0) - 0)
        /\ package_rest' >= 0
    <3>1. ContentEnd(0) - 0 = 0
      BY <2>3
    <3> QED
      BY <2>1, <2>3, <2>4, <2>5, <3>1
  <2>7. Place(0, 0)'
    BY <1>1, <2>1, <2>6, PlaceNext
  <2> QED
    BY <1>2, <2>7 DEF FileSoFar
<1>3. CASE state' # "upload"
  BY <1>1, <1>3 DEF FileSoFar
<1> QED
  BY <1>2, <1>3

(* A file is saved with the bytes that were stored. *)
LEMMA FileReadDescription ==
  ASSUME FileInv, NEW n \in 1 .. INBUFSIZE, ReadDescription(n), inStep', clean'
  PROVE  /\ FileSoFar'
         /\ \A k \in DOMAIN saved' : saved'[k].bytes = script.content
<1>1. /\ stored = script.content /\ script' = script /\ state = "describing"
      /\ \A k \in DOMAIN saved : saved[k].bytes = script.content
  BY DEF ReadDescription, client, FileInv, FileSoFar
<1>2. CASE saved' = saved /\ state' = state /\ stored' = stored
  BY <1>1, <1>2 DEF FileSoFar
<1>3. ASSUME NEW d, saved' = Append(saved, [bytes |-> stored, description |-> d]),
             state' = "command"
      PROVE  \A k \in DOMAIN saved' : saved'[k].bytes = script.content
  <2> DEFINE a == [bytes |-> stored, description |-> d]
             R == [bytes : Seq(Byte), description : Seq(Byte)] \cup {a}
  <2>1. saved \in Seq(R) /\ a \in R
    BY SeqMonotonic DEF FileInv, TypeOK
  <2>2. a.bytes = script.content
    BY <1>1
  <2> HIDE DEF R, a
  <2>3. /\ Len(Append(saved, a)) = Len(saved) + 1 /\ Len(saved) \in Nat
        /\ DOMAIN saved = 1 .. Len(saved)
        /\ \A k \in 1 .. Len(saved) : Append(saved, a)[k] = saved[k]
        /\ Append(saved, a)[Len(saved) + 1] = a
        /\ Append(saved, a) \in Seq(R)
    BY <2>1, AppendProperties, LenProperties
  <2>4. DOMAIN Append(saved, a) = 1 .. Len(saved) + 1
    BY <2>3, LenProperties
  <2> QED
    BY <1>1, <1>3, <2>2, <2>3, <2>4 DEF a
<1> QED
  BY <1>2, <1>3 DEF ReadDescription, FileSoFar

LEMMA FileNext == FileInv /\ [Next]_vars => FileInv'
<1> SUFFICES ASSUME FileInv, [Next]_vars PROVE FileInv'
  OBVIOUS
<1>1. StreamInv' /\ script \in Script
  BY NextInv DEF FileInv, TypeOK
<1>2. CASE Send
  <2>1. TypeOK'
    BY <1>2, TypeSend DEF FileInv
  <2>2. UNCHANGED <<script, taken, stored, rest, package_rest, state, saved,
                    inStep, clean>>
    BY <1>2 DEF Send, file, told
  <2> QED
    BY <1>1, <2>1, <2>2, FileSame DEF FileInv
<1>3. CASE \E n \in 1 .. INBUFSIZE : Read(n)
  <2>1. PICK n \in 1 .. INBUFSIZE : Read(n)
    BY <1>3
  <2>2. CASE ReadCommand(n)
    <3>1. TypeOK' /\ (inStep' /\ clean' => FileSoFar')
      BY <2>2, TypeReadCommand, FileReadCommand DEF FileInv
    <3>2. /\ UNCHANGED <<script, saved, clean>> /\ (inStep' => inStep)
      BY <2>2 DEF ReadCommand, client
    <3> QED
      BY <1>1, <3>1, <3>2 DEF FileInv
  <2>3. CASE ReadFile(n)
    <3>1. TypeOK' /\ (inStep' /\ clean' => FileSoFar')
      BY <2>3, TypeReadFile, FileReadStep DEF FileInv
    <3>2. /\ UNCHANGED <<script, saved>> /\ (inStep' => inStep)
          /\ (clean' => clean)
      BY <2>3, Zenon DEF ReadFile, client
    <3> QED
      BY <1>1, <3>1, <3>2 DEF FileInv
  <2>4. CASE ReadDescription(n)
    <3>1. /\ TypeOK'
          /\ inStep' /\ clean' =>
               /\ FileSoFar'
               /\ \A k \in DOMAIN saved' : saved'[k].bytes = script.content
      BY <2>4, TypeReadDescription, FileReadDescription DEF FileInv
    <3>2. script' = script
      BY <2>4 DEF ReadDescription, client
    <3> QED
      BY <1>1, <3>1, <3>2 DEF FileInv
  <2> QED
    BY <2>1, <2>2, <2>3, <2>4 DEF Read
<1>4. CASE Idle
  <2>1. /\ UNCHANGED <<script, taken, stored, rest, package_rest, saved, inStep,
                       clean>>
        /\ state' = "closed" \/ state' = state
    BY <1>4, IdleStep
  <2>3. TypeOK'
    BY <1>4, TypeIdle DEF FileInv
  <2>4. inStep /\ clean => FileSoFar'
    <3>1. CASE state' = "closed"
      BY <3>1 DEF FileSoFar
    <3>2. CASE state' = state
      BY <1>1, <2>1, <3>2, FileSame DEF FileInv
    <3> QED
      BY <2>1, <3>1, <3>2
  <2> QED
    BY <1>1, <2>1, <2>3, <2>4 DEF FileInv
<1>5. CASE \E n \in 0 .. INBUFSIZE : UploadFails(n)
  <2>1. TypeOK'
    BY <1>5, TypeUploadFails DEF FileInv
  <2>2. clean' = FALSE
    BY <1>5, UploadFailsStep DEF FileInv, StreamInv
  <2> QED
    BY <1>1, <2>1, <2>2 DEF FileInv
<1> QED
  BY <1>2, <1>3, <1>4, <1>5, NextCases

(* When every descriptor comes in one piece, no call of the upload fails   *)
(* and the file begins behind its command, what is stored is the file,     *)
(* byte for byte, whatever else the network cuts and however large the     *)
(* packages are (file_upload).                                             *)
THEOREM FileStored == Spec => []FileArrives
<1>1. FileInv => FileArrives
  <2> SUFFICES ASSUME FileInv, inStep, clean
               PROVE  /\ state = "upload" => IsPrefix(stored, script.content)
                      /\ state = "describing" => stored = script.content
                      /\ \A i \in DOMAIN saved :
                           saved[i].bytes = script.content
    BY DEF FileArrives
  <2>1. ASSUME state = "upload"
        PROVE  IsPrefix(stored, script.content)
    <3>1. PICK i \in Nat, y \in Nat : Place(i, y)
      BY <2>1 DEF FileInv, FileSoFar
    <3> DEFINE g == ContentEnd(i) - y
               c == script.content
    <3>2. script \in Script /\ stored \in Seq(Byte) /\ c \in Seq(Byte)
      BY ScriptTypes DEF FileInv, TypeOK
    <3>3. g \in 0 .. Len(c)
      <4>1. /\ ContentEnd(i) \in Nat /\ y \in Nat /\ y <= ContentEnd(i)
            /\ ContentEnd(i) <= Len(c) /\ Len(c) \in Nat
        BY <3>1, <3>2, PlaceBounds DEF Place
      <4> QED
        BY <4>1
    <3>4. stored = SubSeq(c, 1, g)
      BY <3>1 DEF Place
    <3> HIDE DEF g, c
    <3>5. Len(stored) = g
      BY <3>2, <3>3, <3>4, Split
    <3>6. SubSeq(stored, 1, Len(stored)) = stored
      BY <3>2, SubSeqFull
    <3>7. Len(stored) <= Len(c)
      BY <3>3, <3>5
    <3> QED
      BY <3>4, <3>5, <3>6, <3>7 DEF IsPrefix, c
  <2> QED
    BY <2>1 DEF FileInv, FileSoFar
<1> QED
  BY <1>1, FileInit, FileNext, PTL DEF Spec

-----------------------------------------------------------------------------
(* No file is short. *)

(* Unless a write was short, what was written and what rests are the size  *)
(* of the file, or more when rest has wrapped; and nothing rests of a file *)
(* that is described.                                                      *)
ShortInv ==
  /\ TypeOK
  /\ ~torn /\ state = "upload" => Len(stored) + rest >= Len(script.content)
  /\ NoShortFile

(* A call that writes what it counts. *)
LEMMA UploadCounts ==
  ASSUME ShortInv, state = "upload", script' = script, saved' = saved, TypeOK',
         torn' = torn, NEW rlen \in {-1} \cup 1 .. INBUFSIZE, NEW sig \in Signal,
         NEW ps \in SizeT, NEW w \in Seq(Byte), NEW u,
         u = UploadStep(rest, package_rest, rlen, sig, ps),
         Len(w) = u.first + u.second,
         rest' = u.rest,
         \/ state' = "command"
         \/ /\ stored' = stored \o w
            /\ state' = IF u.rest = 0 THEN "describing" ELSE "upload"
  PROVE  ShortInv'
<1>1. /\ rest \in SizeT /\ package_rest \in SizeT /\ stored \in Seq(Byte)
      /\ script \in Script
  BY DEF ShortInv, TypeOK
<1>2. /\ u.first \in Nat /\ u.second \in Nat /\ u.rest \in Nat
      /\ u.rest + u.first + u.second >= rest
  <2>1. /\ u.first \in SizeT /\ u.second \in SizeT /\ u.rest \in SizeT
        /\ u.rest + u.first + u.second \in {rest, rest + SizeMod}
    BY <1>1, UploadStepCounts
  <2> QED
    BY <1>1, <2>1, TransferAssumption DEF SizeT
<1>3. Len(script.content) \in Nat
  BY <1>1, ScriptTypes, LenProperties
<1>4. CASE state' = "command"
  BY <1>4 DEF ShortInv, NoShortFile
<1>6. CASE torn
  BY <1>6 DEF ShortInv, NoShortFile
<1>5. CASE /\ ~torn
           /\ stored' = stored \o w
           /\ state' = IF u.rest = 0 THEN "describing" ELSE "upload"
  <2>1. Len(stored') = Len(stored) + Len(w)
    BY <1>1, <1>5, ByteConcat, Zenon
  <2>2. Len(stored) \in Nat /\ rest \in Nat
    BY <1>1, LenProperties DEF SizeT
  <2>3. Len(stored) + rest >= Len(script.content)
    BY <1>5 DEF ShortInv
  <2> DEFINE f == u.first  g == u.second  h == u.rest  c == Len(script.content)
             k == Len(stored)
  <2>6. /\ f \in Nat /\ g \in Nat /\ h \in Nat /\ h + f + g >= rest
        /\ c \in Nat /\ k \in Nat /\ k + rest >= c
        /\ Len(stored') = k + (f + g) /\ rest' = h
    BY <1>2, <1>3, <2>1, <2>2, <2>3
  <2> HIDE DEF f, g, h, c, k
  <2>7. k + (f + g) + h >= c /\ (h = 0 => k + (f + g) >= c)
    BY <2>2, <2>6
  <2>4. Len(stored') + rest' >= Len(script.content)
    BY <2>6, <2>7 DEF c
  <2>5. u.rest = 0 => Len(stored') >= Len(script.content)
    BY <2>6, <2>7 DEF c, h
  <2> QED
    BY <1>5, <2>4, <2>5 DEF ShortInv, NoShortFile
<1> QED
  BY <1>4, <1>5, <1>6

LEMMA ShortReadFile ==
  ASSUME ShortInv, NEW n \in 1 .. INBUFSIZE, ReadFile(n)
  PROVE  ShortInv'
<1> DEFINE r == SubSeq(wire, 1, n)
<1>1. /\ TypeOK /\ TypeOK' /\ state = "upload"
      /\ script' = script /\ saved' = saved /\ torn' = torn
  BY TypeReadFile DEF ShortInv, ReadFile, client
<1>2. n \in 1 .. Len(wire) /\ n \in {-1} \cup 1 .. INBUFSIZE
  BY <1>1, ReadBounds DEF TypeOK, ReadFile
<1>3. r \in Seq(Byte) /\ Len(r) = n
  <2>1. wire \in Seq(Byte) /\ n \in 0 .. Len(wire)
    BY <1>1, <1>2 DEF TypeOK
  <2> QED
    BY <2>1, Split, Zenon
<1>4. PICK sig \in Signals(r, package_rest + 1),
           ps \in PackageSizes(r, package_rest + 2) :
        LET u == UploadStep(rest, package_rest, n, sig, ps)
        IN  /\ rest' = u.rest
            /\ IF u.cancel
               THEN stored' = <<>> /\ state' = "command"
               ELSE /\ stored' = stored \o Written(r, u)
                    /\ state' = IF u.rest = 0 THEN "describing" ELSE "upload"
  BY Zenon DEF ReadFile
<1> DEFINE u == UploadStep(rest, package_rest, n, sig, ps)
<1>5. sig \in Signal /\ ps \in SizeT
  BY DescriptorTypes
<1>6. Written(r, u) \in Seq(Byte) /\ Len(Written(r, u)) = u.first + u.second
  <2>1. rest \in SizeT /\ package_rest \in SizeT
    BY <1>1 DEF TypeOK
  <2> HIDE DEF r
  <2>2. LET v == UploadStep(rest, package_rest, n, sig, ps)
        IN  /\ Written(r, v) \in Seq(Byte)
            /\ Len(Written(r, v)) = v.first + v.second
    BY <1>3, <2>1, WrittenBytes
  <2> QED
    BY <2>2, Zenon
<1> HIDE DEF r, u
<1>7. /\ rest' = u.rest
      /\ \/ state' = "command"
         \/ /\ stored' = stored \o Written(r, u)
            /\ state' = IF u.rest = 0 THEN "describing" ELSE "upload"
  BY <1>4, Zenon DEF u
<1> QED
  BY <1>1, <1>2, <1>5, <1>6, <1>7, UploadCounts DEF u

(* Bytes that were not received are counted, and written. *)
LEMMA ShortUploadFails ==
  ASSUME ShortInv, NEW n \in 0 .. INBUFSIZE, UploadFails(n)
  PROVE  ShortInv'
<1>1. /\ TypeOK /\ TypeOK' /\ state = "upload"
      /\ script' = script /\ saved' = saved
  BY TypeUploadFails, UploadFailsStep DEF ShortInv, TypeOK, Buffers, client
<1>2. CASE FileReadFails
  <2>1. PICK sig \in Signals(<<>>, 1), ps \in PackageSizes(<<>>, 2) :
          LET u == UploadStep(rest, package_rest, -1, sig, ps)
          IN  /\ rest' = u.rest
              /\ IF u.cancel
                 THEN stored' = <<>> /\ state' = "command"
                 ELSE /\ stored' = stored \o [i \in 1 .. u.first |-> "?"]
                      /\ state' = IF u.rest = 0 THEN "describing" ELSE "upload"
    BY <1>2, Zenon DEF FileReadFails
  <2> DEFINE u == UploadStep(rest, package_rest, -1, sig, ps)
             w == [i \in 1 .. u.first |-> "?"]
  <2>2. sig \in Signal /\ ps \in SizeT
    BY DescriptorTypes
  <2>3. /\ u.first \in SizeT /\ u.second = 0
    <3>1. rest \in SizeT /\ package_rest \in SizeT
      BY <1>1 DEF TypeOK
    <3>2. u.first \in SizeT
      BY <2>2, <3>1, UploadStepCounts
    <3>3. Behind(package_rest, -1) <= 0
      BY <3>1, TransferAssumption DEF Behind, SizeT
    <3>4. SecondWrite(Minus(rest, FirstWrite(package_rest, -1)), package_rest, -1) = 0
      BY <3>1, <3>3, TransferAssumption DEF SecondWrite, Behind, SizeT
    <3>5. u.second = 0
      BY <3>4 DEF UploadStep
    <3> QED
      BY <3>2, <3>5
  <2>4. w \in Seq(Byte) /\ Len(w) = u.first
    <3> HIDE DEF u
    <3>1. \A i \in 1 .. u.first : "?" \in Byte
      BY DEF Byte
    <3> QED
      BY <2>3, <3>1 DEF SizeT
  <2>5. Len(w) = u.first + u.second
    <3> HIDE DEF u, w
    <3> QED
      BY <2>3, <2>4 DEF SizeT
  <2> HIDE DEF u, w
  <2>6. /\ rest' = u.rest
        /\ \/ state' = "command"
           \/ /\ stored' = stored \o w
              /\ state' = IF u.rest = 0 THEN "describing" ELSE "upload"
    BY <2>1, Zenon DEF u, w
  <2>7. -1 \in {-1} \cup 1 .. INBUFSIZE /\ torn' = torn
    BY <1>2, Zenon DEF FileReadFails
  <2> QED
    BY <1>1, <2>2, <2>4, <2>5, <2>6, <2>7, UploadCounts DEF u
<1>3. CASE FileWriteFails(n)
  <2>1. state' = "command" /\ torn' = torn
    BY <1>3 DEF FileWriteFails
  <2> QED
    BY <1>1, <2>1 DEF ShortInv, NoShortFile
<1>4. CASE FileWriteShort(n)
  <2>1. torn'
    BY <1>4 DEF FileWriteShort
  <2> QED
    BY <1>1, <2>1 DEF ShortInv, NoShortFile
<1> QED
  BY <1>2, <1>3, <1>4 DEF UploadFails

LEMMA ShortReadCommand ==
  ASSUME ShortInv, NEW n \in 1 .. INBUFSIZE, ReadCommand(n)
  PROVE  ShortInv'
<1>1. /\ TypeOK' /\ script' = script /\ saved' = saved /\ torn' = torn
      /\ state' # "describing"
  BY TypeReadCommand DEF ShortInv, ReadCommand, client
<1>2. state' = "upload" => stored' = <<>> /\ rest' = Len(script.content)
  BY DEF ReadCommand, file
<1>3. Len(<<>>) = 0 /\ Len(script.content) \in Nat
  BY ScriptTypes, LenProperties DEF ShortInv, TypeOK
<1>4. state' = "upload" => Len(stored') + rest' >= Len(script.content)
  BY <1>2, <1>3
<1> QED
  BY <1>1, <1>4 DEF ShortInv, NoShortFile

LEMMA ShortReadDescription ==
  ASSUME ShortInv, NEW n \in 1 .. INBUFSIZE, ReadDescription(n)
  PROVE  ShortInv'
<1>1. /\ TypeOK /\ TypeOK' /\ script' = script /\ torn' = torn
      /\ state = "describing"
  BY TypeReadDescription DEF ShortInv, ReadDescription, client
<1>2. \/ saved' = saved /\ state' = state /\ stored' = stored
      \/ \E d : /\ state' = "command"
              /\ saved' = Append(saved, [bytes |-> stored, description |-> d])
  BY Zenon DEF ReadDescription
<1>3. CASE torn \/ (saved' = saved /\ state' = state /\ stored' = stored)
  BY <1>1, <1>3 DEF ShortInv, NoShortFile
<1>4. ASSUME NEW d, ~torn, state' = "command",
             saved' = Append(saved, [bytes |-> stored, description |-> d])
      PROVE  ShortInv'
  <2> DEFINE a == [bytes |-> stored, description |-> d]
             c == Len(script.content)
  <2>1. /\ Len(stored) >= c
        /\ \A i \in DOMAIN saved : Len(saved[i].bytes) >= c
    BY <1>1, <1>4 DEF ShortInv, NoShortFile
  <2>2. a.bytes = stored
    OBVIOUS
  <2> HIDE DEF a, c
  <2>3. saved \in Seq([bytes : Seq(Byte), description : Seq(Byte)])
    BY <1>1 DEF TypeOK
  <2>4. \A i \in DOMAIN Append(saved, a) :
          \/ i \in DOMAIN saved /\ Append(saved, a)[i] = saved[i]
          \/ Append(saved, a)[i] = a
    BY <2>3
  <2>5. \A i \in DOMAIN Append(saved, a) : Len(Append(saved, a)[i].bytes) >= c
    BY <2>1, <2>2, <2>4, Zenon
  <2>6. \A i \in DOMAIN saved' : Len(saved'[i].bytes) >= Len(script.content)
    BY <1>4, <2>5, Zenon DEF a, c
  <2> QED
    BY <1>1, <1>4, <2>6 DEF ShortInv, NoShortFile
<1> QED
  BY <1>2, <1>3, <1>4

LEMMA ShortNext == ShortInv /\ [Next]_vars => ShortInv'
<1> SUFFICES ASSUME ShortInv, [Next]_vars PROVE ShortInv'
  OBVIOUS
<1>1. CASE Send
  <2>1. TypeOK'
    BY <1>1, TypeSend DEF ShortInv
  <2> QED
    BY <1>1, <2>1 DEF Send, ShortInv, NoShortFile, file, told
<1>2. CASE \E n \in 1 .. INBUFSIZE : Read(n)
  BY <1>2, ShortReadCommand, ShortReadFile, ShortReadDescription DEF Read
<1>3. CASE Idle
  <2>1. TypeOK'
    BY <1>3, TypeIdle DEF ShortInv
  <2> QED
    BY <1>3, <2>1, IdleStep DEF ShortInv, NoShortFile
<1>4. CASE \E n \in 0 .. INBUFSIZE : UploadFails(n)
  BY <1>4, ShortUploadFails
<1> QED
  BY <1>1, <1>2, <1>3, <1>4, NextCases

(* Whatever a client sends and whatever fails, no file is finished or      *)
(* saved with fewer bytes than its size, unless a write was short          *)
(* (file_upload).                                                          *)
THEOREM NoFileShort == Spec => []NoShortFile
<1>1. Init => ShortInv
  <2> SUFFICES ASSUME Init PROVE ShortInv
    OBVIOUS
  <2>1. TypeOK /\ script \in Script /\ state = script.begin /\ stored = <<>>
    BY TypeInit DEF Init
  <2>2. /\ state # "upload"
        /\ state = "describing" => script.content = <<>>
    BY <2>1, StreamAssumption
  <2>3. DOMAIN saved = {} /\ Len(<<>>) = 0
    BY DEF Init
  <2> QED
    BY <2>1, <2>2, <2>3 DEF ShortInv, NoShortFile
<1>2. ShortInv => NoShortFile
  BY DEF ShortInv
<1> QED
  BY <1>1, <1>2, ShortNext, PTL DEF Spec

-----------------------------------------------------------------------------
(* Line ends in parts of a text. *)

NoLineEnds(s) == \A i \in 1 .. Len(s) : ~ InLineEnd(s, i)

(* A text may be turned part by part, unless a line end is between them.   *)
LEMMA UnixConcat ==
  ASSUME NEW a \in Seq(Byte), NEW b \in Seq(Byte),
         ~ (a # <<>> /\ b # <<>> /\ a[Len(a)] = "CR" /\ b[1] = "NL")
  PROVE  Unix(a \o b) = Unix(a) \o Unix(b)
<1> DEFINE c == a \o b
           N == Len(a)
           M == Len(b)
<1>1. /\ c \in Seq(Byte) /\ Len(c) = N + M /\ N \in Nat /\ M \in Nat
      /\ \A i \in 1 .. N + M : c[i] = IF i <= N THEN a[i] ELSE b[i - N]
      /\ N # 0 => a # <<>>
      /\ M # 0 => b # <<>>
  <2>1. c \in Seq(Byte) /\ Len(c) = N + M
    BY ByteConcat, Zenon
  <2>2. N \in Nat /\ M \in Nat
    BY ByteConcat, Zenon
  <2>3. \A i \in 1 .. N + M : c[i] = IF i <= N THEN a[i] ELSE b[i - N]
    BY ByteAt, Zenon
  <2>4. (N # 0 => a # <<>>) /\ (M # 0 => b # <<>>)
    BY ByteConcat, Zenon
  <2> QED
    BY <2>1, <2>2, <2>3, <2>4
<1>2. /\ Pieces(a) \in Seq(Seq(Byte)) /\ Len(Pieces(a)) = N
      /\ Pieces(b) \in Seq(Seq(Byte)) /\ Len(Pieces(b)) = M
      /\ Pieces(c) \in Seq(Seq(Byte)) /\ Len(Pieces(c)) = N + M
      /\ Unix(a) = FlattenSeq(Pieces(a))
      /\ Unix(b) = FlattenSeq(Pieces(b))
      /\ Unix(c) = FlattenSeq(Pieces(c))
  <2>1. c \in Seq(Byte)
    BY <1>1
  <2> HIDE DEF c
  <2> QED
    BY <1>1, <2>1, UnixSeq
<1> HIDE DEF c, N, M
<1>3. \A i \in 1 .. N : Pieces(c)[i] = Pieces(a)[i]
  <2> TAKE i \in 1 .. N
  <2>1. i \in 1 .. N + M /\ c[i] = a[i]
    BY <1>1
  <2>2. InLineEnd(c, i) <=> InLineEnd(a, i)
    <3>1. CASE i < N
      <4>1. i + 1 \in 1 .. N + M /\ i + 1 <= N
        BY <1>1, <3>1
      <4>2. c[i + 1] = a[i + 1]
        BY <1>1, <4>1
      <4>3. i < Len(c) /\ i < Len(a)
        BY <1>1, <3>1, <4>1 DEF N
      <4> QED
        BY <2>1, <4>2, <4>3 DEF InLineEnd
    <3>2. CASE ~ (i < N)
      <4>1. i = N
        BY <1>1, <3>2
      <4>2. ~ InLineEnd(a, i)
        BY <1>1, <3>2 DEF InLineEnd, N
      <4>3. ASSUME InLineEnd(c, i) PROVE FALSE
        <5>1. c[i] = "CR" /\ i < Len(c) /\ c[i + 1] = "NL"
          BY <4>3 DEF InLineEnd
        <5>2. /\ N + 1 \in 1 .. N + M /\ ~ (N + 1 <= N) /\ N + 1 - N = 1
              /\ M # 0 /\ N # 0
          BY <1>1, <4>1, <5>1
        <5>3. c[N + 1] = b[1]
          BY <1>1, <5>2
        <5>4. a[N] = "CR" /\ b[1] = "NL" /\ a # <<>> /\ b # <<>>
          BY <1>1, <2>1, <4>1, <5>1, <5>2, <5>3
        <5> QED
          BY <5>4 DEF N
      <4> QED
        BY <4>2, <4>3
    <3> QED
      BY <3>1, <3>2
  <2>3. i \in 1 .. Len(c) /\ i \in 1 .. Len(a)
    BY <1>1, <2>1 DEF N
  <2> QED
    BY <2>1, <2>2, <2>3 DEF Pieces
<1>4. \A i \in 1 .. M : Pieces(c)[N + i] = Pieces(b)[i]
  <2> TAKE i \in 1 .. M
  <2>1. /\ N + i \in 1 .. N + M /\ ~ (N + i <= N) /\ N + i - N = i
        /\ N + i \in 1 .. Len(c)
    BY <1>1
  <2>2. c[N + i] = b[i]
    BY <1>1, <2>1
  <2>3. InLineEnd(c, N + i) <=> InLineEnd(b, i)
    <3>1. N + i < Len(c) <=> i < Len(b)
      BY <1>1 DEF M
    <3>2. i < M => c[(N + i) + 1] = b[i + 1]
      <4> SUFFICES ASSUME i < M PROVE c[(N + i) + 1] = b[i + 1]
        OBVIOUS
      <4>1. /\ (N + i) + 1 \in 1 .. N + M /\ ~ ((N + i) + 1 <= N)
            /\ (N + i) + 1 - N = i + 1
        BY <1>1
      <4> QED
        BY <1>1, <4>1
    <3> QED
      BY <2>2, <3>1, <3>2 DEF InLineEnd, M
  <2>4. i \in 1 .. Len(b)
    BY DEF M
  <2> QED
    BY <2>1, <2>2, <2>3, <2>4 DEF Pieces
<1> DEFINE p == Pieces(a)
           q == Pieces(b)
           s == Pieces(c)
<1>5. /\ p \in Seq(Seq(Byte)) /\ q \in Seq(Seq(Byte)) /\ s \in Seq(Seq(Byte))
      /\ Len(p) = N /\ Len(q) = M /\ Len(s) = N + M
      /\ \A i \in 1 .. N : s[i] = p[i]
      /\ \A i \in 1 .. M : s[N + i] = q[i]
  BY <1>2, <1>3, <1>4
<1> HIDE DEF p, q, s
<1>6. s = p \o q
  <2> DEFINE pq == p \o q
  <2>1. /\ pq \in Seq(Seq(Byte)) /\ Len(pq) = N + M
        /\ \A i \in 1 .. N + M : pq[i] = IF i <= N THEN p[i] ELSE q[i - N]
    BY <1>5, ConcatProperties
  <2> HIDE DEF pq
  <2>2. \A i \in 1 .. N + M : s[i] = pq[i]
    <3> TAKE i \in 1 .. N + M
    <3>1. CASE i <= N
      BY <1>5, <2>1, <3>1
    <3>2. CASE ~ (i <= N)
      <4>1. i - N \in 1 .. M /\ N + (i - N) = i
        BY <1>1, <3>2
      <4>2. s[i] = q[i - N]
        BY <1>5, <4>1
      <4> QED
        BY <2>1, <3>2, <4>2
    <3> QED
      BY <3>1, <3>2
  <2>3. Len(s) = Len(pq) /\ \A i \in 1 .. Len(s) : s[i] = pq[i]
    BY <1>5, <2>1, <2>2
  <2>4. s = pq
    BY <1>5, <2>1, <2>3, SeqEqual
  <2> QED
    BY <2>4 DEF pq
<1>7. FlattenSeq(p \o q) = FlattenSeq(p) \o FlattenSeq(q)
  BY <1>5, FlatConcat
<1> QED
  BY <1>2, <1>6, <1>7 DEF p, q, s, c

(* A text without line ends of two bytes stays as it is, and no other.     *)
LEMMA UnixSame ==
  ASSUME NEW s \in Seq(Byte), NoLineEnds(s)
  PROVE  Unix(s) = s
<1> DEFINE p == Pieces(s)
           T == {k \in 0 .. Len(s) : Flat(p, k) = SubSeq(s, 1, k)}
<1>1. p \in Seq(Seq(Byte)) /\ Len(p) = Len(s) /\ Unix(s) = FlattenSeq(p)
  BY UnixSeq
<1>2. \A i \in 1 .. Len(s) : p[i] = <<s[i]>> /\ s[i] \in Byte
  BY ElementOfSeq DEF Pieces, NoLineEnds
<1>3. Len(s) \in Nat
  BY LenProperties
<1> HIDE DEF p
<1>4. 0 \in T
  <2>1. Flat(p, 0) = <<>> /\ SubSeq(s, 1, 0) = <<>>
    BY FlatNone, SubSeqEmpty
  <2>2. 0 \in 0 .. Len(s)
    BY <1>3
  <2> QED
    BY <2>1, <2>2, Zenon
<1>5. ASSUME NEW k \in 0 .. Len(s) - 1, k \in T
      PROVE  k + 1 \in T
  <2>1. /\ k \in 0 .. Len(p) /\ k < Len(p) /\ k + 1 \in 1 .. Len(s)
        /\ k \in Nat /\ k + 1 \in 0 .. Len(s)
    BY <1>1, <1>3
  <2>2. Flat(p, k + 1) = Flat(p, k) \o p[k + 1]
    BY <1>1, <2>1, FlatStep
  <2> DEFINE w == <<s[k + 1]>>
  <2>3. w \in Seq(Byte) /\ Len(w) = 1 /\ \A j \in 1 .. 1 : w[j] = s[k + j]
    BY <1>2, <2>1
  <2>4. p[k + 1] = w /\ Flat(p, k) = SubSeq(s, 1, k)
    BY <1>2, <1>5, <2>1
  <2> HIDE DEF w
  <2>5. SubSeq(s, 1, k) \o w = SubSeq(s, 1, k + 1)
    <3>1. k + Len(w) <= Len(s)
      BY <1>3, <2>1, <2>3
    <3>2. SubSeq(s, 1, k) \o w = SubSeq(s, 1, k + Len(w))
      BY <2>1, <2>3, <3>1, PartGrows
    <3> QED
      BY <2>3, <3>2
  <2> QED
    BY <2>1, <2>2, <2>4, <2>5
<1> HIDE DEF T
<1>6. \A k \in 0 .. Len(s) : k \in T
  BY <1>3, <1>4, <1>5, UpTo
<1>7. Flat(p, Len(s)) = SubSeq(s, 1, Len(s))
  BY <1>3, <1>6 DEF T
<1> QED
  BY <1>1, <1>7, FlatAll, SubSeqFull

LEMMA UnixFixed ==
  ASSUME NEW s \in Seq(Byte), Unix(s) = s
  PROVE  NoLineEnds(s)
<1> SUFFICES ASSUME NEW i \in 1 .. Len(s), InLineEnd(s, i) PROVE FALSE
  BY DEF NoLineEnds
<1> DEFINE p == Pieces(s)
           T == {k \in 0 .. Len(s) :
                   Len(Flat(p, k)) <= IF i <= k THEN k - 1 ELSE k}
<1>1. p \in Seq(Seq(Byte)) /\ Len(p) = Len(s) /\ Unix(s) = FlattenSeq(p)
  BY UnixSeq
<1>2. p[i] = <<>> /\ \A k \in 1 .. Len(s) : p[k] \in {<<>>, <<s[k]>>}
  BY DEF Pieces
<1>3. Len(s) \in Nat
  BY LenProperties
<1> HIDE DEF p
<1>4. 0 \in T
  <2>1. Len(Flat(p, 0)) = 0
    BY FlatNone, EmptySeq
  <2> QED
    BY <1>3, <2>1
<1>5. ASSUME NEW k \in 0 .. Len(s) - 1, k \in T
      PROVE  k + 1 \in T
  <2>1. /\ k \in 0 .. Len(p) /\ k < Len(p) /\ k + 1 \in 1 .. Len(s)
        /\ k \in Nat /\ k + 1 \in 0 .. Len(s)
    BY <1>1, <1>3
  <2>2. /\ Len(Flat(p, k + 1)) = Len(Flat(p, k)) + Len(p[k + 1])
        /\ Flat(p, k) \in Seq(Byte)
    BY <1>1, <2>1, FlatStep
  <2>3. Len(p[k + 1]) \in {0, 1} /\ (k + 1 = i => Len(p[k + 1]) = 0)
    BY <1>2, <2>1
  <2>4. Len(Flat(p, k)) \in Nat
    BY <2>2, LenProperties
  <2>5. Len(Flat(p, k)) <= IF i <= k THEN k - 1 ELSE k
    BY <1>5
  <2>6. Len(Flat(p, k + 1)) <= IF i <= k + 1 THEN (k + 1) - 1 ELSE k + 1
    <3> DEFINE x == Len(Flat(p, k + 1))
               y == Len(Flat(p, k))
               z == Len(p[k + 1])
    <3>1. /\ x = y + z /\ z \in {0, 1} /\ (k + 1 = i => z = 0)
          /\ y \in Nat /\ y <= (IF i <= k THEN k - 1 ELSE k)
          /\ i \in Nat /\ k \in Nat
      BY <2>1, <2>2, <2>3, <2>4, <2>5
    <3> HIDE DEF x, y, z
    <3>2. x <= IF i <= k + 1 THEN (k + 1) - 1 ELSE k + 1
      BY <3>1
    <3> QED
      BY <3>2 DEF x
  <2> QED
    BY <2>1, <2>6
<1> HIDE DEF T
<1>6. \A k \in 0 .. Len(s) : k \in T
  BY <1>3, <1>4, <1>5, UpTo
<1>7. Len(Flat(p, Len(s))) <= Len(s) - 1
  BY <1>3, <1>6 DEF T
<1>8. Flat(p, Len(s)) = s
  BY <1>1, FlatAll
<1> QED
  BY <1>3, <1>7, <1>8

-----------------------------------------------------------------------------
(* Where a description ends. *)

(* A client sends its text at once: what waits of it is all that is left.  *)
LEMMA WireIsRest ==
  ASSUME TypeOK, BytesInOrder, inStep, buf = <<>>, wire # <<>>,
         Len(taken) >= TextStart
  PROVE  Len(taken) + Len(wire) = TextStart + Len(script.text)
<1>1. /\ script \in Script /\ wire \in Seq(Byte) /\ taken \in Seq(Byte)
      /\ sent \in 0 .. Len(Messages)
  BY DEF TypeOK
<1>2. Messages \in Seq(Seq(Byte)) /\ Messages \in Seq(Seq(Byte) \ {<<>>})
  BY <1>1, MessagesSeq, MessagesNotEmpty
<1>3. /\ TextStart \in Nat /\ Len(script.text) \in Nat
      /\ Len(AllBytes) = TextStart + Len(script.text)
  BY <1>1, StreamParts
<1>4. Len(taken) \in Nat /\ Len(wire) \in Nat \ {0} /\ Len(Messages) \in Nat
  BY <1>1, <1>2, EmptySeq, LenProperties
<1>5. Len(Flat(Messages, sent)) = Len(taken) + Len(wire)
  <2>1. taken \o buf = taken
    BY <1>1, ByteConcat, Zenon
  <2>2. taken \o wire = Flat(Messages, sent)
    BY <2>1 DEF BytesInOrder, Flat
  <2> QED
    BY <1>1, <2>2, ByteConcat
<1>6. Flat(Messages, Len(Messages)) = AllBytes
  BY <1>2, FlatAll DEF AllBytes
<1>7. CASE sent = Len(Messages)
  BY <1>3, <1>5, <1>6, <1>7
<1>8. CASE sent # Len(Messages)
  <2> DEFINE K == Len(Messages) - 1
  <2>1. /\ K \in 0 .. Len(Messages) /\ K < Len(Messages) /\ K + 1 = Len(Messages)
        /\ sent \in 0 .. Len(Messages) /\ K - sent \in 0 .. Len(Messages) - sent
        /\ sent + (K - sent) = K /\ K - sent \in Nat
    BY <1>1, <1>4, <1>8
  <2>2. \A k \in 0 .. Len(Messages) - sent :
          Len(Flat(Messages, sent + k)) >= Len(Flat(Messages, sent)) + k
    BY <1>2, <2>1, FlatGrows
  <2>3. Len(Flat(Messages, K)) >= Len(Flat(Messages, sent)) + (K - sent)
    <3> HIDE DEF K
    <3> QED
      BY <2>1, <2>2
  <2>4. /\ Flat(Messages, K) \in Seq(Byte)
        /\ Len(Flat(Messages, K + 1)) = Len(Flat(Messages, K)) + Len(Messages[K + 1])
    BY <1>2, <2>1, FlatStep
  <2>5. script.text # <<>> => Len(Messages[K + 1]) = Len(script.text)
    <3> SUFFICES ASSUME script.text # <<>>
                 PROVE  Messages[Len(Messages)] = script.text
      BY <2>1
    <3> DEFINE a == script.commands \o MessageOf(File)
               t == script.text
    <3>1. a \in Seq(Seq(Byte)) /\ t \in Seq(Byte)
      <4>1. \A m \in Seq(Byte) : MessageOf(m) \in Seq(Seq(Byte))
        BY DEF MessageOf
      <4> QED
        BY <1>1, <4>1, ScriptTypes, ConcatProperties
    <3>2. Messages = a \o <<t>>
      BY DEF Messages, MessageOf
    <3> HIDE DEF a, t
    <3>3. Messages = Append(a, t)
      BY <3>1, <3>2, AppendIsConcat
    <3>4. Len(Messages) = Len(a) + 1 /\ Messages[Len(a) + 1] = t
      BY <3>1, <3>3, AppendProperties
    <3> QED
      BY <3>4 DEF t
  <2>6. script.text = <<>> => Len(script.text) = 0
    OBVIOUS
  <2>7. Len(Flat(Messages, K)) \in Nat
    BY <2>4, LenProperties
  <2>8. Len(Flat(Messages, K + 1)) = TextStart + Len(script.text)
    BY <1>3, <1>6, <2>1
  <2> HIDE DEF K
  <2>9. Len(Flat(Messages, K)) <= TextStart
    <3> DEFINE x == Len(Flat(Messages, K + 1))
               y == Len(Flat(Messages, K))
               z == Len(Messages[K + 1])
               t == Len(script.text)
    <3>3. /\ x = y + z /\ y \in Nat /\ x = TextStart + t
          /\ TextStart \in Nat /\ t \in Nat
      BY <1>3, <2>4, <2>7, <2>8
    <3>1. CASE script.text = <<>>
      <4>1. K + 1 \in 1 .. Len(Messages)
        BY <2>1
      <4>2. Messages[K + 1] \in Seq(Byte)
        BY <1>2, <4>1, ElementOfSeq
      <4>3. Len(Messages[K + 1]) \in Nat /\ Len(script.text) = 0
        BY <2>6, <3>1, <4>2, LenProperties
      <4>4. z \in Nat /\ t = 0
        BY <4>3
      <4> HIDE DEF x, y, z, t
      <4>5. y <= TextStart
        BY <3>3, <4>4
      <4> QED
        BY <4>5 DEF y
    <3>2. CASE script.text # <<>>
      <4>1. z = t
        BY <2>5, <3>2
      <4> HIDE DEF x, y, z, t
      <4>2. y <= TextStart
        BY <3>3, <4>1
      <4> QED
        BY <4>2 DEF y
    <3> QED
      BY <3>1, <3>2
  <2> QED
    BY <1>3, <1>4, <1>5, <2>1, <2>3, <2>7, <2>9
<1> QED
  BY <1>7, <1>8

(* The two bytes of a marker. *)
LEMMA MarkerPair ==
  ASSUME NEW s \in Seq(Byte), NEW i \in 2 .. Len(s)
  PROVE  SubSeq(s, i - 1, i) = Marker <=> s[i - 1] = "E1" /\ s[i] = "E2"
<1> DEFINE w == SubSeq(s, i - 1, i)
           m == Marker
<1>1. Len(s) \in Nat /\ i \in 1 .. Len(s) /\ i - 1 \in 1 .. Len(s)
  BY LenProperties
<1>2. w \in Seq(Byte) /\ Len(w) = 2 /\ w[1] = s[i - 1] /\ w[2] = s[i]
  <2>1. /\ Len(w) = i - (i - 1) + 1
        /\ \A j \in 1 .. i - (i - 1) + 1 : w[j] = s[(i - 1) + j - 1]
    BY <1>1, SubSeqProperties
  <2>2. w \in Seq(Byte)
    <3>1. \A j \in i - 1 .. i : s[j] \in Byte
      BY <1>1, ElementOfSeq
    <3> QED
      BY <1>1, <3>1, SubSeqProperties
  <2>3. /\ i - (i - 1) + 1 = 2 /\ 1 \in 1 .. i - (i - 1) + 1
        /\ 2 \in 1 .. i - (i - 1) + 1
        /\ (i - 1) + 1 - 1 = i - 1 /\ (i - 1) + 2 - 1 = i
    BY <1>1
  <2> QED
    BY <2>1, <2>2, <2>3
<1>3. m \in Seq(Byte) /\ Len(m) = 2 /\ m[1] = "E1" /\ m[2] = "E2"
  BY DEF Marker, Byte, Text
<1> HIDE DEF w, m
<1>4. ASSUME w[1] = m[1], w[2] = m[2] PROVE w = m
  <2>1. \A j \in 1 .. Len(w) : w[j] = m[j]
    <3>1. \A j \in 1 .. 2 : j = 1 \/ j = 2
      OBVIOUS
    <3> QED
      BY <1>2, <1>4, <3>1
  <2> QED
    BY <1>2, <1>3, <2>1, SeqEqual
<1> QED
  BY <1>2, <1>3, <1>4 DEF w, m

(* What the client of a script writes ends with its marker and a newline.  *)
EndsMarked(t) ==
  \A i \in MarkerEnds(t) : i = Len(t) - 1 /\ t[i + 1] = "NL"

Ending == Marker \o <<"NL">>

Before(t) == SubSeq(t, 1, Least(MarkerEnds(t)) - Len(Marker))

LEMMA MarkerText ==
  ASSUME NEW t \in Seq(Byte), HasMarker(t), EndsMarked(t)
  PROVE  /\ Before(t) \in Seq(Byte)
         /\ Len(Before(t)) = Len(t) - 3
         /\ Len(t) - 2 \in 1 .. Len(t)
         /\ t = Before(t) \o Ending
         /\ t[Len(t) - 2] = "E1" /\ t[Len(t) - 1] = "E2" /\ t[Len(t)] = "NL"
<1> DEFINE e == Least(MarkerEnds(t))
           L == Len(t)
           m == Ending
<1>1. e \in MarkerEnds(t) /\ e \in 2 .. L /\ L \in Nat
  <2>1. MarkerEnds(t) \subseteq 2 .. L /\ L \in Nat
    BY LenProperties DEF MarkerEnds
  <2>2. MarkerEnds(t) \in SUBSET Nat
    BY <2>1
  <2> QED
    BY <2>1, <2>2, LeastNat DEF HasMarker
<1>2. e = L - 1 /\ t[e + 1] = "NL"
  BY <1>1, Zenon DEF EndsMarked
<1>3. t[e - 1] = "E1" /\ t[e] = "E2"
  BY <1>1, MarkerPair DEF MarkerEnds
<1>4. m \in Seq(Byte) /\ Len(m) = 3 /\ m[1] = "E1" /\ m[2] = "E2" /\ m[3] = "NL"
  BY DEF Ending, Marker, Byte, Text
<1>5. Before(t) = SubSeq(t, 1, L - 3)
  <2>1. e - Len(Marker) = L - 3
    BY <1>1, <1>2 DEF Marker
  <2> QED
    BY <2>1 DEF Before
<1> DEFINE p == SubSeq(t, 1, L - 3)
           q == SubSeq(t, (L - 3) + 1, L)
<1>6. L - 3 \in 0 .. L
  BY <1>1, <1>2
<1>7. /\ p \in Seq(Byte) /\ Len(p) = L - 3
      /\ q \in Seq(Byte) /\ Len(q) = L - (L - 3)
      /\ p \o q = t
  BY <1>6, Split
<1>8. \A j \in 1 .. 3 : q[j] = t[(L - 3) + j]
  <2>1. \A j \in 1 .. L - ((L - 3) + 1) + 1 : q[j] = t[((L - 3) + 1) + j - 1]
    BY <1>1, <1>6, SubSeqProperties
  <2> QED
    BY <1>1, <2>1
<1>9. t[L - 2] = "E1" /\ t[L - 1] = "E2" /\ t[L] = "NL"
  <2>1. e - 1 = L - 2 /\ e + 1 = L
    BY <1>1, <1>2
  <2> QED
    BY <1>2, <1>3, <2>1
<1>10. q[1] = "E1" /\ q[2] = "E2" /\ q[3] = "NL" /\ Len(q) = 3
  <2>1. (L - 3) + 1 = L - 2 /\ (L - 3) + 2 = L - 1 /\ (L - 3) + 3 = L
    BY <1>1
  <2>2. Len(q) = 3
    BY <1>1, <1>7
  <2> HIDE DEF q, L
  <2> QED
    BY <1>8, <1>9, <2>1, <2>2
<1>11. L - 2 \in 1 .. L
  BY <1>1, <1>2
<1> HIDE DEF m, q, p, L
<1>12. q = m
  <2>1. \A j \in 1 .. Len(q) : q[j] = m[j]
    <3>1. \A j \in 1 .. 3 : j = 1 \/ j = 2 \/ j = 3
      OBVIOUS
    <3> QED
      BY <1>4, <1>10, <3>1
  <2> QED
    BY <1>4, <1>7, <1>10, <2>1, SeqEqual
<1> QED
  BY <1>5, <1>7, <1>9, <1>11, <1>12 DEF p, m, L

(* b is what stands in t behind its first c bytes. *)
PartOf(b, t, c) ==
  /\ Len(b) # 0
  /\ c + Len(b) <= Len(t)
  /\ \A j \in 1 .. Len(b) : b[j] = t[c + j]

(* Of a text with one marker at its end, all that has come is collected;   *)
(* with the marker, the text is complete but for its newline.              *)
LEMMA CollectedAll ==
  ASSUME NEW t \in Seq(Byte), EndsMarked(t), NEW c \in Nat,
         NEW b \in Seq(Byte), PartOf(b, t, c)
  PROVE  /\ Collected(b) = Len(b)
         /\ Len(b) \in MarkedEnds(b) =>
              HasMarker(t) /\ c + Len(b) \in {Len(t) - 1, Len(t)}
<1>1. Len(t) \in Nat /\ Len(b) \in Nat \ {0} /\ c + Len(b) <= Len(t)
  BY LenProperties DEF PartOf
<1>2. ASSUME NEW e \in MarkedEnds(b)
      PROVE  /\ e = Len(b) /\ HasMarker(t)
             /\ c + Len(b) \in {Len(t) - 1, Len(t)}
  <2>1. PICK i \in MarkerEnds(SubSeq(b, 1, e)) :
          ~ \E nl \in Newlines(b) : i - 1 <= nl /\ nl < e
    BY DEF MarkedEnds
  <2>2. e \in Newlines(b) \/ e = Len(b)
    BY DEF MarkedEnds, LineEnds
  <2>3. e \in 1 .. Len(b) /\ (e \in Newlines(b) => b[e] = "NL")
    BY <1>1, <2>2 DEF Newlines
  <2> DEFINE s == SubSeq(b, 1, e)
  <2>4. s \in Seq(Byte) /\ Len(s) = e /\ \A j \in 1 .. e : s[j] = b[j]
    <3>1. e \in 0 .. Len(b)
      BY <2>3
    <3>2. s \in Seq(Byte) /\ Len(s) = e
      BY <3>1, Split
    <3>3. \A j \in 1 .. e - 1 + 1 : s[j] = b[1 + j - 1]
      BY <1>1, <2>3, SubSeqProperties
    <3> QED
      BY <2>3, <3>2, <3>3
  <2>5. i \in 2 .. e /\ SubSeq(s, i - 1, i) = Marker
    BY <2>1, <2>4 DEF MarkerEnds
  <2>6. s[i - 1] = "E1" /\ s[i] = "E2"
    BY <2>4, <2>5, MarkerPair
  <2>7. /\ i - 1 \in 1 .. e /\ i \in 1 .. e
        /\ i - 1 \in 1 .. Len(b) /\ i \in 1 .. Len(b)
    BY <1>1, <2>3, <2>5
  <2>8. b[i - 1] = "E1" /\ b[i] = "E2"
    BY <2>4, <2>6, <2>7
  <2> HIDE DEF s
  <2>9. t[c + (i - 1)] = "E1" /\ t[c + i] = "E2"
    BY <2>7, <2>8 DEF PartOf
  <2>10. c + i \in 2 .. Len(t) /\ (c + i) - 1 = c + (i - 1)
    BY <1>1, <2>5, <2>7
  <2>11. c + i \in MarkerEnds(t)
    BY <2>9, <2>10, MarkerPair DEF MarkerEnds
  <2>12. c + i = Len(t) - 1
    BY <2>11, Zenon DEF EndsMarked
  <2>13. e = Len(b)
    <3>1. e = i => e \notin Newlines(b)
      BY <2>3, <2>8
    <3>2. e # i => e = Len(b)
      BY <1>1, <2>3, <2>5, <2>12
    <3> QED
      BY <2>2, <3>1, <3>2
  <2> QED
    BY <1>1, <2>5, <2>11, <2>12, <2>13 DEF HasMarker
<1>3. CASE MarkedEnds(b) = {}
  BY <1>3 DEF Collected
<1>4. CASE MarkedEnds(b) # {}
  <2>1. MarkedEnds(b) \in SUBSET Nat
    BY <1>1, <1>2
  <2>2. Least(MarkedEnds(b)) \in MarkedEnds(b)
    BY <1>4, <2>1, LeastNat
  <2>3. Least(MarkedEnds(b)) = Len(b)
    BY <1>2, <2>2
  <2> QED
    BY <1>2, <1>4, <2>2, <2>3 DEF Collected
<1> QED
  BY <1>3, <1>4

-----------------------------------------------------------------------------
(* What is collected of a text, and what is saved of it. *)

Between(t, c) == c \in 1 .. Len(t) - 1 /\ t[c] = "CR" /\ t[c + 1] = "NL"

(* d is the description when the first c bytes of text t have been read.   *)
Told(t, c, wasCut, d) ==
  /\ c \in 0 .. Len(t)
  /\ ~ wasCut => d = Unix(SubSeq(t, 1, c)) /\ ~ Between(t, c)
  /\ NoLineEnds(t) => d = SubSeq(t, 1, c)

(* d is what may be saved of text t. *)
SavedAs(t, wasCut, d) ==
  /\ HasMarker(t)
  /\ ~ wasCut => d = Unix(Before(t))
  /\ NoLineEnds(t) =>
       \/ d = Before(t)
       \/ wasCut /\ d = IF Before(t) = <<>> THEN Marker ELSE Front(Before(t))

LEMMA ToldStart ==
  ASSUME NEW t \in Seq(Byte), NEW wasCut
  PROVE  Told(t, 0, wasCut, <<>>)
<1>1. SubSeq(t, 1, 0) = <<>> /\ 0 \in 0 .. Len(t) /\ 0 \notin 1 .. Len(t) - 1
  BY SubSeqEmpty, LenProperties
<1>2. Unix(<<>>) = <<>>
  <2>1. NoLineEnds(<<>>) /\ <<>> \in Seq(Byte)
    BY DEF NoLineEnds
  <2> QED
    BY <2>1, UnixSame
<1> QED
  BY <1>1, <1>2 DEF Told, Between

LEMMA PartTypes ==
  ASSUME NEW t \in Seq(Byte), NEW c \in 0 .. Len(t)
  PROVE  /\ SubSeq(t, 1, c) \in Seq(Byte)
         /\ Len(SubSeq(t, 1, c)) = c
         /\ \A j \in 1 .. c : SubSeq(t, 1, c)[j] = t[j]
<1>1. Len(t) \in Nat
  BY LenProperties
<1>2. SubSeq(t, 1, c) \in Seq(Byte) /\ Len(SubSeq(t, 1, c)) = c
  BY Split
<1>3. \A j \in 1 .. c - 1 + 1 : SubSeq(t, 1, c)[j] = t[1 + j - 1]
  BY <1>1, SubSeqProperties
<1> QED
  BY <1>1, <1>2, <1>3

(* One read of it more. *)
LEMMA ToldNext ==
  ASSUME NEW t \in Seq(Byte), NEW c \in Nat, NEW w1 \in BOOLEAN, NEW d,
         Told(t, c, w1, d),
         NEW b \in Seq(Byte), PartOf(b, t, c), NEW w2 \in BOOLEAN,
         ~ w2 => ~ w1 /\ ~ Between(t, c + Len(b))
  PROVE  Told(t, c + Len(b), w2, d \o Unix(b))
<1> DEFINE a == SubSeq(t, 1, c)
           n == Len(b)
<1>1. /\ Len(t) \in Nat /\ n \in Nat \ {0} /\ c + n <= Len(t)
      /\ c \in 0 .. Len(t) /\ c + n \in 0 .. Len(t)
  BY LenProperties DEF PartOf
<1>2. \A j \in 1 .. n : b[j] = t[c + j]
  BY DEF PartOf
<1>3. a \in Seq(Byte) /\ Len(a) = c /\ \A j \in 1 .. c : a[j] = t[j]
  BY <1>1, PartTypes
<1>4. a \o b = SubSeq(t, 1, c + n)
  BY <1>1, <1>2, PartGrows
<1> HIDE DEF a
<1>5. ASSUME ~ w2
      PROVE  d \o Unix(b) = Unix(SubSeq(t, 1, c + n)) /\ ~ Between(t, c + n)
  <2>1. d = Unix(a) /\ ~ Between(t, c) /\ ~ Between(t, c + n)
    BY <1>5 DEF Told, a
  <2>2. ~ (a # <<>> /\ b # <<>> /\ a[Len(a)] = "CR" /\ b[1] = "NL")
    <3> SUFFICES ASSUME a # <<>>, a[Len(a)] = "CR", b[1] = "NL" PROVE FALSE
      OBVIOUS
    <3>1. c # 0
      BY <1>3, EmptySeq
    <3>2. c \in 1 .. c /\ 1 \in 1 .. n /\ c \in 1 .. Len(t) - 1
      BY <1>1, <3>1
    <3>3. t[c] = "CR" /\ t[c + 1] = "NL"
      BY <1>2, <1>3, <3>2
    <3> QED
      BY <2>1, <3>2, <3>3 DEF Between
  <2>3. Unix(a \o b) = Unix(a) \o Unix(b)
    BY <1>3, <2>2, UnixConcat
  <2> QED
    BY <1>4, <2>1, <2>3
<1>6. ASSUME NoLineEnds(t)
      PROVE  d \o Unix(b) = SubSeq(t, 1, c + n)
  <2>1. d = a
    BY <1>6 DEF Told, a
  <2>2. NoLineEnds(b)
    <3> SUFFICES ASSUME NEW j \in 1 .. n, InLineEnd(b, j) PROVE FALSE
      BY DEF NoLineEnds
    <3>1. b[j] = "CR" /\ j < n /\ b[j + 1] = "NL"
      BY DEF InLineEnd
    <3>2. /\ j + 1 \in 1 .. n /\ c + j \in 1 .. Len(t) /\ c + j < Len(t)
          /\ c + (j + 1) = (c + j) + 1
      BY <1>1, <3>1
    <3>3. t[c + j] = "CR" /\ t[(c + j) + 1] = "NL"
      BY <1>2, <3>1, <3>2
    <3> QED
      BY <1>6, <3>2, <3>3 DEF NoLineEnds, InLineEnd
  <2>3. Unix(b) = b
    BY <2>2, UnixSame
  <2> QED
    BY <1>4, <2>1, <2>3
<1> QED
  BY <1>1, <1>5, <1>6 DEF Told

(* The last six bytes: the marker and its newline. *)
LEMMA CutEnding ==
  ASSUME NEW q \in Seq(Byte), NEW m \in Seq(Byte), Len(m) = 3
  PROVE  Cut(q \o m) = q
<1> DEFINE s == q \o m
           u == SubSeq(s, 1, Len(q))
<1>1. s \in Seq(Byte) /\ Len(s) = Len(q) + 3 /\ Len(q) \in Nat
  <2>1. s \in Seq(Byte) /\ Len(s) = Len(q) + Len(m) /\ Len(q) \in Nat
    BY ByteConcat, Zenon
  <2> QED
    BY <2>1
<1>2. \A i \in 1 .. Len(q) : s[i] = q[i]
  <2>1. \A i \in 1 .. Len(q) + Len(m) :
          s[i] = IF i <= Len(q) THEN q[i] ELSE m[i - Len(q)]
    BY ByteAt, Zenon
  <2> QED
    BY <1>1, <2>1
<1> HIDE DEF s
<1>3. /\ ~ (Len(s) <= Len(Marker))
      /\ Len(s) - Len(Marker) - 1 = Len(q)
      /\ Len(q) \in 0 .. Len(s)
  BY <1>1 DEF Marker
<1>4. u \in Seq(Byte) /\ Len(u) = Len(q) /\ \A i \in 1 .. Len(q) : u[i] = s[i]
  BY <1>1, <1>3, PartTypes
<1>5. u = q
  <2> HIDE DEF u
  <2>1. \A i \in 1 .. Len(u) : u[i] = q[i]
    BY <1>2, <1>4
  <2> QED
    BY <1>4, <2>1, SeqEqual
<1>6. Cut(s) = u
  BY <1>3 DEF Cut
<1> QED
  BY <1>5, <1>6 DEF s

(* With the whole text, or all of it but the last newline, what is saved.  *)
LEMMA ToldSaved ==
  ASSUME NEW t \in Seq(Byte), HasMarker(t), EndsMarked(t),
         NEW c, c \in {Len(t) - 1, Len(t)}, NEW wasCut \in BOOLEAN,
         c = Len(t) - 1 => wasCut,
         NEW d, Told(t, c, wasCut, d)
  PROVE  SavedAs(t, wasCut, Cut(d))
<1> DEFINE p == Before(t)
           m == Ending
           L == Len(t)
<1>1. /\ p \in Seq(Byte) /\ Len(p) = L - 3 /\ L - 2 \in 1 .. L
      /\ t = p \o m
      /\ t[L - 2] = "E1" /\ t[L - 1] = "E2" /\ t[L] = "NL"
  BY MarkerText
<1>2. /\ m \in Seq(Byte) /\ Len(m) = 3 /\ m[1] = "E1" /\ m[2] = "E2"
      /\ m[3] = "NL" /\ m # <<>>
  BY DEF Ending, Marker, Byte, Text
<1>3. L \in Nat /\ Len(p) \in Nat
  BY <1>1, LenProperties
<1> HIDE DEF p, m, L
<1>4. SubSeq(t, 1, L) = t
  BY SubSeqFull DEF L
<1>5. Cut(t) = p
  BY <1>1, <1>2, CutEnding
<1>6. ASSUME ~ wasCut
      PROVE  Cut(d) = Unix(p)
  <2>1. c = L
    BY <1>6 DEF L
  <2>2. d = Unix(t)
    BY <1>4, <1>6, <2>1 DEF Told
  <2>3. Unix(p \o m) = Unix(p) \o Unix(m)
    BY <1>1, <1>2, UnixConcat
  <2>4. NoLineEnds(m)
    <3>1. \A i \in 1 .. 3 : i = 1 \/ i = 2 \/ i = 3
      OBVIOUS
    <3> QED
      BY <1>2, <3>1 DEF NoLineEnds, InLineEnd
  <2>5. Unix(m) = m
    BY <1>2, <2>4, UnixSame
  <2>6. Unix(p) \in Seq(Byte)
    BY <1>1, UnixSeq
  <2>7. d = Unix(p) \o m
    BY <1>1, <2>2, <2>3, <2>5
  <2> QED
    BY <1>2, <2>6, <2>7, CutEnding
<1>7. ASSUME NoLineEnds(t)
      PROVE  \/ Cut(d) = p
             \/ wasCut /\ Cut(d) = IF p = <<>> THEN Marker ELSE Front(p)
  <2>1. CASE c = L
    <3>1. d = t
      BY <1>4, <1>7, <2>1 DEF Told
    <3> QED
      BY <1>5, <3>1
  <2>2. CASE c = L - 1
    <3>1. d = SubSeq(t, 1, L - 1) /\ wasCut
      BY <1>7, <2>2 DEF Told, L
    <3>2. L - 1 \in 0 .. L
      BY <1>1, <1>3
    <3>3. /\ d \in Seq(Byte) /\ Len(d) = L - 1
          /\ \A j \in 1 .. L - 1 : d[j] = t[j]
      BY <3>1, <3>2, PartTypes DEF L
    <3>4. \A j \in 1 .. Len(p) : t[j] = p[j]
      <4>1. \A j \in 1 .. Len(p) + Len(m) :
              (p \o m)[j] = IF j <= Len(p) THEN p[j] ELSE m[j - Len(p)]
        BY <1>1, <1>2, ByteAt, Zenon
      <4> QED
        BY <1>1, <1>2, <1>3, <4>1
    <3>5. CASE p = <<>>
      <4>1. L = 3
        BY <1>1, <1>3, <3>5, EmptySeq
      <4>2. Len(d) = 2 /\ d[1] = "E1" /\ d[2] = "E2"
        <5>3. L - 2 = 1 /\ L - 1 = 2
          BY <4>1
        <5>1. t[1] = "E1" /\ t[2] = "E2" /\ Len(d) = 2
          <6>1. t[L - 2] = "E1" /\ t[L - 1] = "E2" /\ Len(d) = L - 1
            BY <1>1, <3>3
          <6> QED
            BY <5>3, <6>1
        <5>2. 1 \in 1 .. L - 1 /\ 2 \in 1 .. L - 1
          BY <4>1
        <5> QED
          BY <3>3, <5>1, <5>2
      <4>3. 2 \in 2 .. Len(d) /\ SubSeq(d, 1, 2) = d
        <5>1. SubSeq(d, 1, Len(d)) = d
          BY <3>3, SubSeqFull
        <5> QED
          BY <4>2, <5>1
      <4>4. SubSeq(d, 2 - 1, 2) = Marker
        BY <3>3, <4>2, <4>3, MarkerPair
      <4>5. d = Marker /\ Cut(d) = d
        BY <4>2, <4>3, <4>4 DEF Cut, Marker
      <4> QED
        BY <3>1, <3>5, <4>5
    <3>6. CASE p # <<>>
      <4>1. Len(p) # 0
        BY <1>1, <3>6, EmptySeq
      <4>2. /\ ~ (Len(d) <= Len(Marker))
            /\ Len(d) - Len(Marker) - 1 = Len(p) - 1
            /\ Len(p) - 1 \in 0 .. Len(d) /\ Len(p) - 1 \in 0 .. Len(p)
        BY <1>1, <1>3, <3>3, <4>1 DEF Marker
      <4>3. Cut(d) = SubSeq(d, 1, Len(p) - 1)
        BY <4>2 DEF Cut
      <4> DEFINE u == SubSeq(d, 1, Len(p) - 1)
                 v == SubSeq(p, 1, Len(p) - 1)
      <4>4. /\ u \in Seq(Byte) /\ Len(u) = Len(p) - 1
            /\ \A j \in 1 .. Len(p) - 1 : u[j] = d[j]
        BY <3>3, <4>2, PartTypes
      <4>5. /\ v \in Seq(Byte) /\ Len(v) = Len(p) - 1
            /\ \A j \in 1 .. Len(p) - 1 : v[j] = p[j]
        BY <1>1, <4>2, PartTypes
      <4> HIDE DEF u, v
      <4>6. \A j \in 1 .. Len(p) - 1 : u[j] = v[j]
        <5> TAKE j \in 1 .. Len(p) - 1
        <5>1. j \in 1 .. L - 1 /\ j \in 1 .. Len(p)
          BY <1>1, <1>3
        <5> QED
          BY <3>3, <3>4, <4>4, <4>5, <5>1
      <4>7. u = v
        BY <4>4, <4>5, <4>6, SeqEqual
      <4>8. Front(p) = v
        BY DEF Front, v
      <4> QED
        BY <3>1, <3>6, <4>3, <4>7, <4>8 DEF u
    <3> QED
      BY <3>5, <3>6
  <2> QED
    BY <2>1, <2>2 DEF L
<1> QED
  BY <1>6, <1>7 DEF SavedAs, p

TellInv ==
  /\ TypeOK
  /\ StreamInv
  /\ state = "upload" => description = <<>>
  /\ inStep =>
       /\ state = "describing" =>
            /\ buf = <<>>
            /\ \E c \in Nat : /\ Len(taken) = TextStart + c
                              /\ Told(script.text, c, cut, description)
       /\ \A i \in DOMAIN saved :
            SavedAs(script.text, cut, saved[i].description)

LEMMA ScriptText ==
  ASSUME script \in Script
  PROVE  script.text \in Seq(Byte) /\ EndsMarked(script.text)
BY StreamAssumption DEF EndsMarked

LEMMA TellInit == Init => TellInv
<1> SUFFICES ASSUME Init PROVE TellInv
  OBVIOUS
<1>1. TypeOK /\ StreamInv
  BY TypeInit, InitInv
<1>2. script \in Script /\ state = script.begin
  BY DEF Init
<1>3. state # "upload"
  BY <1>2, StreamAssumption
<1>4. DOMAIN saved = {}
  BY DEF Init
<1>5. ASSUME state = "describing"
      PROVE  \E c \in Nat : /\ Len(taken) = TextStart + c
                            /\ Told(script.text, c, cut, description)
  <2>1. script.commands = <<>> /\ script.packages = <<>>
    BY <1>2, <1>5, StreamAssumption
  <2>2. FlattenSeq(<<>>) = <<>>
    BY EmptySeq DEF FlattenSeq
  <2>3. Packing(script) = <<>>
    <3>1. Len(Packing(script)) = 0 /\ Packing(script) \in Seq(Seq(Byte))
      BY <1>2, <2>1, ScriptTypes, EmptySeq
    <3> QED
      BY <3>1, EmptySeq
  <2>4. TextStart = 0
    <3>1. FlattenSeq(script.commands) = <<>> /\ File = <<>>
      BY <2>1, <2>2, <2>3 DEF File
    <3>2. Len(<<>>) = 0
      OBVIOUS
    <3> QED
      BY <3>1, <3>2 DEF TextStart, FileStart
  <2>5. Len(taken) = 0 /\ description = <<>>
    BY DEF Init
  <2>6. Told(script.text, 0, cut, description)
    BY <1>2, <2>5, ScriptText, ToldStart
  <2>7. Len(taken) = TextStart + 0
    BY <2>4, <2>5
  <2> QED
    BY <2>6, <2>7
<1>6. buf = <<>>
  BY DEF Init
<1> QED
  BY <1>1, <1>3, <1>4, <1>5, <1>6 DEF TellInv

(* Steps that leave a description alone. *)
LEMMA TellSame ==
  ASSUME TellInv, StreamInv', TypeOK', script' = script, saved' = saved,
         inStep' => inStep, cut' = cut, description' = description,
         state' \in {state, "command", "closed"},
         state' = "describing" => buf' = buf /\ taken' = taken
  PROVE  TellInv'
<1>1. TextStart' = TextStart
  BY SameStream
<1>2. CASE state' = state
  BY <1>1, <1>2 DEF TellInv
<1>3. CASE state' \in {"command", "closed"}
  BY <1>3 DEF TellInv
<1> QED
  BY <1>2, <1>3

(* An upload in step ends where the text begins. *)
LEMMA TellUploaded ==
  ASSUME TellInv, StreamInv', TypeOK', state = "upload",
         description = <<>>, description' = description,
         script' = script, cut' = cut, saved' = saved, buf' = buf,
         inStep' => inStep,
         inStep' /\ state' = "describing" => Len(taken') = TextStart
  PROVE  TellInv'
<1>1. /\ state = "upload" /\ description = <<>> /\ description' = description
      /\ script' = script /\ cut' = cut /\ saved' = saved /\ buf' = buf
  OBVIOUS
<1>2. inStep' => inStep /\ (state' = "describing" => Len(taken') = TextStart)
  OBVIOUS
<1>3. CASE state' = "describing"
  <2>1. Told(script.text, 0, cut, <<>>)
    BY ScriptText, ToldStart DEF TellInv, TypeOK
  <2>2. TextStart' = TextStart
    BY SameStream, <1>1
  <2>3. inStep => buf = <<>>
    BY <1>1 DEF TellInv, StreamInv
  <2>4. TextStart + 0 = TextStart
    <3>1. script \in Script
      BY DEF TellInv, TypeOK
    <3>2. TextStart = FileStart + Len(File) /\ FileStart \in Nat /\ Len(File) \in Nat
      BY <3>1, StreamParts, Zenon
    <3> QED
      BY <3>2
  <2>5. inStep' => \E c \in Nat :
                     /\ Len(taken') = TextStart' + c
                     /\ Told(script.text', c, cut', description')
    BY <1>1, <1>2, <1>3, <2>1, <2>2, <2>4
  <2> QED
    BY <1>1, <1>2, <1>3, <2>3, <2>5 DEF TellInv
<1>4. CASE state' # "describing"
  BY <1>1, <1>2, <1>4 DEF TellInv
<1> QED
  BY <1>3, <1>4

LEMMA TellReadFile ==
  ASSUME TellInv, StreamInv', TypeOK', NEW n \in 1 .. INBUFSIZE, ReadFile(n)
  PROVE  TellInv'
<1>1. /\ state = "upload" /\ description = <<>> /\ description' = description
      /\ script' = script /\ cut' = cut /\ saved' = saved /\ buf' = buf
  BY DEF ReadFile, TellInv, client
<1>2. inStep' => inStep /\ (state' = "describing" => Len(taken') = TextStart)
  <2>1. TextStart' = TextStart
    BY SameStream, <1>1
  <2> QED
    BY <2>1, Zenon DEF ReadFile
<1> QED
  BY <1>1, <1>2, TellUploaded

(* ... or the upload fails, and what was stored is the end of it. *)
LEMMA TellUploadFails ==
  ASSUME TellInv, StreamInv', TypeOK', NEW n \in 0 .. INBUFSIZE, UploadFails(n)
  PROVE  TellInv'
<1>1. /\ state = "upload" /\ description' = description
      /\ UNCHANGED <<client, buf, saved, cut>>
      /\ inStep' => inStep
      /\ inStep' /\ state' = "describing" => Len(taken') = TextStart
  BY UploadFailsStep DEF TellInv, StreamInv
<1>2. description = <<>> /\ script' = script
  BY <1>1 DEF TellInv, client
<1> QED
  BY <1>1, <1>2, TellUploaded

LEMMA TellReadCommand ==
  ASSUME TellInv, StreamInv', TypeOK', NEW n \in 1 .. INBUFSIZE, ReadCommand(n)
  PROVE  TellInv'
<1>1. /\ state = "command" /\ script' = script /\ cut' = cut /\ saved' = saved
      /\ (inStep' => inStep)
      /\ state' # "describing"
      /\ (state' = "upload" => description' = <<>>)
  BY DEF ReadCommand, client
<1> QED
  BY <1>1 DEF TellInv

(* One read of the text, in step. *)
LEMMA TextRead ==
  ASSUME TellInv, inStep, state = "describing", NEW n \in LineReads,
         NEW c \in Nat, Len(taken) = TextStart + c, c <= Len(script.text)
  PROVE  LET t == script.text
             b == Received(n)
         IN  /\ b \in Seq(Byte) /\ Len(b) = n /\ n \in Nat \ {0}
             /\ PartOf(b, t, c)
             /\ c + n < Len(t) =>
                  /\ n < Len(wire)
                  /\ wire[n] = t[c + n] /\ wire[n + 1] = t[c + n + 1]
<1> DEFINE t == script.text
           b == Received(n)
<1>1. /\ TypeOK /\ BytesInOrder /\ buf = <<>> /\ script \in Script
      /\ wire \in Seq(Byte)
  BY DEF TellInv, StreamInv, TypeOK
<1>2. n \in 1 .. Len(wire) /\ Len(wire) \in Nat
  BY <1>1, ReadBounds, LenProperties
<1>3. /\ Len(taken) \in Nat
      /\ Len(taken) + Len(wire) <= Len(AllBytes)
      /\ \A i \in 1 .. Len(wire) : wire[i] = AllBytes[Len(taken) + i]
  BY <1>1, WireIsStream
<1>4. /\ TextStart \in Nat /\ Len(t) \in Nat
      /\ Len(AllBytes) = TextStart + Len(t)
      /\ \A x \in 1 .. Len(t) : AllBytes[TextStart + x] = t[x]
  <2>1. script \in Script
    BY <1>1
  <2>2. TextStart = FileStart + Len(File) /\ FileStart \in Nat /\ Len(File) \in Nat
    BY <2>1, StreamParts, Zenon
  <2>3. TextStart \in Nat
    BY <2>2
  <2> QED
    BY <2>1, <2>3, StreamParts, Zenon
<1>5. b = SubSeq(wire, 1, n)
  <2>1. SubSeq(wire, 1, n) \in Seq(Byte)
    BY <1>1, <1>2, PartTypes
  <2> QED
    BY <1>1, <2>1, ByteConcat, Zenon DEF Received
<1>6. b \in Seq(Byte) /\ Len(b) = n /\ \A j \in 1 .. n : b[j] = wire[j]
  BY <1>1, <1>2, <1>5, PartTypes
<1> HIDE DEF b, t
<1>7. c + Len(wire) <= Len(t)
  BY <1>2, <1>3, <1>4
<1>8. \A i \in 1 .. Len(wire) : wire[i] = t[c + i]
  <2> TAKE i \in 1 .. Len(wire)
  <2>1. c + i \in 1 .. Len(t) /\ Len(taken) + i = TextStart + (c + i)
    BY <1>2, <1>4, <1>7
  <2>2. wire[i] = AllBytes[TextStart + (c + i)]
    BY <1>3, <2>1
  <2> QED
    BY <1>4, <2>1, <2>2
<1>9. PartOf(b, t, c)
  <2>1. \A j \in 1 .. n : b[j] = t[c + j]
    <3> TAKE j \in 1 .. n
    <3>1. j \in 1 .. Len(wire)
      BY <1>2
    <3>2. b[j] = wire[j]
      BY <1>6
    <3> QED
      BY <1>8, <3>1, <3>2
  <2> QED
    BY <1>2, <1>6, <1>7, <2>1 DEF PartOf
<1>10. ASSUME c + n < Len(t)
       PROVE  /\ n < Len(wire)
              /\ wire[n] = t[c + n] /\ wire[n + 1] = t[c + n + 1]
  <2>1. wire # <<>> /\ Len(taken) >= TextStart
    BY <1>2, <1>3, <1>4, EmptySeq
  <2>2. Len(taken) + Len(wire) = TextStart + Len(t)
    BY <1>1, <2>1, WireIsRest DEF t
  <2>3. n < Len(wire)
    BY <1>2, <1>3, <1>4, <1>10, <2>2
  <2>4. n + 1 \in 1 .. Len(wire) /\ c + (n + 1) = c + n + 1
    BY <1>2, <2>3
  <2> QED
    BY <1>2, <1>8, <2>3, <2>4
<1>11. n \in Nat \ {0}
  BY <1>2
<1> QED
  BY <1>6, <1>9, <1>10, <1>11 DEF b, t

LEMMA SavedMore ==
  ASSUME NEW s \in Seq([bytes : Seq(Byte), description : Seq(Byte)]),
         NEW a \in [bytes : Seq(Byte), description : Seq(Byte)],
         NEW t, NEW w1 \in BOOLEAN, NEW w2 \in BOOLEAN, w1 => w2,
         \A i \in DOMAIN s : SavedAs(t, w1, s[i].description),
         SavedAs(t, w2, a.description)
  PROVE  \A i \in DOMAIN Append(s, a) :
           SavedAs(t, w2, Append(s, a)[i].description)
<1>1. \A d : SavedAs(t, w1, d) => SavedAs(t, w2, d)
  BY DEF SavedAs
<1>2. /\ DOMAIN s = 1 .. Len(s) /\ Len(s) \in Nat
      /\ DOMAIN Append(s, a) = 1 .. Len(s) + 1
      /\ \A k \in 1 .. Len(s) : Append(s, a)[k] = s[k]
      /\ Append(s, a)[Len(s) + 1] = a
  BY AppendProperties, LenProperties
<1> TAKE i \in DOMAIN Append(s, a)
<1>3. CASE i \in 1 .. Len(s)
  BY <1>1, <1>2, <1>3
<1>4. CASE i = Len(s) + 1
  BY <1>2, <1>4
<1> QED
  BY <1>2, <1>3, <1>4

LEMMA TellReadDescription ==
  ASSUME TellInv, StreamInv', TypeOK',
         NEW n \in 1 .. INBUFSIZE, ReadDescription(n)
  PROVE  TellInv'
<1> DEFINE t == script.text
           b == Received(n)
           k == Collected(b)
           d == description \o Unix(SubSeq(b, 1, k))
<1>1. /\ state = "describing" /\ n \in LineReads
      /\ script' = script /\ inStep' = inStep
      /\ buf' = SubSeq(b, k + 1, Len(b))
      /\ taken' = taken \o SubSeq(b, 1, k)
      /\ cut' = (cut \/ Cuts(n))
      /\ IF k \in MarkedEnds(b)
         THEN /\ saved' = Append(saved, [bytes |-> stored,
                                         description |-> Cut(d)])
              /\ state' = "command"
         ELSE /\ description' = d
              /\ saved' = saved /\ state' = state
  BY DEF ReadDescription, client
<1>2. state' # "upload"
  BY <1>1
<1>3. SUFFICES ASSUME inStep
               PROVE  /\ state' = "describing" =>
                           /\ buf' = <<>>
                           /\ \E c \in Nat :
                                /\ Len(taken') = TextStart + c
                                /\ Told(t, c, cut', description')
                      /\ \A i \in DOMAIN saved' :
                           SavedAs(t, cut', saved'[i].description)
  <2>1. TextStart' = TextStart /\ script.text' = t
    BY <1>1, SameStream
  <2> QED
    BY <1>1, <1>2, <2>1 DEF TellInv
<1>4. PICK c \in Nat : /\ Len(taken) = TextStart + c
                       /\ Told(t, c, cut, description)
  BY <1>1, <1>3 DEF TellInv
<1>5. /\ t \in Seq(Byte) /\ EndsMarked(t) /\ TextStart \in Nat
      /\ Len(t) \in Nat /\ c <= Len(t)
      /\ saved \in Seq([bytes : Seq(Byte), description : Seq(Byte)])
      /\ stored \in Seq(Byte) /\ description \in Seq(Byte)
      /\ cut \in BOOLEAN /\ taken \in Seq(Byte)
      /\ \A i \in DOMAIN saved : SavedAs(t, cut, saved[i].description)
  <2>1. TypeOK /\ script \in Script
    BY DEF TellInv, TypeOK
  <2>2. t \in Seq(Byte) /\ EndsMarked(t) /\ TextStart \in Nat
    BY <2>1, ScriptText, StreamParts
  <2>3. c <= Len(t) /\ Len(t) \in Nat
    BY <1>4, <2>2, LenProperties DEF Told
  <2>4. \A i \in DOMAIN saved : SavedAs(t, cut, saved[i].description)
    BY <1>3 DEF TellInv
  <2> QED
    BY <2>1, <2>2, <2>3, <2>4 DEF TypeOK
<1>6. /\ b \in Seq(Byte) /\ Len(b) = n /\ n \in Nat \ {0}
      /\ PartOf(b, t, c)
      /\ c + n < Len(t) =>
           /\ n < Len(wire)
           /\ wire[n] = t[c + n] /\ wire[n + 1] = t[c + n + 1]
  BY <1>1, <1>3, <1>4, <1>5, TextRead
<1>7. /\ k = n
      /\ n \in MarkedEnds(b) =>
           HasMarker(t) /\ c + n \in {Len(t) - 1, Len(t)}
  <2> HIDE DEF b
  <2> QED
    BY <1>5, <1>6, CollectedAll
<1>8. SubSeq(b, 1, k) = b /\ buf' = <<>>
  <2>1. SubSeq(b, 1, n) = b
    <3> HIDE DEF b
    <3> QED
      BY <1>6, SubSeqFull
  <2>2. SubSeq(b, n + 1, n) = <<>>
    <3> HIDE DEF b
    <3>1. n + 1 > n
      BY <1>6
    <3> QED
      BY <3>1, SubSeqEmpty
  <2> QED
    BY <1>1, <1>6, <1>7, <2>1, <2>2
<1>9. Len(taken') = TextStart + (c + n) /\ c + n \in Nat
  <2>1. taken' = taken \o b
    BY <1>1, <1>8
  <2> HIDE DEF b
  <2>2. Len(taken \o b) = Len(taken) + Len(b)
    BY <1>5, <1>6, ByteConcat, Zenon
  <2> QED
    BY <1>4, <1>5, <1>6, <2>1, <2>2
<1>10. /\ cut' \in BOOLEAN /\ (cut => cut')
       /\ ~ cut' => ~ cut /\ ~ Between(t, c + n)
  <2>1. cut' \in BOOLEAN /\ (cut => cut') /\ (~ cut' => ~ cut /\ ~ Cuts(n))
    BY <1>1, <1>5
  <2>2. Between(t, c + n) => Cuts(n)
    <3> SUFFICES ASSUME Between(t, c + n) PROVE Cuts(n)
      OBVIOUS
    <3>1. c + n < Len(t) /\ t[c + n] = "CR" /\ t[c + n + 1] = "NL"
      BY <1>5, <1>6 DEF Between
    <3>2. n < Len(wire) /\ wire[n] = "CR" /\ wire[n + 1] = "NL"
      BY <1>6, <3>1
    <3> QED
      BY <3>2 DEF Cuts
  <2> QED
    BY <2>1, <2>2
<1>11. Told(t, c + n, cut', d)
  <2>1. d = description \o Unix(b)
    BY <1>8
  <2> HIDE DEF b, d
  <2>2. ~ cut' => ~ cut /\ ~ Between(t, c + Len(b))
    <3>1. Len(b) = n
      BY <1>6
    <3> QED
      BY <1>10, <3>1, Zenon
  <2>3. Told(t, c + Len(b), cut', description \o Unix(b))
    <3>1. /\ t \in Seq(Byte) /\ c \in Nat /\ cut \in BOOLEAN /\ cut' \in BOOLEAN
          /\ b \in Seq(Byte) /\ PartOf(b, t, c) /\ Told(t, c, cut, description)
      BY <1>4, <1>5, <1>6, <1>10
    <3> HIDE DEF t
    <3> QED
      BY <2>2, <3>1, ToldNext, Zenon
  <2> QED
    BY <1>6, <2>1, <2>3
<1>12. CASE k \notin MarkedEnds(b)
  <2>1. description' = d /\ saved' = saved
    BY <1>1, <1>12
  <2>2. \A x : SavedAs(t, cut, x) => SavedAs(t, cut', x)
    BY <1>10 DEF SavedAs
  <2> QED
    BY <1>5, <1>8, <1>9, <1>11, <2>1, <2>2
<1>13. CASE k \in MarkedEnds(b)
  <2>1. /\ HasMarker(t) /\ c + n \in {Len(t) - 1, Len(t)}
        /\ state' = "command"
    BY <1>1, <1>7, <1>13
  <2>2. ASSUME c + n = Len(t) - 1 PROVE cut'
    <3>1. c + n < Len(t) /\ c + n + 1 = Len(t)
      BY <1>5, <2>2
    <3>2. t[c + n] = "E2" /\ t[c + n + 1] = "NL"
      <4>1. t[Len(t) - 1] = "E2" /\ t[Len(t)] = "NL"
        BY <1>5, <2>1, MarkerText, Zenon
      <4> QED
        BY <2>2, <3>1, <4>1
    <3>3. n < Len(wire) /\ wire[n] = "E2" /\ wire[n + 1] = "NL"
      BY <1>6, <3>1, <3>2
    <3>4. Cuts(n)
      BY <3>3 DEF Cuts
    <3> QED
      BY <1>1, <3>4
  <2>3. SavedAs(t, cut', Cut(d))
    <3> HIDE DEF d, t
    <3> QED
      BY <1>5, <1>10, <1>11, <2>1, <2>2, ToldSaved
  <2> DEFINE a == [bytes |-> stored, description |-> Cut(d)]
  <2>4. saved' = Append(saved, a)
    BY <1>1, <1>13
  <2>5. a \in [bytes : Seq(Byte), description : Seq(Byte)]
    <3>1. d \in Seq(Byte)
      <4>1. SubSeq(b, 1, k) \in Seq(Byte)
        BY <1>6, <1>8
      <4>2. Unix(SubSeq(b, 1, k)) \in Seq(Byte)
        BY <4>1, UnixSeq
      <4> QED
        BY <1>5, <4>2, ByteConcat, Zenon
    <3> HIDE DEF d
    <3> QED
      BY <1>5, <3>1, CutBytes
  <2>6. a.description = Cut(d)
    OBVIOUS
  <2> HIDE DEF a, d, b, k, t
  <2>7. \A i \in DOMAIN saved' : SavedAs(t, cut', saved'[i].description)
    BY <1>5, <1>10, <2>3, <2>4, <2>5, <2>6, SavedMore
  <2> QED
    BY <2>1, <2>7
<1> QED
  BY <1>12, <1>13

LEMMA TellNext == TellInv /\ [Next]_vars => TellInv'
<1> SUFFICES ASSUME TellInv, [Next]_vars PROVE TellInv'
  OBVIOUS
<1>1. StreamInv'
  BY NextInv DEF TellInv
<1>2. CASE Send
  <2>1. TypeOK'
    BY <1>2, TypeSend DEF TellInv
  <2>2. /\ script' = script /\ saved' = saved /\ inStep' = inStep /\ cut' = cut
        /\ description' = description /\ state' = state /\ buf' = buf
        /\ taken' = taken
    BY <1>2 DEF Send, told
  <2> QED
    BY <1>1, <2>1, <2>2, TellSame
<1>3. CASE \E n \in 1 .. INBUFSIZE : Read(n)
  <2>1. PICK n \in 1 .. INBUFSIZE : Read(n)
    BY <1>3
  <2>2. CASE ReadCommand(n)
    BY <1>1, <2>2, TypeReadCommand, TellReadCommand DEF TellInv
  <2>3. CASE ReadFile(n)
    BY <1>1, <2>3, TypeReadFile, TellReadFile DEF TellInv
  <2>4. CASE ReadDescription(n)
    BY <1>1, <2>4, TypeReadDescription, TellReadDescription DEF TellInv
  <2> QED
    BY <2>1, <2>2, <2>3, <2>4 DEF Read
<1>4. CASE Idle
  <2>1. /\ script' = script /\ buf' = buf /\ taken' = taken
        /\ saved' = saved /\ inStep' = inStep /\ cut' = cut
        /\ description' = description /\ state' \in {state, "closed"}
    BY <1>4, IdleStep
  <2>2. TypeOK'
    BY <1>4, TypeIdle DEF TellInv
  <2> QED
    BY <1>1, <2>1, <2>2, TellSame
<1>5. CASE \E n \in 0 .. INBUFSIZE : UploadFails(n)
  BY <1>1, <1>5, TypeUploadFails, TellUploadFails DEF TellInv
<1> QED
  BY <1>2, <1>3, <1>4, <1>5, NextCases

LEMMA TellAlways == Spec => []TellInv
BY TellInit, TellNext, PTL DEF Spec

(* When no read ends inside of the marker or of a line end, what is saved  *)
(* is what the client wrote before the marker, with \n for \r\n, wherever  *)
(* else the text is cut (file_upload_description).                         *)
THEOREM DescriptionSaved == Spec => []DescriptionIsText
<1>1. TellInv => DescriptionIsText
  BY DEF TellInv, SavedAs, DescriptionIsText, TextBeforeMarker, Before
<1> QED
  BY <1>1, TellAlways, PTL

(* The text of a script has a line end only if what is before its marker   *)
(* has one.                                                                *)
LEMMA NoneBefore ==
  ASSUME NEW t \in Seq(Byte), HasMarker(t), EndsMarked(t),
         Unix(Before(t)) = Before(t)
  PROVE  NoLineEnds(t)
<1> DEFINE p == Before(t)
           L == Len(t)
<1>1. /\ p \in Seq(Byte) /\ Len(p) = L - 3 /\ L - 2 \in 1 .. L
      /\ t = p \o Ending
      /\ t[L - 2] = "E1" /\ t[L - 1] = "E2" /\ t[L] = "NL"
  BY MarkerText
<1>2. NoLineEnds(p)
  BY <1>1, UnixFixed
<1>3. Ending \in Seq(Byte) /\ Len(Ending) = 3 /\ L \in Nat
  BY LenProperties DEF Ending, Marker, Byte, Text
<1> HIDE DEF p
<1>4. \A j \in 1 .. L - 3 : t[j] = p[j]
  <2>1. \A j \in 1 .. Len(p) + Len(Ending) :
          (p \o Ending)[j] = IF j <= Len(p) THEN p[j] ELSE Ending[j - Len(p)]
    BY <1>1, <1>3, ByteAt, Zenon
  <2> HIDE DEF L
  <2> QED
    BY <1>1, <1>3, <2>1
<1> SUFFICES ASSUME NEW i \in 1 .. L, InLineEnd(t, i) PROVE FALSE
  BY DEF NoLineEnds
<1>5. t[i] = "CR" /\ i < L /\ t[i + 1] = "NL"
  BY DEF InLineEnd
<1> HIDE DEF L
<1>6. i # L - 2 /\ i # L - 1 /\ i # L /\ i + 1 # L - 2
  BY <1>1, <1>5
<1>7. i \in 1 .. L - 3 /\ i + 1 \in 1 .. L - 3 /\ i < Len(p) /\ i \in 1 .. Len(p)
  BY <1>1, <1>3, <1>6
<1>8. InLineEnd(p, i)
  BY <1>4, <1>5, <1>7 DEF InLineEnd
<1> QED
  BY <1>2, <1>7, <1>8 DEF NoLineEnds

(* However the text is cut, what is saved of one without \r\n is the text, *)
(* except for its last byte when the newline behind the marker came later  *)
(* than the marker (file_upload_description, the cut of the last 6 bytes). *)
THEOREM DescriptionNotLost == Spec => []DescriptionKept
<1>1. TellInv => DescriptionKept
  <2> SUFFICES ASSUME TellInv, inStep, saved # <<>>,
                      Unix(TextBeforeMarker) = TextBeforeMarker,
                      NEW i \in DOMAIN saved
               PROVE  \/ saved[i].description = TextBeforeMarker
                      \/ /\ cut
                         /\ saved[i].description =
                              IF TextBeforeMarker = <<>> THEN Marker
                              ELSE Front(TextBeforeMarker)
    BY DEF DescriptionKept
  <2>1. SavedAs(script.text, cut, saved[i].description)
    BY DEF TellInv
  <2>2. script.text \in Seq(Byte) /\ EndsMarked(script.text)
    BY ScriptText DEF TellInv, TypeOK
  <2>3. TextBeforeMarker = Before(script.text)
    BY DEF TextBeforeMarker, Before
  <2>4. HasMarker(script.text)
    BY <2>1 DEF SavedAs
  <2>5. NoLineEnds(script.text)
    BY <2>2, <2>3, <2>4, NoneBefore
  <2> QED
    BY <2>1, <2>3, <2>5 DEF SavedAs
<1> QED
  BY <1>1, TellAlways, PTL

-----------------------------------------------------------------------------
(* Nobody waits. *)

(* The file is the message behind the commands. *)
LEMMA FileInStream ==
  ASSUME script \in Script, File # <<>>
  PROVE  LET k == Len(script.commands) + 1
         IN  /\ k \in 0 .. Len(Messages)
             /\ Len(Flat(Messages, k)) = TextStart
<1> DEFINE c == script.commands
           o == <<File>>
           a == c \o o
           b == MessageOf(script.text)
           k == Len(c) + 1
<1>1. /\ c \in Seq(Seq(Byte)) /\ File \in Seq(Byte)
      /\ o \in Seq(Seq(Byte)) /\ FlattenSeq(o) = File /\ Len(o) = 1
      /\ b \in Seq(Seq(Byte))
  <2>1. c \in Seq(Seq(Byte)) /\ File \in Seq(Byte) /\ script.text \in Seq(Byte)
    BY ScriptTypes
  <2>2. b \in Seq(Seq(Byte))
    BY <2>1 DEF MessageOf
  <2> QED
    BY <2>1, <2>2, FlattenOne
<1>2. Messages = a \o b
  BY DEF Messages, MessageOf
<1> HIDE DEF c, o, b
<1>3. /\ a \in Seq(Seq(Byte)) /\ FlattenSeq(a) = FlattenSeq(c) \o File
      /\ Len(a) = k
  <2>1. a \in Seq(Seq(Byte)) /\ FlattenSeq(a) = FlattenSeq(c) \o FlattenSeq(o)
    BY <1>1, FlatConcat
  <2>2. Len(a) = Len(c) + Len(o)
    BY <1>1, ConcatProperties
  <2> QED
    BY <1>1, <2>1, <2>2
<1> HIDE DEF a
<1>4. /\ Messages \in Seq(Seq(Byte)) /\ Len(Messages) = Len(a) + Len(b)
      /\ Len(a) \in Nat /\ Len(b) \in Nat
  BY <1>1, <1>2, <1>3, ConcatProperties, LenProperties
<1>5. k \in 0 .. Len(Messages) /\ Len(Messages) - k = Len(b)
  <2> HIDE DEF k
  <2> QED
    BY <1>3, <1>4
<1> HIDE DEF k
<1>6. SubSeq(Messages, 1, k) = a
  <2> DEFINE x == SubSeq(Messages, 1, k)
             y == SubSeq(Messages, k + 1, Len(Messages))
  <2>1. /\ x \in Seq(Seq(Byte)) /\ y \in Seq(Seq(Byte))
        /\ Len(y) = Len(Messages) - k /\ x \o y = Messages
    BY <1>4, <1>5, Split
  <2> HIDE DEF x, y
  <2>2. x \o y = a \o b /\ Len(y) = Len(b)
    BY <1>2, <1>5, <2>1
  <2> DEFINE S == Seq(Byte)
  <2>3. x \in Seq(S) /\ y \in Seq(S) /\ a \in Seq(S) /\ b \in Seq(S)
    BY <1>1, <1>3, <2>1
  <2> HIDE DEF S
  <2>4. x = a
    BY <2>2, <2>3, SameEnd
  <2> QED
    BY <2>4 DEF x
<1>7. Len(FlattenSeq(a)) = TextStart
  <2>1. FlattenSeq(c) \in Seq(Byte)
    BY <1>1, FlattenSeqBytes
  <2>2. Len(FlattenSeq(c) \o File) = Len(FlattenSeq(c)) + Len(File)
    BY <1>1, <2>1, ByteConcat, Zenon
  <2> QED
    BY <1>3, <2>2 DEF TextStart, FileStart, c
<1> QED
  BY <1>5, <1>6, <1>7 DEF Flat, k, c

(* A text that has come to its end in step, and was not cut there, has its *)
(* marker in what came last.                                               *)
LEMMA MarkerFound ==
  ASSUME NEW t \in Seq(Byte), HasMarker(t), EndsMarked(t), NEW c \in Nat,
         c + 3 <= Len(t),
         NEW b \in Seq(Byte), PartOf(b, t, c), c + Len(b) = Len(t)
  PROVE  Len(b) \in MarkedEnds(b)
<1> DEFINE n == Len(b)
<1>1. n \in Nat /\ Len(t) \in Nat /\ n >= 3
  BY LenProperties
<1>2. /\ t[Len(t) - 2] = "E1" /\ t[Len(t) - 1] = "E2"
  BY MarkerText
<1>3. b[n - 2] = "E1" /\ b[n - 1] = "E2"
  <2>1. /\ n - 2 \in 1 .. n /\ n - 1 \in 1 .. n
        /\ c + (n - 2) = Len(t) - 2 /\ c + (n - 1) = Len(t) - 1
    BY <1>1
  <2>2. b[n - 2] = t[c + (n - 2)] /\ b[n - 1] = t[c + (n - 1)]
    BY <2>1 DEF PartOf
  <2> QED
    BY <1>2, <2>1, <2>2
<1>4. SubSeq(b, 1, n) = b
  BY SubSeqFull
<1>5. n - 1 \in MarkerEnds(b)
  <2> DEFINE i == n - 1
  <2>1. i \in 2 .. Len(b) /\ i - 1 = n - 2
    BY <1>1
  <2>2. b[i - 1] = "E1" /\ b[i] = "E2"
    BY <1>3, <2>1
  <2> HIDE DEF i
  <2>3. SubSeq(b, i - 1, i) = Marker
    BY <2>1, <2>2, MarkerPair
  <2>4. i \in MarkerEnds(b)
    BY <2>1, <2>3 DEF MarkerEnds
  <2> QED
    BY <2>4 DEF i
<1>6. ASSUME NEW nl \in Newlines(b), (n - 1) - 1 <= nl, nl < n
      PROVE  FALSE
  <2>1. b[nl] = "NL" /\ nl \in 1 .. n
    BY DEF Newlines
  <2>2. nl = n - 2 \/ nl = n - 1
    BY <1>1, <1>6, <2>1
  <2> QED
    BY <1>3, <2>1, <2>2
<1> QED
  BY <1>4, <1>5, <1>6 DEF MarkedEnds, LineEnds

(* As long as a session describes, marker and newline are to come; as long *)
(* as it stores a file that has bytes, some are to come.                   *)
ToCome ==
  /\ state = "upload" /\ script.content # <<>> => rest # 0
  /\ inStep /\ ~ cut /\ HasMarker(script.text) /\ state = "describing" =>
       Len(taken) + 3 <= TextStart + Len(script.text)

LEMMA ToComeSame ==
  ASSUME ToCome, script' = script, inStep' => inStep, cut' = cut,
         state' = "upload" => state = "upload" /\ rest' = rest,
         state' = "describing" => state = "describing" /\ taken' = taken
  PROVE  ToCome'
<1>1. TextStart' = TextStart
  BY SameStream
<1> QED
  BY <1>1 DEF ToCome

(* Where the text of a script begins, all of it is to come. *)
LEMMA TextToCome ==
  ASSUME script \in Script, HasMarker(script.text)
  PROVE  TextStart \in Nat /\ TextStart + 3 <= TextStart + Len(script.text)
<1> DEFINE t == script.text
<1>1. TextStart \in Nat /\ t \in Seq(Byte) /\ EndsMarked(t)
  BY StreamParts, ScriptText
<1>2. Len(t) - 2 \in 1 .. Len(t) /\ Len(t) \in Nat
  BY <1>1, MarkerText, LenProperties
<1> QED
  BY <1>1, <1>2

LEMMA ToComeInit == Init => ToCome
<1> SUFFICES ASSUME Init PROVE ToCome
  OBVIOUS
<1>1. script \in Script /\ state = script.begin
  BY DEF Init
<1>2. state # "upload"
  BY <1>1, StreamAssumption
<1>3. Len(taken) = 0
  BY DEF Init
<1>4. HasMarker(script.text) => Len(taken) + 3 <= TextStart + Len(script.text)
  <2> SUFFICES ASSUME HasMarker(script.text)
               PROVE  Len(taken) + 3 <= TextStart + Len(script.text)
    OBVIOUS
  <2>1. TextStart \in Nat /\ TextStart + 3 <= TextStart + Len(script.text)
    BY <1>1, TextToCome
  <2>2. Len(script.text) \in Nat
    BY <1>1, ScriptText, LenProperties
  <2> QED
    BY <1>3, <2>1, <2>2
<1> QED
  BY <1>2, <1>4 DEF ToCome

LEMMA ToComeReadCommand ==
  ASSUME ToCome, script \in Script, NEW n \in 1 .. INBUFSIZE, ReadCommand(n)
  PROVE  ToCome'
<1>1. /\ script' = script /\ state' # "describing"
      /\ state' = "upload" => rest' = Len(script.content)
  BY DEF ReadCommand, client, file
<1>2. script.content # <<>> => Len(script.content) # 0
  <2>1. script.content \in Seq(Byte)
    BY StreamAssumption
  <2> QED
    BY <2>1, EmptySeq
<1> QED
  BY <1>1, <1>2 DEF ToCome

LEMMA ToComeReadFile ==
  ASSUME TypeOK, ToCome, NEW n \in 1 .. INBUFSIZE, ReadFile(n)
  PROVE  ToCome'
<1>1. script' = script /\ script \in Script /\ cut' = cut
  BY DEF ReadFile, client, TypeOK
<1>2. TextStart' = TextStart
  BY <1>1, SameStream
<1>3. state' = "upload" => rest' # 0
  <2>1. PICK sig, ps :
          LET u == UploadStep(rest, package_rest, n, sig, ps)
          IN  /\ rest' = u.rest
              /\ IF u.cancel THEN state' = "command"
                 ELSE state' = IF u.rest = 0 THEN "describing" ELSE "upload"
    BY DEF ReadFile
  <2> QED
    BY <2>1
<1>4. inStep' => (state' = "describing" => Len(taken') = TextStart)
  BY <1>2, Zenon DEF ReadFile
<1>5. HasMarker(script.text) => TextStart + 3 <= TextStart + Len(script.text)
  BY <1>1, TextToCome
<1> QED
  BY <1>1, <1>2, <1>3, <1>4, <1>5 DEF ToCome

LEMMA ToComeUploadFails ==
  ASSUME TypeOK, ToCome, NEW n \in 0 .. INBUFSIZE, UploadFails(n)
  PROVE  ToCome'
<1>1. /\ UNCHANGED <<client, cut>>
      /\ inStep' /\ state' = "describing" => Len(taken') = TextStart
  BY UploadFailsStep DEF TypeOK, Buffers
<1>2. script' = script /\ script \in Script /\ TextStart' = TextStart
  BY <1>1, SameStream DEF client, TypeOK
<1>3. state' = "upload" => rest' # 0
  <2>1. CASE FileReadFails
    <3>1. PICK sig, ps :
            LET u == UploadStep(rest, package_rest, -1, sig, ps)
            IN  /\ rest' = u.rest
                /\ IF u.cancel THEN state' = "command"
                   ELSE state' = IF u.rest = 0 THEN "describing" ELSE "upload"
      BY <2>1 DEF FileReadFails
    <3> QED
      BY <3>1
  <2>2. CASE FileWriteFails(n)
    BY <2>2 DEF FileWriteFails
  <2>3. CASE FileWriteShort(n)
    <3>1. \E h : rest' = h /\ state' = IF h = 0 THEN "describing" ELSE "upload"
      BY <2>3, Zenon DEF FileWriteShort
    <3> QED
      BY <3>1
  <2> QED
    BY <2>1, <2>2, <2>3 DEF UploadFails
<1>4. HasMarker(script.text) => TextStart + 3 <= TextStart + Len(script.text)
  BY <1>2, TextToCome
<1> QED
  BY <1>1, <1>2, <1>3, <1>4 DEF ToCome

LEMMA ToComeReadDescription ==
  ASSUME TellInv, ToCome, NEW n \in 1 .. INBUFSIZE, ReadDescription(n)
  PROVE  ToCome'
<1> DEFINE t == script.text
           b == Received(n)
           k == Collected(b)
           L == Len(t)
<1>1. /\ state = "describing" /\ n \in LineReads
      /\ script' = script /\ inStep' = inStep
      /\ taken' = taken \o SubSeq(b, 1, k)
      /\ cut' = (cut \/ Cuts(n))
      /\ k \in MarkedEnds(b) => state' = "command"
      /\ state' # "upload"
  BY DEF ReadDescription, client
<1>2. TextStart' = TextStart
  BY <1>1, SameStream
<1>3. SUFFICES ASSUME inStep, ~ cut', HasMarker(t), state' = "describing"
               PROVE  Len(taken') + 3 <= TextStart + L
  BY <1>1, <1>2 DEF ToCome
<1>4. PICK c \in Nat : /\ Len(taken) = TextStart + c
                       /\ Told(t, c, cut, description)
  BY <1>1, <1>3 DEF TellInv
<1>5. /\ t \in Seq(Byte) /\ EndsMarked(t) /\ TextStart \in Nat
      /\ L \in Nat /\ c <= L /\ taken \in Seq(Byte)
  <2>1. script \in Script /\ taken \in Seq(Byte)
    BY DEF TellInv, TypeOK
  <2>2. t \in Seq(Byte) /\ EndsMarked(t) /\ TextStart \in Nat
    BY <2>1, ScriptText, StreamParts
  <2> QED
    BY <1>4, <2>1, <2>2, LenProperties DEF Told
<1>6. ~ cut /\ ~ Cuts(n)
  BY <1>1, <1>3 DEF TellInv, TypeOK
<1>7. c + 3 <= L
  <2>1. Len(taken) + 3 <= TextStart + L
    BY <1>1, <1>3, <1>6 DEF ToCome
  <2> QED
    BY <1>4, <1>5, <2>1
<1>8. /\ b \in Seq(Byte) /\ Len(b) = n /\ n \in Nat \ {0}
      /\ PartOf(b, t, c)
      /\ c + n < L =>
           /\ n < Len(wire)
           /\ wire[n] = t[c + n] /\ wire[n + 1] = t[c + n + 1]
  BY <1>1, <1>3, <1>4, <1>5, TextRead
<1>9. k = n
  <2> HIDE DEF b
  <2> QED
    BY <1>5, <1>8, CollectedAll
<1>10. Len(taken') = TextStart + (c + n)
  <2>1. SubSeq(b, 1, n) = b
    <3> HIDE DEF b
    <3> QED
      BY <1>8, SubSeqFull
  <2>2. taken' = taken \o b
    BY <1>1, <1>9, <2>1
  <2> HIDE DEF b
  <2>3. Len(taken \o b) = Len(taken) + Len(b)
    BY <1>5, <1>8, ByteConcat, Zenon
  <2> QED
    BY <1>4, <1>5, <1>8, <2>2, <2>3
<1>11. c + n <= L
  BY <1>8 DEF PartOf
<1>12. t[L - 2] = "E1" /\ t[L - 1] = "E2" /\ t[L] = "NL"
  BY <1>3, <1>5, MarkerText
<1>13. c + n # L
  <2> SUFFICES ASSUME c + n = L PROVE FALSE
    OBVIOUS
  <2>1. Len(b) \in MarkedEnds(b)
    <3> HIDE DEF b, t
    <3> QED
      BY <1>3, <1>5, <1>7, <1>8, MarkerFound DEF L
  <2> QED
    BY <1>1, <1>3, <1>8, <1>9, <2>1
<1>14. c + n # L - 1
  <2> SUFFICES ASSUME c + n = L - 1 PROVE FALSE
    OBVIOUS
  <2>1. c + n < L /\ c + n + 1 = L
    BY <1>5
  <2>2. n < Len(wire) /\ wire[n] = "E2" /\ wire[n + 1] = "NL"
    BY <1>8, <1>12, <2>1
  <2> QED
    BY <1>6, <2>2 DEF Cuts
<1>15. c + n # L - 2
  <2> SUFFICES ASSUME c + n = L - 2 PROVE FALSE
    OBVIOUS
  <2>1. c + n < L /\ c + n + 1 = L - 1
    BY <1>5
  <2>2. n < Len(wire) /\ wire[n] = "E1" /\ wire[n + 1] = "E2"
    BY <1>8, <1>12, <2>1
  <2> QED
    BY <1>6, <2>2 DEF Cuts, Marker
<1> HIDE DEF L, t, b, k
<1>16. c + n \in Nat /\ c + n <= L - 3
  <2>1. c \in Nat /\ L \in Nat
    BY <1>5
  <2>2. n \in Nat
    BY <1>8
  <2> QED
    BY <2>1, <2>2, <1>11, <1>13, <1>14, <1>15
<1> QED
  BY <1>5, <1>10, <1>16

WaitInv == LinesInv /\ FileInv /\ TellInv /\ ToCome

LEMMA WaitInit == Init => WaitInv
BY LinesInit, FileInit, TellInit, ToComeInit DEF WaitInv

LEMMA WaitNext == WaitInv /\ [Next]_vars => WaitInv'
<1> SUFFICES ASSUME WaitInv, [Next]_vars PROVE WaitInv'
  OBVIOUS
<1>1. LinesInv' /\ FileInv' /\ TellInv'
  BY LinesNext, FileNext, TellNext DEF WaitInv
<1>2. ToCome /\ TypeOK /\ script \in Script /\ TellInv
  BY DEF WaitInv, TellInv, TypeOK
<1>3. CASE Send \/ Idle
  <2>1. /\ script' = script /\ inStep' = inStep /\ cut' = cut
        /\ rest' = rest /\ taken' = taken /\ state' \in {state, "closed"}
    BY <1>3, IdleStep DEF Send, file, told
  <2>2. ToCome'
    BY <1>2, <2>1, ToComeSame
  <2> QED
    BY <1>1, <2>2 DEF WaitInv
<1>4. CASE \E n \in 1 .. INBUFSIZE : Read(n)
  <2>1. ToCome'
    BY <1>2, <1>4, ToComeReadCommand, ToComeReadFile, ToComeReadDescription
       DEF Read
  <2> QED
    BY <1>1, <2>1 DEF WaitInv
<1>5. CASE \E n \in 0 .. INBUFSIZE : UploadFails(n)
  <2>1. ToCome'
    BY <1>2, <1>5, ToComeUploadFails
  <2> QED
    BY <1>1, <2>1 DEF WaitInv
<1> QED
  BY <1>3, <1>4, <1>5, NextCases

(* Nothing is left of what was sent, in step and out of the buffer. *)
LEMMA AllTaken ==
  ASSUME TypeOK, BytesInOrder, inStep, buf = <<>>, wire = <<>>
  PROVE  taken = Flat(Messages, sent)
<1>1. taken \in Seq(Byte)
  BY DEF TypeOK
<1>2. taken \o <<>> = taken
  BY <1>1, ByteConcat, Zenon
<1> QED
  BY <1>2 DEF BytesInOrder, Flat

(* The messages that were read whole were executed. *)
LEMMA LinesComplete ==
  ASSUME LinesInv, whole, wire = <<>>
  PROVE  Len(lines) >= Lesser(sent, Len(script.commands))
<1>1. /\ script \in Script /\ sent \in 0 .. Len(Messages)
      /\ Len(lines) \in Nat
      /\ Messages \in Seq(Seq(Byte) \ {<<>>})
      /\ Messages \in Seq(Seq(Byte))
      /\ Len(script.commands) \in Nat
  BY MessagesNotEmpty, MessagesSeq, ScriptTypes, LenProperties
     DEF LinesInv, TypeOK
<1>2. CASE Len(lines) < Len(script.commands)
  <2> DEFINE j == Len(lines)
             s == Messages
  <2>1. j <= sent /\ Flat(s, j) \o <<>> = Flat(s, sent)
    BY <1>2 DEF LinesInv
  <2>2. j \in 0 .. Len(s) /\ sent - j \in 0 .. Len(s) - j /\ j + (sent - j) = sent
    <3>1. Len(s) \in Nat
      BY <1>1, LenProperties
    <3> HIDE DEF s, j
    <3>2. j \in Nat
      BY <1>1 DEF j
    <3> QED
      BY <1>1, <2>1, <3>1, <3>2 DEF s
  <2>3. Flat(s, j) \in Seq(Byte)
    BY <1>1, <2>2, FlatPart
  <2>4. Flat(s, sent) = Flat(s, j)
    BY <2>1, <2>3, ByteConcat, Zenon
  <2>5. \A k \in 0 .. Len(s) - j : Len(Flat(s, j + k)) >= Len(Flat(s, j)) + k
    BY <1>1, <2>2, FlatGrows
  <2>6. Len(Flat(s, j)) >= Len(Flat(s, j)) + (sent - j) /\ Len(Flat(s, j)) \in Nat
    <3>1. Len(Flat(s, j + (sent - j))) >= Len(Flat(s, j)) + (sent - j)
      BY <2>2, <2>5
    <3> QED
      BY <2>2, <2>3, <2>4, <3>1, LenProperties
  <2> DEFINE x == Len(Flat(s, j))
  <2>7. x >= x + (sent - j) /\ x \in Nat /\ j \in Nat /\ sent \in Nat
    BY <1>1, <2>6
  <2> HIDE DEF x, j
  <2>8. j >= sent
    BY <2>7
  <2> QED
    BY <1>1, <2>8 DEF Lesser, j
<1>3. CASE ~ (Len(lines) < Len(script.commands))
  BY <1>1, <1>3 DEF Lesser
<1> QED
  BY <1>2, <1>3

(* A file that was read is stored. *)
LEMMA FileComplete ==
  ASSUME FileInv, ToCome, inStep, clean, wire = <<>>, state = "upload", FileSent
  PROVE  FALSE
<1> DEFINE N == Len(script.packages)
           k == Len(script.commands) + 1
           C == Len(script.content)
<1>1. /\ TypeOK /\ script \in Script /\ BytesInOrder /\ buf = <<>>
      /\ sent \in 0 .. Len(Messages)
  BY DEF FileInv, StreamInv, TypeOK
<1>2. /\ script.packages \in Seq(Package) /\ Payload(script) \in Seq(Seq(Byte))
      /\ Len(Payload(script)) = N /\ script.content \in Seq(Byte)
      /\ N \in Nat /\ C \in Nat /\ File \in Seq(Byte)
      /\ script.commands \in Seq(Seq(Byte))
  BY <1>1, ScriptTypes, StreamAssumption, LenProperties
<1>3. ContentEnd(N) = C
  BY <1>2, FlatAll DEF ContentEnd, FileSent
<1>4. C # 0 /\ script.content # <<>>
  BY <1>2, EmptySeq DEF FileSent
<1>5. N # 0
  <2>1. ContentEnd(0) = 0
    BY FlatNone, EmptySeq DEF ContentEnd
  <2> QED
    BY <1>3, <1>4, <2>1
<1>6. File # <<>>
  <2>1. N \in 1 .. Len(script.packages)
    BY <1>2, <1>5
  <2>2. /\ PackedEnd(N - 1) \in Nat /\ Len(BytesOf(N)) \in Nat
        /\ PackedEnd(N) = PackedEnd(N - 1) + 2 + Len(BytesOf(N))
        /\ PackedEnd(N) <= Len(File)
    <3> HIDE DEF N
    <3> QED
      BY <1>1, <2>1, PackageAt
  <2>3. Len(File) # 0
    <3> DEFINE p == PackedEnd(N - 1)
               q == Len(BytesOf(N))
    <3>1. p + 2 + q <= Len(File) /\ p \in Nat /\ q \in Nat
      BY <2>2
    <3> HIDE DEF p, q
    <3> QED
      BY <3>1
  <2> QED
    BY <2>3, EmptySeq
<1>7. Len(taken) >= TextStart
  <2>1. k \in 0 .. Len(Messages) /\ Len(Flat(Messages, k)) = TextStart
    BY <1>1, <1>6, FileInStream
  <2>2. sent >= k
    BY <1>1, <1>2, LenProperties DEF FileSent
  <2>3. Messages \in Seq(Seq(Byte) \ {<<>>})
    BY <1>1, MessagesNotEmpty
  <2> HIDE DEF k
  <2>4. \A j \in 0 .. Len(Messages) - k :
          Len(Flat(Messages, k + j)) >= Len(Flat(Messages, k)) + j
    BY <2>1, <2>3, FlatGrows
  <2>5. sent - k \in 0 .. Len(Messages) - k /\ k + (sent - k) = sent
    BY <1>1, <2>1, <2>2
  <2>6. Len(Flat(Messages, sent)) >= TextStart + (sent - k)
    <3>1. Len(Flat(Messages, k + (sent - k))) >= Len(Flat(Messages, k)) + (sent - k)
      BY <2>4, <2>5
    <3> QED
      BY <2>1, <2>5, <3>1
  <2>7. taken = Flat(Messages, sent)
    BY <1>1, AllTaken
  <2>8. Len(taken) \in Nat /\ TextStart \in Nat
    BY <1>1, StreamParts, LenProperties DEF TypeOK
  <2>9. Len(taken) >= TextStart + (sent - k)
    BY <2>6, <2>7
  <2> QED
    BY <2>1, <2>5, <2>8, <2>9
<1>8. PICK i \in Nat, y \in Nat : Place(i, y)
  BY DEF FileInv, FileSoFar
<1>9. /\ i \in 0 .. N /\ y \in 0 .. LastSize(i)
      /\ Len(taken) = FileStart + PackedEnd(i) - y
      /\ rest = C - (ContentEnd(i) - y)
  BY <1>8 DEF Place
<1>10. /\ PackedEnd(i) \in Nat /\ y <= PackedEnd(i) /\ PackedEnd(i) <= Len(File)
       /\ ContentEnd(i) \in Nat /\ Len(File) \in Nat
  BY <1>1, <1>9, PlaceBounds
<1>11. y = 0 /\ PackedEnd(i) = Len(File)
  <2>1. TextStart = FileStart + Len(File) /\ FileStart \in Nat
    BY <1>1, StreamParts
  <2> QED
    BY <1>7, <1>8, <1>9, <1>10, <2>1
<1>12. i = N
  <2> SUFFICES ASSUME i < N PROVE FALSE
    BY <1>2, <1>9
  <2> DEFINE p == PackedEnd(i + 1)
             l == Len(BytesOf(i + 1))
  <2>1. p = PackedEnd(i) + 2 + l /\ l \in Nat /\ p <= Len(File)
    BY <1>1, <1>9, NextPackage
  <2> HIDE DEF p, l
  <2> QED
    BY <1>10, <1>11, <2>1
<1>13. rest = 0
  <2> HIDE DEF C, N
  <2> QED
    BY <1>2, <1>3, <1>9, <1>11, <1>12
<1> QED
  BY <1>4, <1>13 DEF ToCome

(* A marker that was read in one piece was found. *)
LEMMA TextComplete ==
  ASSUME TellInv, ToCome, inStep, ~ cut, HasMarker(script.text), wire = <<>>,
         state = "describing", sent = Len(Messages)
  PROVE  FALSE
<1>1. /\ TypeOK /\ script \in Script /\ BytesInOrder /\ buf = <<>>
  BY DEF TellInv, StreamInv, TypeOK
<1>2. taken = Flat(Messages, Len(Messages))
  BY <1>1, AllTaken
<1>3. Messages \in Seq(Seq(Byte))
  BY <1>1, MessagesSeq
<1>4. taken = AllBytes
  BY <1>2, <1>3, FlatAll DEF AllBytes
<1>5. /\ Len(AllBytes) = TextStart + Len(script.text)
      /\ TextStart \in Nat /\ Len(script.text) \in Nat
  BY <1>1, StreamParts
<1>6. Len(taken) + 3 <= TextStart + Len(script.text)
  BY DEF ToCome
<1> QED
  BY <1>4, <1>5, <1>6

(* Whatever is cut and however the client waits, it does not wait for an   *)
(* answer that the server thinks it need not give: with nothing left to    *)
(* read, the messages that came whole are executed, a file whose           *)
(* descriptors came whole is stored and a marker that came whole is found. *)
THEOREM NoWaiting == Spec => []NoClientWaits
<1>1. WaitInv => NoClientWaits
  <2> SUFFICES ASSUME WaitInv, wire = <<>> PROVE NoClientWaits
    BY DEF NoClientWaits
  <2>1. whole => Len(lines) >= Lesser(sent, Len(script.commands))
    BY LinesComplete DEF WaitInv
  <2>2. inStep /\ clean => ~ (state = "upload" /\ FileSent)
    BY FileComplete DEF WaitInv
  <2>3. inStep /\ ~ cut /\ HasMarker(script.text) =>
          ~ (state = "describing" /\ sent = Len(Messages))
    BY TextComplete DEF WaitInv
  <2> QED
    BY <2>1, <2>2, <2>3 DEF NoClientWaits
<1> QED
  BY <1>1, WaitInit, WaitNext, PTL DEF Spec
=============================================================================
