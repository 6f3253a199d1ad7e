--------------------------- MODULE TransferProofs ---------------------------
(***************************************************************************)
(* Lemmas about the counters of the file protocol, for every buffer size,  *)
(* header size and width of size_t.                                        *)
(***************************************************************************)
EXTENDS Transfer, TLAPS

(* Subtraction of two size_t values is a size_t value: the difference, or  *)
(* the difference plus 2^w (rest -= ..., package_rest -= ...).             *)
LEMMA MinusInSizeT ==
  ASSUME NEW a \in SizeT, NEW b \in SizeT
  PROVE  /\ Minus(a, b) \in SizeT
         /\ Minus(a, b) + b \in {a, a + SizeMod}
BY TransferAssumption DEF SizeT, Minus

(* A result reduced modulo 2^w is a size_t value. *)
LEMMA ModInSizeT ==
  ASSUME NEW n \in Int
  PROVE  n % SizeMod \in SizeT
<1>1. SizeMod > 0
  BY TransferAssumption
<1> QED
  BY <1>1, TransferAssumption DEF SizeT

(* One call of file_upload: the counters stay size_t values, and what      *)
(* leaves rest is exactly what was asked to be written, modulo 2^w.  Two   *)
(* writes never take more than was announced after the first one.          *)
LEMMA UploadStepCounts ==
  ASSUME NEW rest \in SizeT, NEW package_rest \in SizeT,
         NEW rlen \in {-1} \cup 1 .. INBUFSIZE,
         NEW sig \in Signal, NEW ps \in SizeT,
         NEW u, u = UploadStep(rest, package_rest, rlen, sig, ps)
  PROVE  /\ u.first \in SizeT
         /\ u.second \in SizeT
         /\ u.rest \in SizeT
         /\ u.package_rest \in SizeT
         /\ u.cancel \in BOOLEAN
         /\ u.rest + u.first + u.second \in {rest, rest + SizeMod}
<1> DEFINE first == FirstWrite(package_rest, rlen)
           rest1 == Minus(rest, first)
           second == SecondWrite(rest1, package_rest, rlen)
           n == Behind(package_rest, rlen)
<1>1. first \in SizeT /\ first <= package_rest
  BY TransferAssumption DEF SizeT, FirstWrite, AsSizeT, Lesser
<1>2. rest1 \in SizeT /\ rest1 + first \in {rest, rest + SizeMod}
  BY <1>1, MinusInSizeT
<1>3. n \in Int
  BY TransferAssumption DEF Behind, SizeT
<1>4. second \in SizeT /\ second <= rest1 /\ rest1 - second \in SizeT
  BY <1>2, <1>3, TransferAssumption DEF SecondWrite, Lesser, SizeT
<1>5. (ps - (IF n > 0 THEN second ELSE n)) % SizeMod \in SizeT
  <2>1. ps - (IF n > 0 THEN second ELSE n) \in Int
    BY <1>3, <1>4, TransferAssumption DEF SizeT
  <2> QED
    BY <2>1, ModInSizeT
<1>6. 0 \in SizeT
  BY TransferAssumption DEF SizeT
<1>7. package_rest - first \in SizeT
  BY <1>1, TransferAssumption DEF SizeT
<1> HIDE DEF first, rest1, second, n
<1>8. CASE package_rest >= AsSizeT(rlen)
  <2>1. u = [first |-> first, second |-> 0, rest |-> rest1,
             package_rest |-> package_rest - first, cancel |-> FALSE]
    BY <1>8 DEF UploadStep, first, rest1
  <2> QED
    BY <2>1, <1>1, <1>2, <1>6, <1>7 DEF SizeT
<1>9. CASE ~(package_rest >= AsSizeT(rlen)) /\ rest1 = 0
  <2>1. u = [first |-> first, second |-> 0, rest |-> 0,
             package_rest |-> package_rest, cancel |-> FALSE]
    BY <1>9 DEF UploadStep, first, rest1
  <2> QED
    BY <2>1, <1>1, <1>2, <1>6, <1>9 DEF SizeT
<1>10. CASE /\ ~(package_rest >= AsSizeT(rlen))
            /\ rest1 # 0
            /\ sig = "continue"
  <2>1. u = [first |-> first, second |-> second, rest |-> rest1 - second,
             package_rest |->
               (ps - (IF n > 0 THEN second ELSE n)) % SizeMod,
             cancel |-> FALSE]
    BY <1>10 DEF UploadStep, first, rest1, second, n
  <2>2. rest1 - second + first + second = rest1 + first
    BY <1>1, <1>2, <1>4 DEF SizeT
  <2> QED
    BY <2>1, <2>2, <1>1, <1>2, <1>4, <1>5
<1>11. CASE /\ ~(package_rest >= AsSizeT(rlen))
            /\ rest1 # 0
            /\ sig # "continue"
  <2>1. u = [first |-> first, second |-> 0, rest |-> rest1,
             package_rest |-> package_rest, cancel |-> (sig = "cancel")]
    BY <1>11 DEF UploadStep, first, rest1
  <2> QED
    BY <2>1, <1>1, <1>2, <1>6 DEF SizeT
<1> QED
  BY <1>8, <1>9, <1>10, <1>11

(* file_download never asks for more than the package still allows, and    *)
(* asks for nothing only when the package or the file is used up.          *)
LEMMA DownloadLenBounds ==
  ASSUME NEW rest \in SizeT, NEW package_rest \in SizeT
  PROVE  /\ DownloadLen(rest, package_rest) \in 0 .. INBUFSIZE
         /\ DownloadLen(rest, package_rest) <= package_rest
         /\ DownloadLen(rest, package_rest) = 0
              => package_rest = 0 \/ rest = 0
BY TransferAssumption DEF SizeT, DownloadLen, Lesser
=============================================================================
