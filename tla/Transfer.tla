------------------------------ MODULE Transfer ------------------------------
(***************************************************************************)
(* The byte accounting of the file protocol (file_p.c, main.h): how one    *)
(* call of file_upload splits what read() returned into a first write, a   *)
(* package header and a second write, how rest and package_rest move, and  *)
(* how many bytes one call of file_download asks for.  Nothing here has    *)
(* state; Board, Upload and Download are built on it.                      *)
(*                                                                         *)
(* rest and package_rest are size_t.  A client chooses the size of every   *)
(* package but the first, so both may wrap: arithmetic is modulo SizeMod.  *)
(***************************************************************************)
EXTENDS Integers

CONSTANTS
  INBUFSIZE,     \* bytes one read() takes at most
  PACKAGE_SIZE,  \* bytes sent to a client before it is asked to confirm
  SizeofPd,      \* sizeof(s_file_pd_t), the header of an upload package
  SizeMod        \* 2^w for a size_t of w bits

ASSUME TransferAssumption ==
  /\ INBUFSIZE \in Nat \ {0}
  /\ PACKAGE_SIZE \in Nat \ {0}
  /\ SizeofPd \in Nat \ {0}
  /\ SizeMod \in Nat
  /\ SizeofPd <= INBUFSIZE
  /\ INBUFSIZE < SizeMod
  /\ PACKAGE_SIZE < SizeMod

SizeT == 0 .. SizeMod - 1

(* enum package_signal.  sig_finish, sig_pause and the values outside the  *)
(* enum that a header read past the received bytes may hold are one case:  *)
(* the switch does nothing.                                                *)
Signal == {"continue", "cancel", "pause"}

(* Mutants: counters that go below zero, counters that stop at zero. *)
SignedMinus(a, b) == a - b
SaturatingMinus(a, b) == IF b <= a THEN a - b ELSE 0

(* a - b in size_t, for a and b in SizeT. *)
Minus(a, b) == IF b <= a THEN a - b ELSE a - b + SizeMod

(* The value of an int in a comparison with a size_t: -1 becomes SIZE_MAX. *)
AsSizeT(n) == IF n >= 0 THEN n ELSE n + SizeMod

Lesser(a, b) == IF a <= b THEN a ELSE b

-----------------------------------------------------------------------------

(* The bytes of the buffer that belong to the current package are written  *)
(* first: all of them when the package is not complete yet.                *)
FirstWrite(package_rest, rlen) == Lesser(package_rest, AsSizeT(rlen))

(* What is left of the buffer behind a package that ended inside it, once  *)
(* the header is taken off; negative when the header itself is cut.        *)
Behind(package_rest, rlen) == rlen - package_rest - SizeofPd

(* The second write of file_upload: what follows a "continue" header,      *)
(* clamped to the size the client announced.                               *)
SecondWrite(rest, package_rest, rlen) ==
  LET n == Behind(package_rest, rlen)
  IN  IF n > 0 THEN Lesser(n, rest) ELSE 0

(* One call of file_upload on a file with the given counters, when read()  *)
(* returned rlen (-1 for an error) and the bytes where a header is looked  *)
(* for hold the signal sig and the package size ps.                        *)
UploadStep(rest, package_rest, rlen, sig, ps) ==
  LET first == FirstWrite(package_rest, rlen)
      rest1 == Minus(rest, first)
      second == SecondWrite(rest1, package_rest, rlen)
      taken == IF Behind(package_rest, rlen) > 0
               THEN second ELSE Behind(package_rest, rlen)
      Result(s, r, p, c) ==
        [first |-> first, second |-> s, rest |-> r, package_rest |-> p,
         cancel |-> c]
  IN  IF package_rest >= AsSizeT(rlen)
      THEN Result(0, rest1, package_rest - first, FALSE)
      ELSE IF rest1 = 0
      THEN Result(0, 0, package_rest, FALSE)
      ELSE IF sig = "continue"
      THEN Result(second, rest1 - second, (ps - taken) % SizeMod, FALSE)
      ELSE Result(0, rest1, package_rest, sig = "cancel")

(* The number of bytes file_download asks read() for; the case             *)
(* package_rest = 0 has returned before.                                   *)
DownloadLen(rest, package_rest) ==
  IF package_rest < INBUFSIZE THEN package_rest
  ELSE Lesser(rest, INBUFSIZE)
=============================================================================
