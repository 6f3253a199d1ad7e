-------------------------------- MODULE Lines --------------------------------
(***************************************************************************)
(* Cutting lines off the receive buffer of a session:                      *)
(* query_extract_from_buf_2.  Of a byte, cutting only looks at whether it  *)
(* is "NL" or "CR"; clients send text, so that the terminating zero is the *)
(* only one in the buffer.                                                 *)
(***************************************************************************)
EXTENDS Integers, Sequences, SequencesExt

Newlines(buf) == {i \in 1 .. Len(buf) : buf[i] = "NL"}

Least(S) == CHOOSE i \in S : \A j \in S : i <= j

(* Mutant: the newline stays in the buffer. *)
TakenBeforeNewline(buf) ==
  IF Newlines(buf) = {} THEN Len(buf)
  ELSE IF Least(Newlines(buf)) = 1 THEN 1 ELSE Least(Newlines(buf)) - 1

(* Bytes taken out of the buffer: a line with its newline, or all there is *)
(* when there is none.                                                     *)
Taken(buf) == IF Newlines(buf) = {} THEN Len(buf) ELSE Least(Newlines(buf))

(* Mutant: one byte more is moved out. *)
RestAfterNext(buf) == SubSeq(buf, Taken(buf) + 2, Len(buf))

Rest(buf) == SubSeq(buf, Taken(buf) + 1, Len(buf))

(* s, with every \r\n in it turned into \n. *)
InLineEnd(s, i) == s[i] = "CR" /\ i < Len(s) /\ s[i + 1] = "NL"
Unix(s) ==
  FlattenSeq([i \in 1 .. Len(s) |-> IF InLineEnd(s, i) THEN <<>> ELSE <<s[i]>>])

(* \r\n at the end of a line becomes \n; there is no other newline in it. *)
Line(buf) == Unix(SubSeq(buf, 1, Taken(buf)))
=============================================================================
