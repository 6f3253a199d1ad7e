----------------------------- MODULE MCServerLoop -----------------------------
(* An instance of ServerLoop for TLC: files of no and of two blocks. *)
EXTENDS ServerLoop

MCSize == {0, 2}
=============================================================================
