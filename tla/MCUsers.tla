-------------------------------- MODULE MCUsers --------------------------------
(* Instances of Users. *)
EXTENDS Users, TLC

(* One name can be registered, and not entered; "u" sent with its newline is *)
(* another line.                                                             *)
MCLines == {"u", "exit", "u NL"}

MCSymmetry == Permutations(Sd) \cup Permutations(Pass) \cup Permutations(Email)
=============================================================================
