------------------------------- MODULE MCBoard -------------------------------
(* Instances of Board for TLC. *)
EXTENDS Board, TLC

CONSTANTS u1

(* The table holds one user when the server starts. *)
MCInitialUsers == <<u1>>
NoUsers == <<>>

(* Descriptors and paths are interchangeable. *)
MCSymmetry == Permutations(Desc) \cup Permutations(Path)
MCDescSymmetry == Permutations(Desc)
=============================================================================
