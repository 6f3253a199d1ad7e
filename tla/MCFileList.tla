------------------------------ MODULE MCFileList ------------------------------
(* Instances of FileList: "a" begins "ab", and "ab" registers later. *)
EXTENDS FileList

CONSTANTS a, ab, anonymous

MCInitialUsers == <<a>>
(* As little as no file, and less, and as many as two. *)
MCGarbage == {-3, 0, 2}
MCPrefixes == {<<a, a>>, <<ab, ab>>, <<a, ab>>}
=============================================================================
