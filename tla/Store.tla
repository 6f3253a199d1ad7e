-------------------------------- MODULE Store --------------------------------
(***************************************************************************)
(* What the board promises its users about files: a published file stays   *)
(* published, under the same owner and with the same bytes, for ever.      *)
(* Nothing but publication changes the store: there is no operation that   *)
(* edits or removes a file, and neither an aborted upload, a closed        *)
(* session, nor a restart of the server may touch what is published.       *)
(***************************************************************************)
EXTENDS Integers, Sequences

VARIABLE store  \* the published files, oldest first

Entry == [uid: Int, bytes: Nat]

Init == store = <<>>

(* One more file; those before it are as they were. *)
Publish ==
  /\ store' \in Seq(Entry)
  /\ Len(store') = Len(store) + 1
  /\ \A i \in 1 .. Len(store) : store'[i] = store[i]

Next == Publish

Spec == Init /\ [][Next]_store

TypeOK == store \in Seq(Entry)
=============================================================================
