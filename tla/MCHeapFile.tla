----------------------------- MODULE MCHeapFile -----------------------------
(* Instances of HeapFile for TLC. *)
EXTENDS HeapFile, TLC

Keys == Permutations(Key)

=============================================================================
