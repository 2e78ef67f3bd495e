---------------------------- MODULE MCJSONStore ----------------------------
(* Instances of JSONStore for TLC. *)
EXTENDS JSONStore, TLC

(* Nothing tells one process, or one entry, from another. *)
StoreSymmetry == Permutations(Procs) \cup Permutations(Entries)

(* Bound: what follows the removal of a live writer's lock file, of which  *)
(* no property speaks, is explored as long as no call has failed.          *)
UsurpedWithoutErrors == "usurped" \in harm => errors = 0

=============================================================================
