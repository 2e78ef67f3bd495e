---------------------------- MODULE MCLocalTasks ----------------------------
(* Instances of LocalTasks for TLC. *)
EXTENDS LocalTasks

CONSTANTS r1, r2, r3, t1, t2

(* r1 and r2 name one task; r3 has its own. *)
TaskOfShared == [r \in Requests |-> IF r = r3 THEN t2 ELSE t1]
WantTwo == [r \in Requests |-> IF r \in Edits THEN 1 ELSE 2]

=============================================================================
