--------------------------- MODULE MCImageStorage ---------------------------
(* Instances of ImageStorage for TLC. *)
EXTENDS ImageStorage

CONSTANTS r1, r2

(* r1 makes two images for a user, r2 one for another. *)
TwoOwners == [r \in Requests |-> IF r = r1 THEN "u1" ELSE "u2"]
TwoThenOne == [r \in Requests |-> IF r = r1 THEN 2 ELSE 1]
StoredBefore == <<"admin", "u2">>

=============================================================================
