------------------------------- MODULE MCQuota -------------------------------
(* Instances of Quota for TLC. *)
EXTENDS Quota, TLC

AmountSmall == [r \in Requests |-> IF r = CHOOSE q \in Requests : TRUE THEN 2 ELSE 1]

=============================================================================
