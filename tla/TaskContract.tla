---------------------------- MODULE TaskContract ----------------------------
(***************************************************************************)
(* What the image task service promises a user about one request: it is    *)
(* refused free of charge or charged in full and opened; while it is open  *)
(* a result may appear, once; it is closed once, and from then on the cost *)
(* is what was delivered.  Each time the promise is broken there is a      *)
(* fault that broke it: a request is closed unsettled (the user loses), or *)
(* the service loses sight of what it charged (the user wins).             *)
(***************************************************************************)
EXTENDS Naturals

CONSTANTS Requests, Want, MaxFaults

VARIABLES phase, cost, result, faults

contract == <<phase, cost, result, faults>>

TypeOK ==
  /\ phase \in [Requests -> {"none", "open", "closed", "free"}]
  /\ cost \in [Requests -> Nat]
  /\ result \in [Requests -> Nat]
  /\ faults \in 0..MaxFaults

Init ==
  /\ phase = [r \in Requests |-> "none"]
  /\ cost = [r \in Requests |-> 0]
  /\ result = [r \in Requests |-> 0]
  /\ faults = 0

Accept(r) ==
  /\ phase[r] = "none"
  /\ phase' = [phase EXCEPT ![r] = "open"]
  /\ cost' = [cost EXCEPT ![r] = Want[r]]
  /\ UNCHANGED <<result, faults>>

Refuse(r) ==
  /\ phase[r] = "none"
  /\ phase' = [phase EXCEPT ![r] = "closed"]
  /\ UNCHANGED <<cost, result, faults>>

(* A result with fewer images than were asked for is yet to be settled.     *)
Deliver(r, k) ==
  /\ phase[r] = "open" /\ result[r] = 0
  /\ result' = [result EXCEPT ![r] = k]
  /\ phase' = [phase EXCEPT ![r] = IF k < Want[r] THEN "open" ELSE "closed"]
  /\ UNCHANGED <<cost, faults>>

Settle(r) ==
  /\ phase[r] = "open"
  /\ phase' = [phase EXCEPT ![r] = "closed"]
  /\ cost' = [cost EXCEPT ![r] = result[r]]
  /\ UNCHANGED <<result, faults>>

(* A fault closes some requests as they are.                                *)
Fail(R) ==
  /\ faults < MaxFaults /\ faults' = faults + 1
  /\ \A r \in R : phase[r] \in {"none", "open"}
  /\ phase' = [r \in Requests |-> IF r \in R THEN "closed" ELSE phase[r]]
  /\ UNCHANGED <<cost, result>>

(* A fault makes a request free: nothing is promised about it any more.     *)
Gift(r) ==
  /\ faults < MaxFaults /\ faults' = faults + 1
  /\ phase[r] \in {"none", "open"}
  /\ phase' = [phase EXCEPT ![r] = "free"]
  /\ cost' = [cost EXCEPT ![r] = 0]
  /\ result' = [result EXCEPT ![r] = 0]

Next ==
  \/ \E r \in Requests : \/ Accept(r) \/ Refuse(r) \/ Settle(r) \/ Gift(r)
                         \/ \E k \in 1..Want[r] : Deliver(r, k)
  \/ \E R \in SUBSET Requests : Fail(R)

Spec == Init /\ [][Next]_contract
=============================================================================
