-------------------------- MODULE LocalTasksProofs --------------------------
(***************************************************************************)
(* What is proved of the image tasks without PostgreSQL: rows, images on   *)
(* disk and cancel functions fit each other, and the mode implements the   *)
(* contract of the image task service (TaskContract), for any number of    *)
(* requests and tasks, however many writes fail and processes die.         *)
(***************************************************************************)
EXTENDS LocalTasks, TLAPS

-----------------------------------------------------------------------------
(* The inductive invariant.                                                *)

(* The places of a request that has created its row.                       *)
Generating == {"created", "generate", "store", "finish", "end"}
Settling == {"settle", "exit"}

Types ==
  /\ rows \in [Tasks -> {NoRow} \cup
                        [st : Ended \cup {"running"}, by : Requests]]
  /\ pc \in [Requests -> {"new", "done"} \cup Handling \cup Working]
  /\ verdict \in [Requests -> Ended \ {"success"}]
  /\ owed \in [Requests -> Nat] /\ got \in [Requests -> Nat]
  /\ stored \in [Requests -> Nat] /\ delivered \in [Requests -> Nat]
  /\ expired \subseteq Requests /\ cancels \subseteq Requests
  /\ cpc \in [Tasks -> {"idle", "pop", "refund"}] /\ net \in [Requests -> Int]
  /\ gifted \subseteq Requests /\ killed \subseteq Requests
  /\ faults \in 0 .. MaxFaults

(* A row names a request of its task that has got past creating it, and    *)
(* what a cancel request goes on to is a row it has canceled.              *)
Rows ==
  \A t \in Tasks :
    /\ rows[t] # NoRow =>
         /\ TaskOf[rows[t].by] = t
         /\ pc[rows[t].by] \in Generating \cup Settling \cup {"done"}
    /\ cpc[t] # "idle" => rows[t] # NoRow /\ rows[t].st = "canceled"

(* Images of a request, by its place.                                      *)
ImagesFit(r) ==
  /\ stored[r] \in 0 .. Want[r] /\ delivered[r] \in 0 .. Want[r]
  /\ pc[r] \in {"new", "generate", "created", "end"} \cup Handling => stored[r] = 0
  /\ pc[r] \in {"new"} \cup Handling \cup Generating => delivered[r] = 0
  /\ pc[r] = "store" => got[r] \in 1 .. Want[r] /\ stored[r] <= got[r]
  /\ pc[r] = "finish" => stored[r] > 0
  /\ pc[r] \in Settling => stored[r] = delivered[r]
  /\ pc[r] = "done" /\ r \notin killed => stored[r] = delivered[r]
  /\ r \in cancels => pc[r] \in Working

(* What a request that succeeded has returned is on disk.                  *)
SuccessFits ==
  \A t \in Tasks : rows[t].st = "success" =>
    /\ pc[rows[t].by] \in Settling \cup {"done"}
    /\ delivered[rows[t].by] > 0
    /\ stored[rows[t].by] = delivered[rows[t].by]

(* Whoever generates owns its row; what is charged is owed until the row   *)
(* has ended.                                                              *)
MoneyFits(r) ==
  /\ pc[r] \in Generating \cup Settling => Owned(r)
  /\ pc[r] \in {"new"} \cup Handling \cup Generating => r \notin gifted
  /\ pc[r] \in {"new", "checked", "refused"} => net[r] = 0
  /\ pc[r] \in {"charged", "refund", "noinput"} => net[r] = Want[r]
  /\ pc[r] \in {"refund", "noinput"} => owed[r] = Want[r]
  /\ pc[r] = "settle" /\ r \notin gifted =>
       /\ net[r] = Want[r] /\ owed[r] = Want[r] - delivered[r]
       /\ Row(r).st \in Ended /\ cpc[TaskOf[r]] = "idle"
  /\ Owned(r) /\ r \notin gifted /\ (Row(r).st = "running" \/ cpc[TaskOf[r]] # "idle") =>
       net[r] = Want[r] /\ delivered[r] = 0

IInv ==
  /\ Types
  /\ Rows
  /\ \A r \in Requests : ImagesFit(r)
  /\ SuccessFits
  /\ \A r \in Requests : MoneyFits(r)

-----------------------------------------------------------------------------
(* The invariant is kept.                                                  *)

USE LocalAssumption

LEMMA InitInv == Init => IInv
BY DEF Init, IInv, Types, Rows, ImagesFit, SuccessFits, MoneyFits, Owned, Row,
       NoRow, Ended, Handling, Working, Generating, Settling

(* One step for each action, and under it one for each part of the         *)
(* invariant.                                                              *)
LEMMA NextInv == IInv /\ [Next]_vars => IInv'
<1> SUFFICES ASSUME IInv, [Next]_vars PROVE IInv'
  OBVIOUS
<1> USE DEF Goto, WriteRow, Fault, Owe, Images, Contexts, History, Conclude, DropImages,
           MoreToStore, Mutable, Running,
           Row, Owned, NoRow, Ended, Handling, Working, Generating, Settling
<1>1. ASSUME NEW r \in Requests, Lookup(r) PROVE IInv'
  <2> USE <1>1 DEF Lookup
  <2>1. Types'
    BY DEF IInv, Types, ImagesFit
  <2>2. Rows'
    BY DEF IInv, Types, Rows, MoneyFits
  <2>3. ASSUME NEW q \in Requests PROVE ImagesFit(q)'
    BY DEF IInv, Types, Rows, ImagesFit
  <2>4. SuccessFits'
    BY DEF IInv, Types, Rows, ImagesFit, SuccessFits
  <2>5. ASSUME NEW q \in Requests PROVE MoneyFits(q)'
    BY DEF IInv, Types, Rows, ImagesFit, MoneyFits
  <2>6. QED
    BY <2>1, <2>2, <2>3, <2>4, <2>5 DEF IInv
<1>2. ASSUME NEW r \in Requests, Refuse(r) PROVE IInv'
  <2> USE <1>2 DEF Refuse
  <2>1. Types'
    BY DEF IInv, Types, ImagesFit
  <2>2. Rows'
    BY DEF IInv, Types, Rows, MoneyFits
  <2>3. ASSUME NEW q \in Requests PROVE ImagesFit(q)'
    BY DEF IInv, Types, Rows, ImagesFit
  <2>4. SuccessFits'
    BY DEF IInv, Types, Rows, ImagesFit, SuccessFits
  <2>5. ASSUME NEW q \in Requests PROVE MoneyFits(q)'
    BY DEF IInv, Types, Rows, ImagesFit, MoneyFits
  <2>6. QED
    BY <2>1, <2>2, <2>3, <2>4, <2>5 DEF IInv
<1>3. ASSUME NEW r \in Requests, Charge(r) PROVE IInv'
  <2> USE <1>3 DEF Charge
  <2>1. Types'
    BY DEF IInv, Types, ImagesFit
  <2>2. Rows'
    BY DEF IInv, Types, Rows, MoneyFits
  <2>3. ASSUME NEW q \in Requests PROVE ImagesFit(q)'
    BY DEF IInv, Types, Rows, ImagesFit
  <2>4. SuccessFits'
    BY DEF IInv, Types, Rows, ImagesFit, SuccessFits
  <2>5. ASSUME NEW q \in Requests PROVE MoneyFits(q)'
    BY DEF IInv, Types, Rows, ImagesFit, MoneyFits
  <2>6. QED
    BY <2>1, <2>2, <2>3, <2>4, <2>5 DEF IInv
<1>4. ASSUME NEW r \in Requests, BadInputs(r) PROVE IInv'
  <2> USE <1>4 DEF BadInputs
  <2>1. Types'
    BY DEF IInv, Types, ImagesFit
  <2>2. Rows'
    BY DEF IInv, Types, Rows, MoneyFits
  <2>3. ASSUME NEW q \in Requests PROVE ImagesFit(q)'
    BY DEF IInv, Types, Rows, ImagesFit
  <2>4. SuccessFits'
    BY DEF IInv, Types, Rows, ImagesFit, SuccessFits
  <2>5. ASSUME NEW q \in Requests PROVE MoneyFits(q)'
    BY DEF IInv, Types, Rows, ImagesFit, MoneyFits
  <2>6. QED
    BY <2>1, <2>2, <2>3, <2>4, <2>5 DEF IInv
<1>5. ASSUME NEW r \in Requests, Create(r) PROVE IInv'
  <2> USE <1>5 DEF Create
  <2>1. Types'
    BY SMTT(30) DEF IInv, Types, ImagesFit
  <2>2. Rows'
    BY DEF IInv, Types, Rows, MoneyFits
  <2>3. ASSUME NEW q \in Requests PROVE ImagesFit(q)'
    BY DEF IInv, Types, Rows, ImagesFit
  <2>4. SuccessFits'
    BY DEF IInv, Types, Rows, ImagesFit, SuccessFits
  <2>5. ASSUME NEW q \in Requests PROVE MoneyFits(q)'
    BY DEF IInv, Types, Rows, ImagesFit, MoneyFits
  <2>6. QED
    BY <2>1, <2>2, <2>3, <2>4, <2>5 DEF IInv
<1>6. ASSUME NEW r \in Requests, RefundHandler(r) PROVE IInv'
  <2> USE <1>6 DEF RefundHandler
  <2>1. Types'
    BY DEF IInv, Types, ImagesFit
  <2>2. Rows'
    BY DEF IInv, Types, Rows, MoneyFits
  <2>3. ASSUME NEW q \in Requests PROVE ImagesFit(q)'
    BY DEF IInv, Types, Rows, ImagesFit
  <2>4. SuccessFits'
    BY DEF IInv, Types, Rows, ImagesFit, SuccessFits
  <2>5. ASSUME NEW q \in Requests PROVE MoneyFits(q)'
    BY DEF IInv, Types, Rows, ImagesFit, MoneyFits
  <2>6. QED
    BY <2>1, <2>2, <2>3, <2>4, <2>5 DEF IInv
<1>7. ASSUME NEW r \in Requests, Start(r) PROVE IInv'
  <2> USE <1>7 DEF Start
  <2>1. Types'
    BY DEF IInv, Types, ImagesFit
  <2>2. Rows'
    BY DEF IInv, Types, Rows, MoneyFits
  <2>3. ASSUME NEW q \in Requests PROVE ImagesFit(q)'
    BY DEF IInv, Types, Rows, ImagesFit
  <2>4. SuccessFits'
    BY DEF IInv, Types, Rows, ImagesFit, SuccessFits
  <2>5. ASSUME NEW q \in Requests PROVE MoneyFits(q)'
    BY DEF IInv, Types, Rows, ImagesFit, MoneyFits
  <2>6. QED
    BY <2>1, <2>2, <2>3, <2>4, <2>5 DEF IInv
<1>8. ASSUME NEW r \in Requests, TimeOut(r) PROVE IInv'
  <2> USE <1>8 DEF TimeOut
  <2>1. Types'
    BY DEF IInv, Types, ImagesFit
  <2>2. Rows'
    BY DEF IInv, Types, Rows, MoneyFits
  <2>3. ASSUME NEW q \in Requests PROVE ImagesFit(q)'
    BY DEF IInv, Types, Rows, ImagesFit
  <2>4. SuccessFits'
    BY DEF IInv, Types, Rows, ImagesFit, SuccessFits
  <2>5. ASSUME NEW q \in Requests PROVE MoneyFits(q)'
    BY DEF IInv, Types, Rows, ImagesFit, MoneyFits
  <2>6. QED
    BY <2>1, <2>2, <2>3, <2>4, <2>5 DEF IInv
<1>9. ASSUME NEW r \in Requests, Generate(r) PROVE IInv'
  <2> USE <1>9 DEF Generate
  <2>1. Types'
    BY DEF IInv, Types, ImagesFit
  <2>2. Rows'
    BY DEF IInv, Types, Rows, MoneyFits
  <2>3. ASSUME NEW q \in Requests PROVE ImagesFit(q)'
    BY DEF IInv, Types, Rows, ImagesFit
  <2>4. SuccessFits'
    BY DEF IInv, Types, Rows, ImagesFit, SuccessFits
  <2>5. ASSUME NEW q \in Requests PROVE MoneyFits(q)'
    BY DEF IInv, Types, Rows, ImagesFit, MoneyFits
  <2>6. QED
    BY <2>1, <2>2, <2>3, <2>4, <2>5 DEF IInv
<1>10. ASSUME NEW r \in Requests, StoreImage(r) PROVE IInv'
  <2> USE <1>10 DEF StoreImage
  <2>1. Types'
    BY DEF IInv, Types, ImagesFit
  <2>2. Rows'
    BY DEF IInv, Types, Rows, MoneyFits
  <2>3. ASSUME NEW q \in Requests PROVE ImagesFit(q)'
    BY DEF IInv, Types, Rows, ImagesFit
  <2>4. SuccessFits'
    BY DEF IInv, Types, Rows, ImagesFit, SuccessFits
  <2>5. ASSUME NEW q \in Requests PROVE MoneyFits(q)'
    BY DEF IInv, Types, Rows, ImagesFit, MoneyFits
  <2>6. QED
    BY <2>1, <2>2, <2>3, <2>4, <2>5 DEF IInv
<1>11. ASSUME NEW r \in Requests, Stored(r) PROVE IInv'
  <2> USE <1>11 DEF Stored
  <2>1. Types'
    BY DEF IInv, Types, ImagesFit
  <2>2. Rows'
    BY DEF IInv, Types, Rows, MoneyFits
  <2>3. ASSUME NEW q \in Requests PROVE ImagesFit(q)'
    BY DEF IInv, Types, Rows, ImagesFit
  <2>4. SuccessFits'
    BY DEF IInv, Types, Rows, ImagesFit, SuccessFits
  <2>5. ASSUME NEW q \in Requests PROVE MoneyFits(q)'
    BY DEF IInv, Types, Rows, ImagesFit, MoneyFits
  <2>6. QED
    BY <2>1, <2>2, <2>3, <2>4, <2>5 DEF IInv
<1>12. ASSUME NEW r \in Requests, End(r) PROVE IInv'
  <2> USE <1>12 DEF End
  <2>1. Types'
    BY DEF IInv, Types, ImagesFit
  <2>2. Rows'
    BY DEF IInv, Types, Rows, MoneyFits
  <2>3. ASSUME NEW q \in Requests PROVE ImagesFit(q)'
    BY DEF IInv, Types, Rows, ImagesFit
  <2>4. SuccessFits'
    BY DEF IInv, Types, Rows, ImagesFit, SuccessFits
  <2>5. ASSUME NEW q \in Requests PROVE MoneyFits(q)'
    BY DEF IInv, Types, Rows, ImagesFit, MoneyFits
  <2>6. QED
    BY <2>1, <2>2, <2>3, <2>4, <2>5 DEF IInv
<1>13. ASSUME NEW r \in Requests, Succeed(r) PROVE IInv'
  <2> USE <1>13 DEF Succeed
  <2>1. Types'
    <3>1. Want[r] \in Nat /\ stored[r] \in 0 .. Want[r]
      BY DEF IInv, ImagesFit
    <3>2. Want[r] - stored[r] \in Nat
      BY <3>1
    <3>3. owed' \in [Requests -> Nat]
      BY <3>1, <3>2 DEF IInv, Types
    <3>4. QED
      BY <3>3 DEF IInv, Types
  <2>2. Rows'
    BY DEF IInv, Types, Rows, MoneyFits
  <2>3. ASSUME NEW q \in Requests PROVE ImagesFit(q)'
    BY DEF IInv, Types, Rows, ImagesFit
  <2>4. SuccessFits'
    BY DEF IInv, Types, Rows, ImagesFit, SuccessFits
  <2>5. ASSUME NEW q \in Requests PROVE MoneyFits(q)'
    BY DEF IInv, Types, Rows, ImagesFit, MoneyFits
  <2>6. QED
    BY <2>1, <2>2, <2>3, <2>4, <2>5 DEF IInv
<1>14. ASSUME NEW r \in Requests, RefundTask(r) PROVE IInv'
  <2> USE <1>14 DEF RefundTask
  <2>1. Types'
    BY DEF IInv, Types, ImagesFit
  <2>2. Rows'
    BY DEF IInv, Types, Rows, MoneyFits
  <2>3. ASSUME NEW q \in Requests PROVE ImagesFit(q)'
    BY DEF IInv, Types, Rows, ImagesFit
  <2>4. SuccessFits'
    BY DEF IInv, Types, Rows, ImagesFit, SuccessFits
  <2>5. ASSUME NEW q \in Requests PROVE MoneyFits(q)'
    <3>1. CASE q = r
      <4>1. /\ pc'[r] = "exit" /\ Owned(r)' = Owned(r) /\ Row(r)' = Row(r)
            /\ cpc' = cpc /\ gifted' = gifted
        BY DEF IInv, Types
      <4>2. MoneyFits(r) /\ pc[r] = "settle"
        BY DEF IInv
      <4> HIDE DEF Owned, Row
      <4>3. ~(Owned(r) /\ r \notin gifted /\ (Row(r).st = "running" \/ cpc[TaskOf[r]] # "idle"))
        BY <4>2 DEF MoneyFits
      <4>4. Owned(r)
        BY <4>2 DEF MoneyFits
      <4>5. QED
        BY <3>1, <4>1, <4>3, <4>4 DEF MoneyFits
    <3>2. CASE q # r
      <4>1. /\ net'[q] = net[q] /\ owed'[q] = owed[q] /\ pc'[q] = pc[q]
            /\ Owned(q)' = Owned(q) /\ Row(q)' = Row(q)
        BY <3>2 DEF IInv, Types
      <4>2. MoneyFits(q)
        BY DEF IInv
      <4>3. QED
        BY <4>1, <4>2 DEF MoneyFits
    <3>3. QED
      BY <3>1, <3>2
  <2>6. QED
    BY <2>1, <2>2, <2>3, <2>4, <2>5 DEF IInv
<1>15. ASSUME NEW r \in Requests, Exit(r) PROVE IInv'
  <2> USE <1>15 DEF Exit
  <2>1. Types'
    BY DEF IInv, Types, ImagesFit
  <2>2. Rows'
    BY DEF IInv, Types, Rows, MoneyFits
  <2>3. ASSUME NEW q \in Requests PROVE ImagesFit(q)'
    BY DEF IInv, Types, Rows, ImagesFit
  <2>4. SuccessFits'
    BY DEF IInv, Types, Rows, ImagesFit, SuccessFits
  <2>5. ASSUME NEW q \in Requests PROVE MoneyFits(q)'
    BY DEF IInv, Types, Rows, ImagesFit, MoneyFits
  <2>6. QED
    BY <2>1, <2>2, <2>3, <2>4, <2>5 DEF IInv
<1>16. ASSUME NEW t \in Tasks, Cancel(t) PROVE IInv'
  <2> USE <1>16 DEF Cancel
  <2>1. Types'
    BY DEF IInv, Types, ImagesFit
  <2>2. Rows'
    BY DEF IInv, Types, Rows, MoneyFits
  <2>3. ASSUME NEW q \in Requests PROVE ImagesFit(q)'
    BY DEF IInv, Types, Rows, ImagesFit
  <2>4. SuccessFits'
    BY DEF IInv, Types, Rows, ImagesFit, SuccessFits
  <2>5. ASSUME NEW q \in Requests PROVE MoneyFits(q)'
    BY DEF IInv, Types, Rows, ImagesFit, MoneyFits
  <2>6. QED
    BY <2>1, <2>2, <2>3, <2>4, <2>5 DEF IInv
<1>17. ASSUME NEW t \in Tasks, CancelContext(t) PROVE IInv'
  <2> USE <1>17 DEF CancelContext
  <2>1. Types'
    BY DEF IInv, Types, ImagesFit
  <2>2. Rows'
    BY DEF IInv, Types, Rows, MoneyFits
  <2>3. ASSUME NEW q \in Requests PROVE ImagesFit(q)'
    BY DEF IInv, Types, Rows, ImagesFit
  <2>4. SuccessFits'
    BY DEF IInv, Types, Rows, ImagesFit, SuccessFits
  <2>5. ASSUME NEW q \in Requests PROVE MoneyFits(q)'
    BY DEF IInv, Types, Rows, ImagesFit, MoneyFits
  <2>6. QED
    BY <2>1, <2>2, <2>3, <2>4, <2>5 DEF IInv
<1>18. ASSUME NEW t \in Tasks, RefundCanceled(t) PROVE IInv'
  <2> USE <1>18 DEF RefundCanceled
  <2>1. Types'
    BY DEF IInv, Types, Rows
  <2>2. Rows'
    BY DEF IInv, Types, Rows, MoneyFits
  <2>3. ASSUME NEW q \in Requests PROVE ImagesFit(q)'
    BY DEF IInv, Types, Rows, ImagesFit
  <2>4. SuccessFits'
    BY DEF IInv, Types, Rows, ImagesFit, SuccessFits
  <2>5. ASSUME NEW q \in Requests PROVE MoneyFits(q)'
    BY DEF IInv, Types, Rows, ImagesFit, MoneyFits
  <2>6. QED
    BY <2>1, <2>2, <2>3, <2>4, <2>5 DEF IInv
<1>19. ASSUME Restart PROVE IInv'
  <2> USE <1>19 DEF Restart
  <2>1. Types'
    BY DEF IInv, Types, Rows
  <2>2. Rows'
    BY DEF IInv, Types, Rows, MoneyFits
  <2>3. ASSUME NEW q \in Requests PROVE ImagesFit(q)'
    BY DEF IInv, Types, Rows, ImagesFit
  <2>4. SuccessFits'
    BY DEF IInv, Types, Rows, ImagesFit, SuccessFits
  <2>5. ASSUME NEW q \in Requests PROVE MoneyFits(q)'
    BY DEF IInv, Types, Rows, ImagesFit, MoneyFits
  <2>6. QED
    BY <2>1, <2>2, <2>3, <2>4, <2>5 DEF IInv
<1>20. CASE UNCHANGED vars
  BY <1>20 DEF vars, IInv, Types, Rows, ImagesFit, SuccessFits, MoneyFits
<1>21. QED
  BY <1>1, <1>2, <1>3, <1>4, <1>5, <1>6, <1>7, <1>8, <1>9, <1>10, <1>11, <1>12, <1>13, <1>14, <1>15, <1>16, <1>17, <1>18, <1>19, <1>20
     DEF Next, Handle, Run, CancelTask

-----------------------------------------------------------------------------
(* What the contract sees of a request.                                    *)

CostOf(r) == IF r \in gifted THEN 0 ELSE net[r]
ResultOf(r) == IF r \in gifted THEN 0 ELSE delivered[r]

Same(r) ==
  PhaseOf(r)' = PhaseOf(r) /\ CostOf(r)' = CostOf(r) /\ ResultOf(r)' = ResultOf(r)

Closes(r) ==
  /\ PhaseOf(r) \in {"none", "open"} /\ PhaseOf(r)' = "closed"
  /\ CostOf(r)' = CostOf(r) /\ ResultOf(r)' = ResultOf(r)

Settles(r) ==
  /\ PhaseOf(r) = "open" /\ PhaseOf(r)' = "closed"
  /\ CostOf(r)' = ResultOf(r) /\ ResultOf(r)' = ResultOf(r)

IsGiven(r) ==
  /\ PhaseOf(r) = "open" /\ PhaseOf(r)' = "free"
  /\ CostOf(r)' = 0 /\ ResultOf(r)' = 0

Delivers(r) ==
  /\ PhaseOf(r) = "open" /\ ResultOf(r) = 0
  /\ ResultOf(r)' \in 1 .. Want[r]
  /\ PhaseOf(r)' = IF ResultOf(r)' < Want[r] THEN "open" ELSE "closed"
  /\ CostOf(r)' = CostOf(r)

(* The three functions of the contract change where a request changes.     *)
LEMMA OneSeen ==
  ASSUME NEW r \in Requests, \A q \in Requests \ {r} : Same(q)
  PROVE  /\ [q \in Requests |-> PhaseOf(q)]' =
              [[q \in Requests |-> PhaseOf(q)] EXCEPT ![r] = PhaseOf(r)']
         /\ [q \in Requests |-> IF q \in gifted THEN 0 ELSE net[q]]' =
              [[q \in Requests |-> IF q \in gifted THEN 0 ELSE net[q]]
                 EXCEPT ![r] = CostOf(r)']
         /\ [q \in Requests |-> IF q \in gifted THEN 0 ELSE delivered[q]]' =
              [[q \in Requests |-> IF q \in gifted THEN 0 ELSE delivered[q]]
                 EXCEPT ![r] = ResultOf(r)']
         /\ CostOf(r)' = CostOf(r) =>
              UNCHANGED [q \in Requests |-> IF q \in gifted THEN 0 ELSE net[q]]
         /\ ResultOf(r)' = ResultOf(r) =>
              UNCHANGED [q \in Requests |-> IF q \in gifted THEN 0 ELSE delivered[q]]
BY DEF Same, CostOf, ResultOf

LEMMA NothingSeen ==
  ASSUME \A q \in Requests : Same(q), faults' = faults
  PROVE  UNCHANGED Contract!contract
BY DEF Contract!contract, Same, CostOf, ResultOf

LEMMA FaultSeen ==
  ASSUME Fault, \A q \in Requests : Same(q) \/ Closes(q)
  PROVE  \E R \in SUBSET Requests : Contract!Fail(R)
<1> DEFINE R == {q \in Requests : ~Same(q)}
<1>1. R \in SUBSET Requests /\ \A q \in R : Closes(q)
  OBVIOUS
<1>2. Contract!Fail(R)
  BY <1>1 DEF Contract!Fail, Fault, Same, Closes, CostOf, ResultOf
<1>3. QED
  BY <1>1, <1>2

LEMMA OneMoves ==
  ASSUME NEW r \in Requests, \A q \in Requests \ {r} : Same(q), faults' = faults
  PROVE  /\ Closes(r) /\ PhaseOf(r) = "none" => Contract!Refuse(r)
         /\ Settles(r) => Contract!Settle(r)
         /\ Delivers(r) => \E k \in 1 .. Want[r] : Contract!Deliver(r, k)
         /\ PhaseOf(r) = "none" /\ PhaseOf(r)' = "open" /\ CostOf(r)' = Want[r]
              /\ ResultOf(r)' = ResultOf(r) => Contract!Accept(r)
<1>1. Closes(r) /\ PhaseOf(r) = "none" => Contract!Refuse(r)
  BY OneSeen DEF Closes, Contract!Refuse, CostOf, ResultOf
<1>2. Settles(r) => Contract!Settle(r)
  BY OneSeen DEF Settles, Contract!Settle, CostOf, ResultOf
<1>3. ASSUME Delivers(r) PROVE \E k \in 1 .. Want[r] : Contract!Deliver(r, k)
  <2>1. PICK k \in 1 .. Want[r] : k = ResultOf(r)'
    BY <1>3 DEF Delivers
  <2>2. Contract!Deliver(r, k)
    BY <1>3, <2>1, OneSeen DEF Delivers, Contract!Deliver, CostOf, ResultOf
  <2>3. QED
    BY <2>2
<1>4. PhaseOf(r) = "none" /\ PhaseOf(r)' = "open" /\ CostOf(r)' = Want[r]
              /\ ResultOf(r)' = ResultOf(r) => Contract!Accept(r)
  BY OneSeen DEF Contract!Accept, CostOf, ResultOf
<1>5. QED
  BY <1>1, <1>2, <1>3, <1>4

LEMMA GiftSeen ==
  ASSUME NEW r \in Requests, \A q \in Requests \ {r} : Same(q), Fault, IsGiven(r)
  PROVE  Contract!Gift(r)
BY OneSeen DEF IsGiven, Contract!Gift, Fault, CostOf, ResultOf

-----------------------------------------------------------------------------
(* What the actions show of the request they are about.                    *)
LEMMA QuietShown ==
  ASSUME IInv, NEW r \in Requests
  PROVE  /\ BadInputs(r) \/ Start(r) \/ TimeOut(r) \/ Create(r) => Same(r)
         /\ Generate(r) \/ StoreImage(r) \/ Stored(r) \/ Exit(r) => Same(r)
<1> USE DEF Goto, WriteRow, Fault, Owe, Images, Contexts, History, Conclude, DropImages,
           MoreToStore, Mutable, Running,
           Row, Owned, NoRow, Ended, Handling, Working, Generating, Settling,
           IInv, Types, Rows, MoneyFits, Same, PhaseOf, CostOf, ResultOf, Unsettled
<1>1. BadInputs(r) => Same(r)
  BY DEF BadInputs
<1>2. Start(r) => Same(r)
  BY DEF Start
<1>3. TimeOut(r) => Same(r)
  BY DEF TimeOut
<1>4. Create(r) => Same(r)
  BY DEF Create
<1>5. Generate(r) => Same(r)
  BY DEF Generate
<1>6. StoreImage(r) => Same(r)
  BY DEF StoreImage
<1>7. Stored(r) => Same(r)
  BY DEF Stored
<1>8. Exit(r) => Same(r)
  BY DEF Exit
<1>9. QED
  BY <1>1, <1>2, <1>3, <1>4, <1>5, <1>6, <1>7, <1>8

LEMMA HandlerShown ==
  ASSUME IInv, NEW r \in Requests
  PROVE  /\ Lookup(r) => Same(r) \/ (PhaseOf(r) = "none" /\ Closes(r))
         /\ Refuse(r) => Same(r) \/ (PhaseOf(r) = "none" /\ Closes(r))
         /\ Charge(r) => /\ PhaseOf(r) = "none" /\ PhaseOf(r)' = "open"
                         /\ CostOf(r)' = Want[r] /\ ResultOf(r)' = ResultOf(r)
         /\ RefundHandler(r) => Settles(r)
<1> USE DEF Goto, WriteRow, Fault, Owe, Images, Contexts, History, Conclude, DropImages,
           MoreToStore, Mutable, Running,
           Row, Owned, NoRow, Ended, Handling, Working, Generating, Settling,
           IInv, Types, Rows, MoneyFits, Same, Closes, PhaseOf, CostOf, ResultOf, Unsettled
<1>1. ASSUME Lookup(r) PROVE Same(r) \/ (PhaseOf(r) = "none" /\ Closes(r))
  <2>1. ~Owned(r) /\ r \notin gifted /\ PhaseOf(r) = "none"
    BY <1>1 DEF Lookup
  <2>2. ~Owned(r)' /\ r \notin gifted' /\ pc'[r] \in {"checked", "done"}
    BY <1>1, <2>1 DEF Lookup
  <2>3. PhaseOf(r)' \in {"none", "closed"}
    BY <2>2
  <2>4. CostOf(r)' = CostOf(r) /\ ResultOf(r)' = ResultOf(r)
    BY <1>1 DEF Lookup
  <2> HIDE DEF PhaseOf, CostOf, ResultOf
  <2>5. QED
    BY <2>1, <2>3, <2>4
<1>2. ASSUME Refuse(r) PROVE Same(r) \/ (PhaseOf(r) = "none" /\ Closes(r))
  <2>1. r \notin gifted /\ PhaseOf(r) = IF pc[r] = "checked" THEN "none" ELSE "closed"
    BY <1>2 DEF Refuse
  <2>2. r \notin gifted' /\ pc'[r] = "done" /\ (Owned(r)' => Row(r)'.st = "error")
    BY <1>2 DEF Refuse
  <2>3. Owned(r)' => cpc'[TaskOf[r]] = "idle"
    BY <1>2 DEF Refuse
  <2>4. PhaseOf(r)' = "closed"
    BY <2>2, <2>3
  <2>5. CostOf(r)' = CostOf(r) /\ ResultOf(r)' = ResultOf(r)
    BY <1>2 DEF Refuse
  <2> HIDE DEF PhaseOf, CostOf, ResultOf
  <2>6. QED
    BY <2>1, <2>4, <2>5
<1>3. ASSUME Charge(r)
      PROVE  /\ PhaseOf(r) = "none" /\ PhaseOf(r)' = "open"
             /\ CostOf(r)' = Want[r] /\ ResultOf(r)' = ResultOf(r)
  BY <1>3 DEF Charge
<1>4. ASSUME RefundHandler(r) PROVE Settles(r)
  BY <1>4 DEF RefundHandler, ImagesFit, Settles
<1>5. QED
  BY <1>1, <1>2, <1>3, <1>4

LEMMA WorkerShown ==
  ASSUME IInv, NEW r \in Requests
  PROVE  /\ End(r) => (Same(r) /\ faults' = faults) \/ (IsGiven(r) /\ Fault)
         /\ Succeed(r) => \/ (Same(r) \/ Delivers(r)) /\ faults' = faults
                          \/ IsGiven(r) /\ Fault
         /\ RefundTask(r) => Same(r) \/ Settles(r)
<1> USE DEF Goto, WriteRow, Fault, Owe, Images, Contexts, History, Conclude, DropImages,
           MoreToStore, Mutable, Running,
           Row, Owned, NoRow, Ended, Handling, Working, Generating, Settling
<1>1. ASSUME End(r) PROVE (Same(r) /\ faults' = faults) \/ (IsGiven(r) /\ Fault)
  <2>1. /\ pc[r] = "end" /\ Owned(r) /\ r \notin gifted /\ delivered[r] = 0
        /\ (Row(r).st = "running" \/ cpc[TaskOf[r]] # "idle" => net[r] = Want[r])
    BY <1>1 DEF End, IInv, MoneyFits, ImagesFit
  <2>2. CASE Mutable(r) /\ WriteRow(r, verdict[r]) /\ faults' = faults
    <3>1. PhaseOf(r) = "open"
      BY <2>1, <2>2 DEF PhaseOf, Unsettled, IInv, Types
    <3>2. /\ pc'[r] = "settle" /\ owed'[r] = Want[r] /\ gifted' = gifted
          /\ net' = net /\ delivered' = delivered
      BY <1>1, <2>1, <2>2 DEF End, IInv, Types
    <3>3. PhaseOf(r)' = "open"
      BY <2>1, <3>2 DEF PhaseOf, Unsettled
    <3>4. CostOf(r)' = CostOf(r) /\ ResultOf(r)' = ResultOf(r)
      BY <3>2 DEF CostOf, ResultOf
    <3>5. QED
      BY <2>2, <3>1, <3>3, <3>4 DEF Same
  <2>3. CASE Mutable(r) /\ Fault /\ gifted' = gifted \cup {r}
    <3>1. PhaseOf(r) = "open"
      BY <2>1, <2>3 DEF PhaseOf, Unsettled, IInv, Types
    <3>2. QED
      BY <2>3, <3>1 DEF IsGiven, PhaseOf, CostOf, ResultOf
  <2>4. CASE ~Mutable(r)
    <3>1. /\ pc'[r] = "exit" /\ rows' = rows /\ cpc' = cpc /\ gifted' = gifted
          /\ net' = net /\ delivered' = delivered /\ faults' = faults
      BY <1>1, <2>4 DEF End, IInv, Types
    <3>2. PhaseOf(r)' = PhaseOf(r)
      BY <2>1, <3>1 DEF PhaseOf, Unsettled
    <3>3. QED
      BY <3>1, <3>2 DEF Same, CostOf, ResultOf
  <2>5. QED
    BY <1>1, <2>2, <2>3, <2>4 DEF End
<1>2. ASSUME Succeed(r)
      PROVE  \/ (Same(r) \/ Delivers(r)) /\ faults' = faults
             \/ IsGiven(r) /\ Fault
  <2>1. /\ pc[r] = "finish" /\ Owned(r) /\ r \notin gifted /\ delivered[r] = 0
        /\ (Row(r).st = "running" \/ cpc[TaskOf[r]] # "idle" => net[r] = Want[r])
        /\ stored[r] \in 1 .. Want[r]
    BY <1>2 DEF Succeed, IInv, MoneyFits, ImagesFit
  <2>2. CASE Mutable(r) /\ WriteRow(r, "success") /\ faults' = faults
    <3>1. PhaseOf(r) = "open"
      BY <2>1, <2>2 DEF PhaseOf, Unsettled, IInv, Types
    <3>2. /\ pc'[r] = "settle" /\ owed'[r] = Want[r] - stored[r] /\ gifted' = gifted
          /\ net' = net /\ delivered'[r] = stored[r] /\ Row(r)'.st = "success"
          /\ cpc'[TaskOf[r]] = "idle"
      BY <1>2, <2>1, <2>2 DEF Succeed, IInv, Types, Rows
    <3>3. PhaseOf(r)' = IF stored[r] < Want[r] THEN "open" ELSE "closed"
      BY <2>1, <3>2 DEF PhaseOf, Unsettled, IInv, Types
    <3>4. QED
      BY <2>1, <2>2, <3>1, <3>2, <3>3 DEF Delivers, CostOf, ResultOf
  <2>3. CASE Mutable(r) /\ Fault /\ gifted' = gifted \cup {r}
    <3>1. PhaseOf(r) = "open"
      BY <2>1, <2>3 DEF PhaseOf, Unsettled, IInv, Types
    <3>2. QED
      BY <2>3, <3>1 DEF IsGiven, PhaseOf, CostOf, ResultOf
  <2>4. CASE ~Mutable(r)
    <3>1. /\ pc'[r] = "exit" /\ rows' = rows /\ cpc' = cpc /\ gifted' = gifted
          /\ net' = net /\ delivered' = delivered /\ faults' = faults
      BY <1>2, <2>4 DEF Succeed, IInv, Types
    <3>2. PhaseOf(r)' = PhaseOf(r)
      BY <2>1, <3>1 DEF PhaseOf, Unsettled
    <3>3. QED
      BY <3>1, <3>2 DEF Same, CostOf, ResultOf
  <2>5. QED
    BY <1>2, <2>2, <2>3, <2>4 DEF Succeed
<1>3. ASSUME RefundTask(r) PROVE Same(r) \/ Settles(r)
  <2>1. /\ pc[r] = "settle" /\ pc'[r] = "exit" /\ rows' = rows /\ cpc' = cpc
        /\ gifted' = gifted /\ delivered' = delivered /\ net'[r] = net[r] - owed[r]
    BY <1>3 DEF RefundTask, IInv, Types
  <2>2. CASE r \in gifted
    BY <2>1, <2>2 DEF Same, PhaseOf, CostOf, ResultOf
  <2>3. CASE r \notin gifted
    <3>1. /\ net[r] = Want[r] /\ owed[r] = Want[r] - delivered[r]
          /\ Row(r).st \in Ended /\ cpc[TaskOf[r]] = "idle"
          /\ delivered[r] \in 0 .. Want[r] /\ Want[r] \in Nat
      BY <2>1, <2>3 DEF IInv, MoneyFits, ImagesFit
    <3>2. net'[r] = delivered[r] /\ (owed[r] > 0 \/ net'[r] = net[r])
      BY <2>1, <3>1
    <3>3. PhaseOf(r)' = "closed"
      BY <2>1, <2>3, <3>1 DEF PhaseOf, Unsettled
    <3>4. PhaseOf(r) = IF owed[r] > 0 THEN "open" ELSE "closed"
      BY <2>1, <2>3, <3>1 DEF PhaseOf, Unsettled
    <3>5. QED
      BY <2>1, <2>3, <3>2, <3>3, <3>4 DEF Same, Settles, CostOf, ResultOf
  <2>4. QED
    BY <2>2, <2>3
<1>4. QED
  BY <1>1, <1>2, <1>3

(* No action shows anything of another request.                            *)
LEMMA OthersSame ==
  ASSUME IInv, NEW r \in Requests, Handle(r) \/ Run(r) \/ TimeOut(r)
  PROVE  \A q \in Requests \ {r} : Same(q)
<1> USE DEF Goto, WriteRow, Fault, Owe, Images, Contexts, History, Conclude, DropImages,
           MoreToStore, Mutable, Running,
           Row, Owned, NoRow, Ended, Handling, Working, Generating, Settling,
           IInv, Types, Rows, MoneyFits, Same, PhaseOf, CostOf, ResultOf, Unsettled
<1>1. ASSUME Lookup(r), NEW q \in Requests \ {r} PROVE Same(q)
  BY <1>1 DEF Lookup
<1>2. ASSUME Refuse(r), NEW q \in Requests \ {r} PROVE Same(q)
  BY <1>2 DEF Refuse
<1>3. ASSUME Charge(r), NEW q \in Requests \ {r} PROVE Same(q)
  BY <1>3 DEF Charge
<1>4. ASSUME BadInputs(r), NEW q \in Requests \ {r} PROVE Same(q)
  BY <1>4 DEF BadInputs
<1>5. ASSUME Create(r), NEW q \in Requests \ {r} PROVE Same(q)
  BY <1>5 DEF Create
<1>6. ASSUME RefundHandler(r), NEW q \in Requests \ {r} PROVE Same(q)
  BY <1>6 DEF RefundHandler
<1>7. ASSUME Start(r), NEW q \in Requests \ {r} PROVE Same(q)
  BY <1>7 DEF Start
<1>8. ASSUME TimeOut(r), NEW q \in Requests \ {r} PROVE Same(q)
  BY <1>8 DEF TimeOut
<1>9. ASSUME Generate(r), NEW q \in Requests \ {r} PROVE Same(q)
  BY <1>9 DEF Generate
<1>10. ASSUME StoreImage(r), NEW q \in Requests \ {r} PROVE Same(q)
  BY <1>10 DEF StoreImage
<1>11. ASSUME Stored(r), NEW q \in Requests \ {r} PROVE Same(q)
  BY <1>11 DEF Stored
<1>12. ASSUME End(r), NEW q \in Requests \ {r} PROVE Same(q)
  BY <1>12 DEF End
<1>13. ASSUME Succeed(r), NEW q \in Requests \ {r} PROVE Same(q)
  BY <1>13 DEF Succeed
<1>14. ASSUME RefundTask(r), NEW q \in Requests \ {r} PROVE Same(q)
  BY <1>14 DEF RefundTask
<1>15. ASSUME Exit(r), NEW q \in Requests \ {r} PROVE Same(q)
  BY <1>15 DEF Exit
<1>16. QED
  BY <1>1, <1>2, <1>3, <1>4, <1>5, <1>6, <1>7, <1>8, <1>9, <1>10, <1>11, <1>12, <1>13, <1>14, <1>15
     DEF Handle, Run

(* A cancel request is seen when it refunds, a restart in what it closes.  *)
LEMMA CancelShown ==
  ASSUME IInv, NEW t \in Tasks
  PROVE  /\ Cancel(t) \/ CancelContext(t) => \A q \in Requests : Same(q)
         /\ RefundCanceled(t) =>
              /\ rows[t].by \in Requests /\ \A q \in Requests \ {rows[t].by} : Same(q)
              /\ Same(rows[t].by) \/ Settles(rows[t].by)
<1> USE DEF Goto, WriteRow, Fault, Owe, Images, Contexts, History, Conclude, DropImages,
           MoreToStore, Mutable, Running,
           Row, Owned, NoRow, Ended, Handling, Working, Generating, Settling,
           IInv, Types, Rows, MoneyFits, Same, PhaseOf, CostOf, ResultOf, Unsettled
<1>1. ASSUME Cancel(t), NEW q \in Requests PROVE Same(q)
  BY <1>1 DEF Cancel
<1>2. ASSUME CancelContext(t), NEW q \in Requests PROVE Same(q)
  BY <1>2 DEF CancelContext
<1>3. ASSUME RefundCanceled(t), NEW q \in Requests \ {rows[t].by} PROVE Same(q)
  BY <1>3 DEF RefundCanceled
<1>4. ASSUME RefundCanceled(t)
      PROVE  rows[t].by \in Requests /\ (Same(rows[t].by) \/ Settles(rows[t].by))
  BY <1>4 DEF RefundCanceled, ImagesFit, Settles
<1>5. QED
  BY <1>1, <1>2, <1>3, <1>4

LEMMA RestartShown ==
  ASSUME IInv, Restart, NEW r \in Requests
  PROVE  Same(r) \/ Closes(r)
BY DEF Restart, Goto, WriteRow, Fault, Owe, Images, Contexts, History, Conclude, DropImages,
           MoreToStore, Mutable, Running,
       Row, Owned, NoRow, Ended, Handling, Working, Generating, Settling,
       IInv, Types, Rows, MoneyFits, Same, Closes, PhaseOf, CostOf, ResultOf,
       Unsettled, ImagesFit

-----------------------------------------------------------------------------
LEMMA ContractInit == Init => Contract!Init
BY DEF Init, Contract!Init, PhaseOf

LEMMA ContractStep ==
  IInv /\ [Next]_vars => [Contract!Next]_(Contract!contract)
<1> SUFFICES ASSUME IInv, [Next]_vars
             PROVE  Contract!Next \/ UNCHANGED Contract!contract
  BY DEF Contract!contract
<1>1. ASSUME NEW r \in Requests, Handle(r) \/ Run(r) \/ TimeOut(r)
      PROVE  Contract!Next \/ UNCHANGED Contract!contract
  <2>1. \A q \in Requests \ {r} : Same(q)
    BY <1>1, OthersSame
  <2>2. CASE /\ faults' = faults
             /\ \/ Same(r) \/ Settles(r) \/ Delivers(r) \/ Charge(r)
                \/ PhaseOf(r) = "none" /\ Closes(r)
    BY <2>1, <2>2, OneMoves, NothingSeen, HandlerShown DEF Contract!Next
  <2>3. CASE Fault /\ (Same(r) \/ Closes(r))
    BY <2>1, <2>3, FaultSeen DEF Contract!Next
  <2>4. CASE Fault /\ IsGiven(r)
    BY <2>1, <2>4, GiftSeen DEF Contract!Next
  <2>6. CASE End(r) \/ Succeed(r)
    <3>1. \/ (Same(r) \/ Delivers(r)) /\ faults' = faults
          \/ IsGiven(r) /\ Fault
      BY <2>6, WorkerShown
    <3>2. QED
      BY <2>2, <2>4, <3>1
  <2>7. CASE BadInputs(r) \/ Start(r) \/ TimeOut(r) \/ Create(r)
               \/ Generate(r) \/ StoreImage(r) \/ Stored(r) \/ Exit(r)
    <3>1. Same(r) /\ (faults' = faults \/ Fault)
      BY <2>7, QuietShown DEF BadInputs, Start, TimeOut, Create, Generate, StoreImage, Stored, Exit
    <3>2. QED
      BY <2>2, <2>3, <3>1
  <2>8. CASE Lookup(r) \/ Refuse(r) \/ Charge(r) \/ RefundHandler(r) \/ RefundTask(r)
    <3>1. CASE Fault
      <4>1. Refuse(r)
        BY <2>8, <3>1 DEF Fault, Lookup, Charge, RefundHandler, RefundTask, IInv, Types
      <4>2. QED
        BY <4>1, <3>1, <2>3, HandlerShown
    <3>2. CASE ~Fault
      <4>1. faults' = faults
        BY <2>8, <3>2 DEF Lookup, Refuse, Charge, RefundHandler, RefundTask
      <4>2. \/ Same(r) \/ Settles(r) \/ Charge(r)
            \/ PhaseOf(r) = "none" /\ Closes(r)
        BY <2>8, HandlerShown, WorkerShown
      <4>3. QED
        BY <4>1, <4>2, <2>2
    <3>3. QED
      BY <3>1, <3>2
  <2>9. QED
    BY <1>1, <2>6, <2>7, <2>8 DEF Handle, Run
<1>2. ASSUME NEW t \in Tasks, CancelTask(t)
      PROVE  Contract!Next \/ UNCHANGED Contract!contract
  <2>1. faults' = faults
    BY <1>2 DEF CancelTask, Cancel, CancelContext, RefundCanceled
  <2>2. CASE Cancel(t) \/ CancelContext(t)
    BY <2>1, <2>2, CancelShown, NothingSeen
  <2>3. CASE RefundCanceled(t)
    BY <2>1, <2>3, CancelShown, NothingSeen, OneMoves DEF Contract!Next
  <2>4. QED
    BY <1>2, <2>2, <2>3 DEF CancelTask
<1>3. CASE Restart
  BY <1>3, RestartShown, FaultSeen DEF Restart, Contract!Next
<1>4. CASE UNCHANGED vars
  BY <1>4 DEF vars, Contract!contract, PhaseOf, Unsettled, Owned, Row
<1>5. QED
  BY <1>1, <1>2, <1>3, <1>4 DEF Next

-----------------------------------------------------------------------------
(* The variables keep their types.                                         *)
THEOREM LocalTypes == Spec => []TypeOK
<1>1. IInv => TypeOK
  BY DEF IInv, Types, ImagesFit, TypeOK
<1>2. QED
  BY <1>1, InitInv, NextInv, PTL DEF Spec

(* Images on disk and cancel functions in memory fit the rows, however     *)
(* handlers, goroutines, cancel requests, failing writes and restarts      *)
(* interleave (runImageTaskJob, handleImageTaskCancel).                    *)
THEOREM RowsStayMatched == Spec => []RowsMatch
<1>1. IInv => RowsMatch
  BY DEF IInv, Types, ImagesFit, SuccessFits, RowsMatch, ImagesMatchRow, CancelsAreLive
<1>2. QED
  BY <1>1, InitInv, NextInv, PTL DEF Spec

(* The mode without PostgreSQL keeps the contract of the image task        *)
(* service: charged, delivered and settled once each, every exception owed *)
(* to a failed write or a restart (handleImageTaskGeneration,              *)
(* runImageTaskJob, handleImageTaskCancel, recoverUnfinishedTasks).        *)
THEOREM LocalKeepsContract == Spec => ContractSpec
BY ContractInit, ContractStep, InitInv, NextInv, PTL
   DEF Spec, ContractSpec, Contract!Spec

=============================================================================
