-------------------------- MODULE ImageTasksProofs --------------------------
(* ImageTasks for every number of requests, tasks, slots, processes and    *)
(* faults: its types, who settles a request and for how much, that it      *)
(* keeps the contract of TaskContract, and what holds of the stored files  *)
(* and of the owners' counters.                                            *)
EXTENDS ImageTasks, FiniteSetTheorems, TLAPS

-----------------------------------------------------------------------------
(* What the statements and the handlers' helpers do to the types.          *)

LEMMA InitTypeOK == Init => TypeOK
  BY ImageTasksAssumption DEF Init, TableInit, TypeOK, TableTypeOK, Status, Live, Terminal

(* A statement keeps the table well formed.                                *)
Statement(r, w, R) ==
  \/ InsertRow(r) \/ ClaimRow(r, w) \/ RenewRow(r, w) \/ RequeueRow(r, w)
  \/ CompleteRow(r, w) \/ FailRow(r, w) \/ CancelRow(r) \/ ExpireRows(R)
  \/ DeleteRows(R) \/ ClaimLapses(r) \/ DeadlinePasses(r) \/ UNCHANGED table

LEMMA CloseTypes ==
  ASSUME TableTypeOK, NEW R, NEW final \in Status, CloseRows(R, final)
  PROVE  TableTypeOK'
  BY DEF TableTypeOK, CloseRows

LEMMA StatementTypes ==
  ASSUME TableTypeOK, NEW r \in Requests, NEW w \in Slots, NEW R \in SUBSET Requests,
         Statement(r, w, R)
  PROVE  TableTypeOK'
<1>1. CASE InsertRow(r) \/ ClaimRow(r, w) \/ RenewRow(r, w) \/ RequeueRow(r, w)
  BY <1>1 DEF TableTypeOK, InsertRow, ClaimRow, RenewRow, RequeueRow, Status, Live
<1>2. CASE CompleteRow(r, w) \/ FailRow(r, w) \/ CancelRow(r) \/ ExpireRows(R)
  BY <1>2, CloseTypes DEF CompleteRow, FailRow, CancelRow, ExpireRows, Status, Terminal
<1>3. CASE DeleteRows(R) \/ ClaimLapses(r) \/ DeadlinePasses(r) \/ UNCHANGED table
  BY <1>3 DEF TableTypeOK, DeleteRows, ClaimLapses, DeadlinePasses, table, Status
<1> QED  BY <1>1, <1>2, <1>3 DEF Statement

-----------------------------------------------------------------------------
(* What type correctness rests on.                                         *)

(* A busy slot has a row, and its image counts fit where it is.            *)
RunsOK ==
  \A w \in Slots :
    /\ wpc[w] # "idle" => /\ job[w] \in Requests
                          /\ got[w] <= Want[job[w]] /\ saved[w] <= Want[job[w]]
    /\ wpc[w] = "idle" => job[w] = NoTask /\ got[w] = 0 /\ saved[w] = 0
    /\ wpc[w] = "generate" => saved[w] = 0
    /\ wpc[w] \in {"beat", "store"} => saved[w] < got[w]
    /\ wpc[w] = "complete" => saved[w] > 0

LEMMA WantType ==
  ASSUME NEW r \in Requests
  PROVE  Want[r] \in 1..4 /\ Want[r] \in Nat /\ OwnerOf[r] \in Owners
  BY ImageTasksAssumption

(* A refund keeps the account and the history well formed.                 *)
LEMMA RefundTypes ==
  ASSUME TypeOK, NEW r \in Requests, NEW n \in Nat, Refund(r, n)
  PROVE  /\ used' \in [Owners -> Nat]
         /\ net' \in [Requests -> Int]
         /\ leaked' \subseteq Requests
         /\ faults' \in Nat
<1> USE ImageTasksAssumption DEF TypeOK
<1>1. CASE Fault /\ UNCHANGED account /\ leaked' = leaked \cup {r}
  BY <1>1 DEF Fault, account
<1>2. CASE /\ used' = [used EXCEPT ![OwnerOf[r]] = IF @ > n THEN @ - n ELSE 0]
           /\ net' = [net EXCEPT ![r] = @ - n]
           /\ UNCHANGED leaked /\ NoFault
  <2>1. OwnerOf[r] \in Owners /\ used[OwnerOf[r]] \in Nat
    OBVIOUS
  <2> QED  BY <1>2, <2>1 DEF NoFault
<1> QED  BY <1>1, <1>2 DEF Refund

-----------------------------------------------------------------------------
(* Every action keeps the state well formed.                               *)

LEMMA CreateTypes ==
  ASSUME TypeOK, NEW r \in Requests, Create(r)
  PROVE  TypeOK'
<1> USE ImageTasksAssumption DEF TypeOK, canceler, worker, reaper, disk, history, account
<1>1. CASE Lookup(r)
  BY <1>1 DEF Lookup, table, TableTypeOK
<1>2. CASE Consume(r)
  <2>1. OwnerOf[r] \in Owners /\ used[OwnerOf[r]] \in Nat /\ Want[r] \in Nat
    BY WantType
  <2>2. used' \in [Owners -> Nat] /\ net' \in [Requests -> Int]
    BY <1>2, <2>1 DEF Consume
  <2>3. rpc' \in [Requests -> {"lookup", "consume", "save", "insert", "refund",
                               "clean", "done"}]
    BY <1>2 DEF Consume, AfterConsume
  <2> QED  BY <1>2, <2>2, <2>3 DEF Consume, table, TableTypeOK, Fault, NoFault
<1>3. CASE SaveInputs(r)
  BY <1>3 DEF SaveInputs, table, TableTypeOK, Fault, NoFault
<1>4. CASE Insert(r)
  BY <1>4 DEF Insert, InsertRow, table, TableTypeOK, Fault, NoFault, Status, Live
<1>5. CASE RefundRequest(r)
  BY <1>5, RefundTypes, WantType DEF RefundRequest, table, TableTypeOK
<1>6. CASE CleanRequest(r)
  BY <1>6 DEF CleanRequest, CleanInputs, table, TableTypeOK
<1> QED  BY <1>1, <1>2, <1>3, <1>4, <1>5, <1>6 DEF Create

LEMMA CancelTypes ==
  ASSUME TypeOK, NEW r \in Requests, Cancel(r) \/ FinishCancel(r) \/ Tick(r)
  PROVE  TypeOK'
<1> USE ImageTasksAssumption DEF TypeOK, creator, canceler, worker, reaper, disk, history, account
<1>1. CASE Cancel(r)
  <2>1. TableTypeOK'
    BY <1>1, CloseTypes DEF Cancel, CancelRow, Status, Terminal
  <2> QED  BY <1>1, <2>1 DEF Cancel, Fault, NoFault
<1>2. CASE RefundCanceled(r)
  BY <1>2, RefundTypes, WantType DEF RefundCanceled, table, TableTypeOK
<1>3. CASE CleanCanceled(r)
  BY <1>3 DEF CleanCanceled, CleanInputs, table, TableTypeOK
<1>4. CASE Tick(r)
  BY <1>4 DEF Tick, ClaimLapses, DeadlinePasses, TableTypeOK
<1> QED  BY <1>1, <1>2, <1>3, <1>4 DEF FinishCancel

LEMMA RunTypes ==
  ASSUME TypeOK, RunsOK, NEW w \in Slots, Run(w) \/ Heartbeat(w)
  PROVE  TypeOK'
<1> USE DEF TypeOK, creator, canceler, worker, reaper, disk, history, account
<1>1. ASSUME Run(w)  PROVE TypeOK'
  <2>0. /\ job[w] \in Requests /\ Want[job[w]] \in 1..4
        /\ Want[job[w]] - saved[w] \in Nat
    <3>1. wpc[w] # "idle"
      BY <1>1 DEF Run, Finish, Generate, Requeue, GiveUp, BeatBeforeSave, StoreImage,
                  Complete, RefundTask, Settle, CleanTask
    <3>2. job[w] \in Requests /\ saved[w] <= Want[job[w]] /\ saved[w] \in Nat
      BY <3>1 DEF RunsOK
    <3> QED  BY <3>2, WantType
  <2>1. ASSUME NEW k \in 1..4, Generate(w, k)  PROVE TypeOK'
    BY <2>0, <2>1 DEF Generate, table, TableTypeOK
  <2>2. CASE Requeue(w)
    <3>1. TableTypeOK'
      BY <2>2, <2>0, StatementTypes DEF Requeue, Statement
    <3> QED  BY <2>2, <3>1 DEF Requeue, BecomeIdle, Fault, NoFault
  <2>3. CASE GiveUp(w)
    <3>1. TableTypeOK'
      BY <2>3, <2>0, StatementTypes DEF GiveUp, Statement
    <3> QED  BY <2>0, <2>3, <3>1 DEF GiveUp, GoTo, BecomeIdle, Fault, NoFault
  <2>4. CASE BeatBeforeSave(w)
    <3>1. TableTypeOK'
      BY <2>4, <2>0, StatementTypes DEF BeatBeforeSave, Statement
    <3> QED  BY <2>4, <3>1 DEF BeatBeforeSave, GoTo, BecomeIdle, DropImages, Fault, NoFault
  <2>5. CASE StoreImage(w)
    <3>1. images' \subseteq Requests \X Slots
      BY <2>0, <2>5 DEF StoreImage, DropImages
    <3>2. saved[w] + 1 \in 0..4 \/ wpc'[w] = "failing"
      BY <2>0, <2>5 DEF StoreImage, RunsOK
    <3> QED  BY <2>5, <3>1, <3>2 DEF StoreImage, table, TableTypeOK, Fault, NoFault
  <2>6. CASE Complete(w)
    <3>1. TableTypeOK'
      BY <2>6, <2>0, StatementTypes DEF Complete, Statement
    <3> QED  BY <2>0, <2>6, <3>1 DEF Complete, GoTo, BecomeIdle, DropImages, Fault, NoFault
  <2>7. CASE RefundTask(w)
    BY <2>7, <2>0, RefundTypes DEF RefundTask, GoTo, table, TableTypeOK
  <2>8. CASE Settle(w)
    BY <2>8, <2>0, RefundTypes DEF Settle, GoTo, table, TableTypeOK
  <2>9. CASE CleanTask(w)
    BY <2>0, <2>9 DEF CleanTask, CleanInputs, BecomeIdle, table, TableTypeOK
  <2> QED  BY <1>1, <2>1, <2>2, <2>3, <2>4, <2>5, <2>6, <2>7, <2>8, <2>9 DEF Run, Finish
<1>2. CASE Heartbeat(w)
  BY <1>2 DEF Heartbeat, RenewRow, TableTypeOK
<1> QED  BY <1>1, <1>2

LEMMA ClaimTypes ==
  ASSUME TypeOK, NEW w \in Slots, NEW r \in Requests, Claim(w, r)
  PROVE  TypeOK'
<1>1. TableTypeOK'
  BY StatementTypes DEF Claim, Statement, TypeOK
<1> QED  BY <1>1 DEF TypeOK, Claim, creator, canceler, worker, reaper, disk, history, account,
                    Fault, NoFault

LEMMA ReaperTypes ==
  ASSUME TypeOK, NEW p \in Procs, NEW R \in SUBSET Requests,
         Expire(p, R) \/ Purge(p, R) \/ Reap(p)
  PROVE  TypeOK'
<1> USE DEF TypeOK, creator, canceler, worker, reaper, disk, history, account
<1>1. CASE Expire(p, R)
  <2>1. TableTypeOK'
    BY <1>1, CloseTypes DEF Expire, ExpireRows, Status, Terminal
  <2> QED  BY <1>1, <2>1 DEF Expire, Fault, NoFault
<1>2. CASE Purge(p, R)
  <2>1. TableTypeOK'
    BY <1>2 DEF Purge, DeleteRows, TableTypeOK, Status
  <2> QED  BY <1>2, <2>1 DEF Purge, Fault, NoFault
<1>3. ASSUME NEW r \in Requests, RefundExpired(p, r)  PROVE TypeOK'
  BY <1>3, RefundTypes, WantType DEF RefundExpired, table, TableTypeOK
<1>4. ASSUME NEW r \in Requests, Sweep(p, r)  PROVE TypeOK'
  BY <1>4 DEF Sweep, CleanInputs, table, TableTypeOK
<1> QED  BY <1>1, <1>2, <1>3, <1>4 DEF Reap

LEMMA CrashTypes ==
  ASSUME TypeOK, CrashAPI \/ \E p \in Procs : CrashWorker(p)
  PROVE  TypeOK'
<1> USE DEF TypeOK, creator, canceler, worker, reaper, disk, history, account, Fault
<1>1. CASE CrashAPI
  BY <1>1 DEF CrashAPI, table, TableTypeOK
<1>2. ASSUME NEW p \in Procs, CrashWorker(p)  PROVE TypeOK'
  BY <1>2 DEF CrashWorker, table, TableTypeOK
<1> QED  BY <1>1, <1>2

LEMMA NextTypeOK ==
  ASSUME TypeOK, RunsOK, [Next]_vars
  PROVE  TypeOK'
<1>1. CASE Next
  BY <1>1, CreateTypes, CancelTypes, RunTypes, ClaimTypes, ReaperTypes, CrashTypes
  DEF Next, Rest, vars, TypeOK, TableTypeOK, table, creator, canceler, worker, reaper,
      disk, history, account
<1>2. CASE UNCHANGED vars
  BY <1>2 DEF vars, TypeOK, TableTypeOK, table, creator, canceler, worker, reaper,
      disk, history, account
<1> QED  BY <1>1, <1>2

-----------------------------------------------------------------------------
(* RunsOK is kept.                                                         *)

LEMMA RunRunsOK ==
  ASSUME TypeOK, RunsOK, NEW w \in Slots, Run(w)
  PROVE  RunsOK'
<1> USE DEF RunsOK, TypeOK
<1>0. wpc[w] # "idle" => job[w] \in Requests /\ Want[job[w]] \in 1..4
  BY WantType
<1>1. ASSUME NEW k \in 1..4, Generate(w, k)  PROVE RunsOK'
  BY <1>0, <1>1 DEF Generate
<1>2. CASE Requeue(w)
  BY <1>2 DEF Requeue, BecomeIdle
<1>3. CASE GiveUp(w)
  BY <1>3 DEF GiveUp, GoTo, BecomeIdle
<1>4. CASE BeatBeforeSave(w)
  BY <1>4 DEF BeatBeforeSave, GoTo, BecomeIdle
<1>5. CASE StoreImage(w)
  BY <1>0, <1>5 DEF StoreImage
<1>6. CASE Complete(w)
  BY <1>6 DEF Complete, GoTo, BecomeIdle
<1>7. CASE Finish(w)
  BY <1>7 DEF Finish, RefundTask, Settle, CleanTask, GoTo, BecomeIdle
<1> QED  BY <1>1, <1>2, <1>3, <1>4, <1>5, <1>6, <1>7 DEF Run

LEMMA NextRunsOK ==
  ASSUME TypeOK, RunsOK, [Next]_vars
  PROVE  RunsOK'
<1>1. CASE UNCHANGED worker
  BY <1>1 DEF worker, RunsOK
<1>2. ASSUME NEW w \in Slots, NEW r \in Requests, Claim(w, r)  PROVE RunsOK'
  BY <1>2, WantType DEF Claim, RunsOK, worker, TypeOK
<1>3. ASSUME NEW p \in Procs, CrashWorker(p)  PROVE RunsOK'
  BY <1>3 DEF CrashWorker, RunsOK, TypeOK
<1>4. CASE Next
  <2>1. ASSUME NEW r \in Requests, Create(r) \/ Cancel(r) \/ FinishCancel(r) \/ Tick(r)
        PROVE  UNCHANGED worker
    BY <2>1 DEF Create, Lookup, Consume, SaveInputs, Insert, RefundRequest, CleanRequest,
                Cancel, FinishCancel, RefundCanceled, CleanCanceled, Tick
  <2>2. ASSUME NEW p \in Procs, NEW R \in SUBSET Requests,
               Reap(p) \/ Expire(p, R) \/ Purge(p, R)
        PROVE  UNCHANGED worker
    BY <2>2 DEF Reap, RefundExpired, Sweep, Expire, Purge
  <2>3. ASSUME NEW w \in Slots, Heartbeat(w)  PROVE UNCHANGED worker
    BY <2>3 DEF Heartbeat
  <2>4. CrashAPI \/ Rest => UNCHANGED worker
    BY DEF CrashAPI, Rest, vars
  <2>5. ASSUME NEW p \in Procs, Reap(p)  PROVE UNCHANGED worker
    BY <2>5 DEF Reap, RefundExpired, Sweep
  <2> QED  BY <1>1, <1>2, <1>3, <1>4, <2>1, <2>2, <2>3, <2>4, <2>5, RunRunsOK DEF Next
<1> QED  BY <1>1, <1>4 DEF vars

(* Every reachable state is well formed: counters never go below zero, the *)
(* four images of a run are never exceeded.                                *)
THEOREM TypeCorrect == Spec => []TypeOK
<1>1. Init => TypeOK /\ RunsOK
  BY InitTypeOK DEF Init, RunsOK
<1>2. TypeOK /\ RunsOK /\ [Next]_vars => (TypeOK /\ RunsOK)'
  BY NextTypeOK, NextRunsOK
<1> QED  BY <1>1, <1>2, PTL DEF Spec

-----------------------------------------------------------------------------
(* The inductive invariant, besides TypeOK and RunsOK.                     *)

Settles(w, r) == job[w] = r /\ wpc[w] \in {"refund", "settle"}
Creates(r)    == rpc[r] \in {"save", "insert", "refund"}
Ended(r)      == status[r] \notin Live \cup {"absent"}

(* Only an ended row has somebody to settle it besides its creator.        *)
SettledLate ==
  \A r \in Requests :
    /\ cpc[r] = "refund" => Ended(r)
    /\ \A p \in Procs : r \in reap[p] => Ended(r)
    /\ \A w \in Slots : Settles(w, r) => Ended(r)
    /\ \A w \in Slots : job[w] = r => status[r] # "absent"
    /\ rpc[r] \in {"lookup", "consume", "save", "insert"} => status[r] = "absent"
    /\ rpc[r] = "refund" /\ r \notin gifted => status[r] = "absent"

(* No two actors settle the same row.                                      *)
SettledOnce ==
  \A r \in Requests :
    /\ \A v, w \in Slots : Settles(v, r) /\ Settles(w, r) => v = w
    /\ \A p, q \in Procs : r \in reap[p] /\ r \in reap[q] => p = q
    /\ \A p \in Procs : r \in reap[p] => cpc[r] # "refund"
    /\ \A w \in Slots : Settles(w, r) =>
         cpc[r] # "refund" /\ \A p \in Procs : r \notin reap[p]

Bound(r) ==
  \/ Creates(r) \/ status[r] \in Live \/ cpc[r] = "refund"
  \/ \E p \in Procs : r \in reap[p]
  \/ \E w \in Slots : Settles(w, r)

Settling(w, r, pc) == job[w] = r /\ wpc[w] = pc

(* What is charged and delivered at each stage of r.                       *)
AmountsOf(r) ==
  /\ net[r] <= Want[r] /\ delivered[r] <= Want[r]
  /\ rpc[r] \in {"lookup", "consume"} => net[r] = 0
  /\ status[r] \in Live \cup {"absent"} => delivered[r] = 0
  /\ cpc[r] = "refund" => delivered[r] = 0
  /\ \A p \in Procs : r \in reap[p] => delivered[r] = 0
  /\ \A w \in Slots : Settling(w, r, "refund") => delivered[r] = 0
  /\ \A w \in Slots : Settling(w, r, "settle") => delivered[r] = saved[w]
  /\ r \notin gifted => /\ Bound(r) => net[r] = Want[r]
                        /\ net[r] >= delivered[r]
  /\ r \notin leaked => Bound(r) \/ net[r] <= delivered[r]

Amounts == \A r \in Requests : AmountsOf(r)

IInv == TypeOK /\ RunsOK /\ SettledLate /\ SettledOnce /\ Amounts

-----------------------------------------------------------------------------
(* SettledLate and SettledOnce are kept.                                   *)

Owed == SettledLate /\ SettledOnce

(* A step that gives a row to no new settler.                              *)
LEMMA KeepOwed ==
  ASSUME Owed, rpc' = rpc, gifted \subseteq gifted',
         \A q \in Requests : /\ Ended(q) => Ended(q)'
                             /\ status[q] = "absent" <=> status'[q] = "absent"
                             /\ cpc'[q] = "refund" => cpc[q] = "refund",
         \A q \in Requests, p \in Procs : q \in reap'[p] => q \in reap[p],
         \A q \in Requests, v \in Slots :
            /\ job'[v] = q => status'[q] # "absent"
            /\ Settles(v, q)' => Settles(v, q)
  PROVE  Owed'
<1>1. SettledLate'
  BY DEF Owed, SettledLate
<1>2. SettledOnce'
  BY DEF Owed, SettledOnce
<1> QED  BY <1>1, <1>2 DEF Owed

(* A slot ends the row it runs, and becomes its settler.                   *)
LEMMA HandOver ==
  ASSUME Owed, NEW w \in Slots, NEW r \in Requests, UNCHANGED <<rpc, cpc, reap>>,
         gifted' = gifted, status[r] \in Live, ~Ended(r), Ended(r)',
         \A q \in Requests \ {r} : status'[q] = status[q],
         job' = job, \A v \in Slots \ {w} : wpc'[v] = wpc[v], job[w] = r
  PROVE  Owed'
<1>1. \A q \in Requests, v \in Slots : Settles(v, q)' => Settles(v, q) \/ (v = w /\ q = r)
  BY DEF Settles
<1>2. \A q \in Requests : /\ Ended(q) => Ended(q)'
                          /\ status[q] = "absent" <=> status'[q] = "absent"
  BY DEF Ended, Live
<1>3. /\ \A v \in Slots : ~Settles(v, r)
      /\ \A p \in Procs : r \notin reap[p]
      /\ cpc[r] # "refund"
  BY DEF Owed, SettledLate
<1>4. SettledLate'
  BY <1>1, <1>2 DEF Owed, SettledLate
<1>5. SettledOnce'
  <2>1. \A q \in Requests, u, v \in Slots : Settles(u, q)' /\ Settles(v, q)' => u = v
    BY <1>1, <1>3 DEF Owed, SettledOnce
  <2>2. \A q \in Requests, v \in Slots, p \in Procs :
           Settles(v, q)' => cpc'[q] # "refund" /\ q \notin reap'[p]
    BY <1>1, <1>3 DEF Owed, SettledOnce
  <2>3. \A q \in Requests, v \in Slots : Settles(v, q)' => cpc'[q] # "refund"
    BY <1>1, <1>3 DEF Owed, SettledLate, SettledOnce
  <2> QED  BY <2>1, <2>2, <2>3 DEF Owed, SettledOnce
<1> QED  BY <1>4, <1>5 DEF Owed

LEMMA CreateOwed ==
  ASSUME TypeOK, Owed, NEW r \in Requests, Create(r)
  PROVE  Owed'
<1> USE DEF Owed, SettledLate, SettledOnce, TypeOK, Settles, Ended, canceler, worker, reaper
<1>1. CASE Lookup(r) \/ Consume(r) \/ SaveInputs(r)
  BY <1>1 DEF Lookup, Consume, SaveInputs, AfterConsume, table, history
<1>2. CASE Insert(r)
  BY <1>2 DEF Insert, InsertRow, table, TableTypeOK, Live
<1>3. CASE RefundRequest(r) \/ CleanRequest(r)
  BY <1>3 DEF RefundRequest, CleanRequest, table, history
<1> QED  BY <1>1, <1>2, <1>3 DEF Create

LEMMA CancelOwed ==
  ASSUME TypeOK, Owed, NEW r \in Requests, Cancel(r) \/ FinishCancel(r) \/ Tick(r)
  PROVE  Owed'
<1> USE DEF Owed, SettledLate, SettledOnce, TypeOK, Settles, Ended, creator, worker, reaper
<1>1. CASE Cancel(r)
  BY <1>1 DEF Cancel, CancelRow, CloseRows, TableTypeOK, Live
<1>2. CASE FinishCancel(r)
  BY <1>2 DEF FinishCancel, RefundCanceled, CleanCanceled, table, history
<1>3. CASE Tick(r)
  BY <1>3 DEF Tick, ClaimLapses, DeadlinePasses, canceler, history
<1> QED  BY <1>1, <1>2, <1>3

LEMMA RunOwed ==
  ASSUME TypeOK, RunsOK, Owed, NEW w \in Slots, Run(w) \/ Heartbeat(w)
  PROVE  Owed'
<1>r. PICK r : r = job[w]
  OBVIOUS
<1>0. \A q \in Requests, v \in Slots : job[v] = q => status[q] # "absent"
  BY DEF Owed, SettledLate
<1>b. BecomeIdle(w) => /\ \A v \in Slots \ {w} : job'[v] = job[v] /\ wpc'[v] = wpc[v]
                       /\ wpc'[w] = "idle" /\ job'[w] = NoTask /\ NoTask \notin Requests
  BY ImageTasksAssumption DEF BecomeIdle, TypeOK
<1>i. ASSUME BecomeIdle(w), UNCHANGED <<rpc, cpc, reap, gifted>>,
             \A q \in Requests : /\ Ended(q) => Ended(q)'
                                 /\ status[q] = "absent" <=> status'[q] = "absent"
      PROVE  Owed'
  <2>1. \A q \in Requests, v \in Slots : /\ job'[v] = q => status'[q] # "absent"
                                         /\ Settles(v, q)' => Settles(v, q)
    BY <1>0, <1>b, <1>i DEF Settles
  <2> QED  BY <1>i, <2>1, KeepOwed
<1>g. ASSUME UNCHANGED <<status, rpc, cpc, reap, gifted, job>>,
             \A q \in Requests, v \in Slots : Settles(v, q)' => Settles(v, q)
      PROVE  Owed'
  BY <1>0, <1>g, KeepOwed DEF Ended
<1>1. ASSUME NEW k \in 1..4, Generate(w, k)  PROVE Owed'
  BY <1>1, <1>g DEF Generate, table, creator, canceler, reaper, history, Settles, TypeOK
<1>s. CASE StoreImage(w)
  BY <1>s, <1>g DEF StoreImage, table, creator, canceler, reaper, history, Settles, TypeOK
<1>h. CASE Heartbeat(w)
  BY <1>h, <1>g DEF Heartbeat, RenewRow, creator, canceler, reaper, worker, history, Settles
<1>2. CASE Requeue(w)
  <2>1. r \in Requests /\ wpc[w] = "generate"
    BY <1>2, <1>r DEF Requeue, RunsOK
  <2>2. \A q \in Requests : /\ Ended(q) => Ended(q)'
                            /\ status[q] = "absent" <=> status'[q] = "absent"
    BY <1>2, <1>r, <2>1 DEF Requeue, RequeueRow, HeldBy, Ended, table, Live, TypeOK, TableTypeOK
  <2> QED  BY <1>2, <2>2, <1>i DEF Requeue, creator, canceler, reaper, history
<1>3. CASE BeatBeforeSave(w)
  <2>1. UNCHANGED <<status, rpc, cpc, reap, gifted>>
    BY <1>3 DEF BeatBeforeSave, RenewRow, table, creator, canceler, reaper, history
  <2>2. CASE BecomeIdle(w)
    BY <2>1, <2>2, <1>i DEF Ended
  <2>3. CASE GoTo(w, "store")
    BY <2>1, <2>3, <1>g DEF GoTo, Settles, TypeOK
  <2> QED  BY <1>3, <2>2, <2>3 DEF BeatBeforeSave
<1>4. CASE GiveUp(w)
  <2>1. r \in Requests
    BY <1>4, <1>r DEF GiveUp, RunsOK
  <2>2. FailRow(r, w) => /\ status[r] \in Live /\ ~Ended(r) /\ Ended(r)'
                         /\ \A q \in Requests \ {r} : status'[q] = status[q]
    BY <2>1 DEF FailRow, CloseRows, Ended, Live
  <2>3. UNCHANGED <<rpc, cpc, reap, gifted>>
    BY <1>4 DEF GiveUp, creator, canceler, reaper
  <2>4. CASE FailRow(r, w) /\ GoTo(w, "refund")
    BY <1>r, <2>1, <2>2, <2>3, <2>4, HandOver DEF GoTo, TypeOK
  <2>5. CASE BecomeIdle(w) /\ (UNCHANGED table \/ FailRow(r, w))
    <3>1. \A q \in Requests : /\ Ended(q) => Ended(q)'
                              /\ status[q] = "absent" <=> status'[q] = "absent"
      BY <2>1, <2>2, <2>5 DEF Ended, table, Live
    <3> QED  BY <2>3, <2>5, <3>1, <1>i
  <2> QED  BY <1>4, <1>r, <2>4, <2>5 DEF GiveUp
<1>5. CASE Complete(w)
  <2>1. r \in Requests
    BY <1>5, <1>r DEF Complete, RunsOK
  <2>2. CompleteRow(r, w) => /\ status[r] \in Live /\ ~Ended(r) /\ Ended(r)'
                             /\ \A q \in Requests \ {r} : status'[q] = status[q]
    BY <2>1 DEF CompleteRow, HeldBy, CloseRows, Ended, Live
  <2>3. UNCHANGED <<rpc, cpc, reap, gifted>>
    BY <1>5 DEF Complete, creator, canceler, reaper
  <2>4. CASE CompleteRow(r, w) /\ (GoTo(w, "settle") \/ GoTo(w, "clean"))
    BY <1>r, <2>1, <2>2, <2>3, <2>4, HandOver DEF GoTo, TypeOK
  <2>5. CASE BecomeIdle(w) /\ (UNCHANGED table \/ CompleteRow(r, w))
    <3>1. \A q \in Requests : /\ Ended(q) => Ended(q)'
                              /\ status[q] = "absent" <=> status'[q] = "absent"
      BY <2>1, <2>2, <2>5 DEF Ended, table, Live
    <3> QED  BY <2>3, <2>5, <3>1, <1>i
  <2> QED  BY <1>5, <1>r, <2>4, <2>5 DEF Complete
<1>6. CASE RefundTask(w) \/ Settle(w)
  BY <1>6, <1>g DEF RefundTask, Settle, GoTo, table, creator, canceler, reaper, Settles, TypeOK
<1>7. CASE CleanTask(w)
  BY <1>7, <1>i DEF CleanTask, table, creator, canceler, reaper, history, Ended
<1> QED  BY <1>1, <1>s, <1>h, <1>2, <1>3, <1>4, <1>5, <1>6, <1>7 DEF Run, Finish

LEMMA ClaimOwed ==
  ASSUME TypeOK, RunsOK, Owed, NEW w \in Slots, NEW r \in Requests, Claim(w, r)
  PROVE  Owed'
<1>1. /\ status[r] \in Live /\ status' = [status EXCEPT ![r] = "running"]
      /\ UNCHANGED <<rpc, cpc, reap, gifted>>
  BY DEF Claim, ClaimRow, Claimable, Live, creator, canceler, reaper, history
<1>2. \A q \in Requests : /\ Ended(q) => Ended(q)'
                          /\ status[q] = "absent" <=> status'[q] = "absent"
  BY <1>1 DEF Ended, Live, TypeOK, TableTypeOK
<1>3. \A q \in Requests, v \in Slots : /\ job'[v] = q => job[v] = q \/ q = r
                                       /\ Settles(v, q)' => Settles(v, q)
  BY DEF Claim, Settles, worker, TypeOK
<1>4. \A q \in Requests, v \in Slots : job'[v] = q => status'[q] # "absent"
  BY <1>1, <1>2, <1>3 DEF Owed, SettledLate, Live
<1> QED  BY <1>1, <1>2, <1>3, <1>4, KeepOwed

LEMMA ReaperOwed ==
  ASSUME TypeOK, Owed, NEW p \in Procs, NEW R \in SUBSET Requests,
         Expire(p, R) \/ Purge(p, R) \/ Reap(p)
  PROVE  Owed'
<1> USE DEF Settles, Ended, creator, canceler, worker
<1>0. \A q \in Requests, v \in Slots : job[v] = q => status[q] # "absent"
  BY DEF Owed, SettledLate
<1>1. CASE Expire(p, R)
  <2>1. /\ UNCHANGED <<rpc, cpc, wpc, job, gifted>>
        /\ \A q \in R : status[q] \in Live /\ status'[q] = "error"
        /\ \A q \in Requests \ R : status'[q] = status[q]
        /\ \A o \in Procs \ {p} : reap'[o] = reap[o]
        /\ reap[p] = {} /\ reap'[p] \subseteq R
    BY <1>1 DEF Expire, ExpireRows, Expirable, CloseRows, Quiet, TypeOK
  <2>2. \A q \in R : /\ cpc[q] # "refund"
                     /\ \A o \in Procs : q \notin reap[o]
                     /\ \A v \in Slots : ~Settles(v, q)
    BY <2>1 DEF Owed, SettledLate
  <2>3. \A q \in Requests : /\ Ended(q) => Ended(q)'
                            /\ status[q] = "absent" <=> status'[q] = "absent"
    BY <2>1 DEF Live
  <2>4. SettledLate'
    BY <2>1, <2>3 DEF Owed, SettledLate, Live
  <2>5. SettledOnce'
    <3>1. \A q \in Requests, o \in Procs :
             q \in reap'[o] => (q \in reap[o] /\ o # p) \/ (q \in R /\ o = p)
      BY <2>1
    <3>2. \A q \in Requests, o, u \in Procs : q \in reap'[o] /\ q \in reap'[u] => o = u
      BY <2>2, <3>1 DEF Owed, SettledOnce
    <3>3. \A q \in Requests, o \in Procs :
             q \in reap'[o] => cpc'[q] # "refund" /\ \A v \in Slots : ~Settles(v, q)'
      BY <2>1, <2>2, <3>1 DEF Owed, SettledOnce
    <3>4. \A q \in Requests, v \in Slots : Settles(v, q)' <=> Settles(v, q)
      BY <2>1
    <3> QED  BY <2>1, <3>2, <3>3, <3>4 DEF Owed, SettledOnce
  <2> QED  BY <2>4, <2>5 DEF Owed
<1>2. CASE Purge(p, R)
  <2>1. /\ UNCHANGED <<rpc, cpc, wpc, job, reap, gifted>>
        /\ \A q \in R : status[q] \in Terminal /\ status'[q] = "deleted"
        /\ \A q \in Requests \ R : status'[q] = status[q]
    BY <1>2 DEF Purge, DeleteRows
  <2>2. \A q \in Requests : /\ Ended(q) => Ended(q)'
                            /\ status[q] = "absent" <=> status'[q] = "absent"
    BY <2>1 DEF Live, Terminal
  <2> QED  BY <1>0, <2>1, <2>2, KeepOwed
<1>3. ASSUME NEW r \in Requests, RefundExpired(p, r) \/ Sweep(p, r)  PROVE Owed'
  <2>1. /\ UNCHANGED <<rpc, cpc, wpc, job, gifted, status>>
        /\ \A o \in Procs : reap'[o] \subseteq reap[o]
    BY <1>3 DEF RefundExpired, Sweep, table, history, TypeOK
  <2> QED  BY <1>0, <2>1, KeepOwed
<1> QED  BY <1>1, <1>2, <1>3 DEF Reap

LEMMA CrashOwed ==
  ASSUME TypeOK, Owed, CrashAPI \/ \E p \in Procs : CrashWorker(p)
  PROVE  Owed'
<1> USE DEF Owed, SettledLate, SettledOnce, TypeOK, Settles, Ended, creator, canceler, worker, reaper
<1>1. CASE CrashAPI
  BY <1>1 DEF CrashAPI, table
<1>2. ASSUME NEW p \in Procs, CrashWorker(p)  PROVE Owed'
  <2>1. /\ UNCHANGED <<rpc, cpc, gifted, status>>
        /\ \A o \in Procs : reap'[o] \subseteq reap[o]
    BY <1>2 DEF CrashWorker, table
  <2>2. \A v \in Slots : \/ wpc'[v] = "idle" /\ job'[v] = NoTask
                         \/ wpc'[v] = wpc[v] /\ job'[v] = job[v]
    BY <1>2 DEF CrashWorker
  <2> QED  BY <2>1, <2>2, KeepOwed, ImageTasksAssumption
<1> QED  BY <1>1, <1>2

LEMMA NextOwed ==
  ASSUME TypeOK, RunsOK, Owed, [Next]_vars
  PROVE  Owed'
<1>1. CASE UNCHANGED vars
  BY <1>1 DEF vars, table, creator, canceler, worker, reaper, history, Owed, SettledLate,
              SettledOnce, Settles, Ended
<1>2. CASE Next
  <2>1. Rest => UNCHANGED vars
    BY DEF Rest
  <2> QED  BY <1>1, <1>2, <2>1, CreateOwed, CancelOwed, RunOwed, ClaimOwed, ReaperOwed,
              CrashOwed DEF Next
<1> QED  BY <1>1, <1>2

-----------------------------------------------------------------------------
(* Amounts is kept: first for a request whose account a step leaves alone, *)
(* then for the one it deals with.                                         *)

LEMMA KeepAmounts ==
  ASSUME NEW q \in Requests, AmountsOf(q),
         net'[q] = net[q], delivered'[q] = delivered[q],
         gifted \subseteq gifted', leaked \subseteq leaked',
         rpc'[q] \in {"lookup", "consume"} => rpc[q] \in {"lookup", "consume"},
         status'[q] \in Live \cup {"absent"} => status[q] \in Live \cup {"absent"},
         cpc'[q] = "refund" => cpc[q] = "refund" \/ status[q] \in Live,
         \A p \in Procs : q \in reap'[p] => q \in reap[p] \/ status[q] \in Live,
         \A w \in Slots : Settling(w, q, "refund")' =>
                            Settling(w, q, "refund") \/ status[q] \in Live,
         \A w \in Slots : Settling(w, q, "settle")' =>
                            Settling(w, q, "settle") /\ saved'[w] = saved[w],
         Bound(q)' => Bound(q),
         q \notin leaked' /\ Bound(q) => Bound(q)'
  PROVE  AmountsOf(q)'
  BY DEF AmountsOf

(* A refund of what a request was not delivered, by the last one bound to  *)
(* it, or by its creator.                                                  *)
LEMMA RefundAmounts ==
  ASSUME TypeOK, NEW r \in Requests, NEW n \in Nat, Refund(r, n)
  PROVE  /\ \A q \in Requests \ {r} : net'[q] = net[q]
         /\ leaked \subseteq leaked'
         /\ \/ net'[r] = net[r] - n /\ leaked' = leaked
            \/ net'[r] = net[r] /\ r \in leaked'
  BY DEF Refund, TypeOK, account, NoFault

LEMMA CreateAmounts ==
  ASSUME TypeOK, Owed, Amounts, NEW r \in Requests, Create(r)
  PROVE  Amounts'
<1> USE DEF canceler, worker, reaper, disk, history, account
<1>0. /\ \A q \in Requests : AmountsOf(q)
      /\ net \in [Requests -> Int] /\ Want[r] \in 1..4 /\ Want[r] \in Nat
  BY WantType DEF Amounts, TypeOK
<1>1. ASSUME NEW q \in Requests, q # r  PROVE AmountsOf(q)'
  <2>1. /\ net'[q] = net[q] /\ delivered'[q] = delivered[q]
        /\ leaked \subseteq leaked' /\ gifted \subseteq gifted'
        /\ q \in leaked' <=> q \in leaked
    BY <1>1 DEF Create, Lookup, Consume, SaveInputs, Insert, RefundRequest, CleanRequest,
                Refund, TypeOK
  <2>2. rpc'[q] = rpc[q] /\ status'[q] = status[q]
    BY <1>1 DEF Create, Lookup, Consume, SaveInputs, Insert, InsertRow, RefundRequest,
                CleanRequest, table, TypeOK, TableTypeOK
  <2>3. UNCHANGED <<cpc, reap, job, wpc, saved>>
    BY DEF Create, Lookup, Consume, SaveInputs, Insert, RefundRequest, CleanRequest
  <2>4. Bound(q)' <=> Bound(q)
    BY <2>2, <2>3 DEF Bound, Creates, Settles
  <2> QED  BY <1>0, <2>1, <2>2, <2>3, <2>4, KeepAmounts DEF Settling
<1>2. AmountsOf(r)'
  <2>0. /\ AmountsOf(r)
        /\ UNCHANGED <<cpc, reap, job, wpc, saved, delivered>>
    BY <1>0 DEF Create, Lookup, Consume, SaveInputs, Insert, RefundRequest, CleanRequest
  <2>1. CASE Lookup(r)
    BY <1>0, <2>0, <2>1 DEF Lookup, AmountsOf, Bound, Creates, Settles, Settling, TypeOK, table
  <2>2. CASE Consume(r)
    <3>1. status[r] = "absent" /\ UNCHANGED status
      BY <2>2 DEF Consume, Owed, SettledLate, table
    <3>2. delivered[r] = 0 /\ net[r] = 0
      BY <2>0, <2>2, <3>1 DEF AmountsOf, Consume
    <3>3. /\ cpc[r] # "refund"
          /\ \A p \in Procs : r \notin reap[p]
          /\ \A w \in Slots : ~Settles(w, r)
      BY <3>1 DEF Owed, SettledLate, Ended
    <3>4. UNCHANGED leaked
      BY <2>2 DEF Consume
    <3>5. \/ net'[r] = Want[r] /\ Creates(r)'
          \/ net'[r] = 0 /\ r \in gifted' /\ Creates(r)'
          \/ net'[r] = 0 /\ rpc'[r] = "done"
      BY <1>0, <2>2, <3>2 DEF Consume, AfterConsume, Creates, TypeOK
    <3> QED  BY <1>0, <2>0, <3>1, <3>2, <3>3, <3>4, <3>5
        DEF AmountsOf, Bound, Creates, Settles, Settling, Live
  <2>3. CASE SaveInputs(r)
    BY <1>0, <2>0, <2>3 DEF SaveInputs, AmountsOf, Bound, Creates, Settles, Settling, TypeOK, table
  <2>4. CASE Insert(r)
    <3>1. /\ status[r] = "absent" /\ status'[r] \in {"absent", "queued"}
          /\ rpc[r] = "insert" /\ rpc'[r] \in {"refund", "done"}
          /\ rpc'[r] = "done" => status'[r] = "queued"
          /\ UNCHANGED <<net, leaked>> /\ gifted \subseteq gifted'
      BY <2>4 DEF Insert, InsertRow, Owed, SettledLate, table, TypeOK, TableTypeOK
    <3>2. Bound(r) /\ Bound(r)'
      BY <3>1 DEF Bound, Creates, Live
    <3> QED  BY <2>0, <3>1, <3>2, KeepAmounts DEF Settling
  <2>5. CASE RefundRequest(r)
    <3>1. /\ rpc[r] = "refund" /\ rpc'[r] = "clean"
          /\ UNCHANGED <<status, gifted>>
          /\ \/ net'[r] = net[r] - Want[r] /\ leaked' = leaked
             \/ net'[r] = net[r] /\ r \in leaked'
      BY <1>0, <2>5, RefundAmounts DEF RefundRequest, TypeOK, table
    <3>2. Bound(r)
      BY <3>1 DEF Bound, Creates
    <3>3. r \notin gifted => /\ status[r] = "absent"
                             /\ cpc[r] # "refund"
                             /\ \A p \in Procs : r \notin reap[p]
                             /\ \A w \in Slots : ~Settles(w, r)
      BY <3>1 DEF Owed, SettledLate, Ended
    <3>4. r \notin gifted => ~Bound(r)' /\ delivered[r] = 0 /\ net[r] = Want[r]
      BY <2>0, <3>1, <3>2, <3>3 DEF Bound, Creates, Live, Settles, AmountsOf
    <3>5. delivered[r] \in Nat /\ net[r] \in Int
      BY DEF TypeOK
    <3> QED  BY <1>0, <2>0, <3>1, <3>2, <3>4, <3>5 DEF AmountsOf, Settling
  <2>6. CASE CleanRequest(r)
    BY <1>0, <2>0, <2>6 DEF CleanRequest, AmountsOf, Bound, Creates, Settles, Settling, TypeOK, table
  <2> QED  BY <2>1, <2>2, <2>3, <2>4, <2>5, <2>6 DEF Create
<1> QED  BY <1>1, <1>2 DEF Amounts

(* The one who settles an ended row returns what was not delivered.        *)
LEMMA FinalRefund ==
  ASSUME TypeOK, NEW r \in Requests, AmountsOf(r), Bound(r), Ended(r), SettledLate,
         \/ net'[r] = net[r] - (Want[r] - delivered[r]) /\ leaked' = leaked
         \/ net'[r] = net[r] /\ r \in leaked',
         UNCHANGED <<rpc, gifted, delivered, saved, status, job>>,
         cpc'[r] = "refund" => cpc[r] = "refund",
         \A p \in Procs : r \in reap'[p] => r \in reap[p],
         \A w \in Slots : wpc'[w] \in {"refund", "settle"} => wpc'[w] = wpc[w],
         Creates(r) \/ ~Bound(r)'
  PROVE  AmountsOf(r)'
<1>1. r \notin gifted => ~Bound(r)' /\ net[r] = Want[r]
  BY DEF SettledLate, Creates, Ended, AmountsOf
<1>2. /\ rpc[r] \notin {"lookup", "consume"}
      /\ net[r] \in Int /\ delivered[r] \in Nat /\ Want[r] \in Nat
  BY WantType DEF SettledLate, Ended, TypeOK
<1> QED  BY <1>1, <1>2 DEF AmountsOf, Settling

(* Whoever else settles a row is its creator.                              *)
LEMMA OnlyCreatorLeft ==
  ASSUME Owed, NEW r \in Requests
  PROVE  /\ cpc[r] = "refund" => /\ Ended(r) /\ Bound(r)
                                 /\ \A p \in Procs : r \notin reap[p]
                                 /\ \A w \in Slots : ~Settles(w, r)
         /\ \A p \in Procs : r \in reap[p] =>
              /\ Ended(r) /\ Bound(r) /\ cpc[r] # "refund"
              /\ \A q \in Procs \ {p} : r \notin reap[q]
              /\ \A w \in Slots : ~Settles(w, r)
         /\ \A w \in Slots : Settles(w, r) =>
              /\ Ended(r) /\ Bound(r) /\ cpc[r] # "refund"
              /\ \A p \in Procs : r \notin reap[p]
              /\ \A v \in Slots \ {w} : ~Settles(v, r)
  BY DEF Owed, SettledLate, SettledOnce, Bound

LEMMA CancelAmounts ==
  ASSUME TypeOK, Owed, Amounts, NEW r \in Requests, Cancel(r) \/ FinishCancel(r) \/ Tick(r)
  PROVE  Amounts'
<1> USE DEF creator, worker, reaper, disk, history, account
<1>0. /\ \A q \in Requests : AmountsOf(q)
      /\ net \in [Requests -> Int] /\ Want[r] \in Nat
      /\ UNCHANGED <<rpc, reap, job, wpc, saved, delivered, gifted>>
      /\ leaked \subseteq leaked'
  BY WantType DEF Amounts, TypeOK, Cancel, FinishCancel, RefundCanceled, CleanCanceled, Tick,
                  canceler, Refund
<1>1. ASSUME NEW q \in Requests, q # r  PROVE AmountsOf(q)'
  <2>1. net'[q] = net[q] /\ (q \in leaked' <=> q \in leaked) /\ cpc'[q] = cpc[q]
    BY <1>1 DEF Cancel, FinishCancel, RefundCanceled, CleanCanceled, Tick, canceler, Refund, TypeOK
  <2>2. status'[q] = status[q]
    BY <1>1 DEF Cancel, CancelRow, CloseRows, FinishCancel, RefundCanceled, CleanCanceled, Tick,
                ClaimLapses, DeadlinePasses, table, TypeOK, TableTypeOK
  <2>3. Bound(q)' <=> Bound(q)
    BY <1>0, <2>1, <2>2 DEF Bound, Creates, Settles
  <2> QED  BY <1>0, <2>1, <2>2, <2>3, KeepAmounts DEF Settling
<1>2. AmountsOf(r)'
  <2>1. CASE Cancel(r)
    <3>1. /\ status[r] \in Live /\ status'[r] = "canceled" /\ net' = net
          /\ cpc'[r] = "refund" \/ r \in leaked'
      BY <2>1 DEF Cancel, CancelRow, CloseRows, TypeOK
    <3>2. Bound(r) /\ (cpc'[r] = "refund" => Bound(r)')
      BY <3>1 DEF Bound
    <3> QED  BY <1>0, <3>1, <3>2, KeepAmounts DEF Settling, Live
  <2>2. CASE RefundCanceled(r)
    <3>1. /\ cpc[r] = "refund" /\ cpc'[r] = "clean" /\ UNCHANGED status
          /\ \/ net'[r] = net[r] - Want[r] /\ leaked' = leaked
             \/ net'[r] = net[r] /\ r \in leaked'
      BY <1>0, <2>2, RefundAmounts DEF RefundCanceled, table, TypeOK
    <3>2. /\ Ended(r) /\ Bound(r) /\ delivered[r] = 0
          /\ \A p \in Procs : r \notin reap[p]
          /\ \A w \in Slots : ~Settles(w, r)
      BY <1>0, <3>1, OnlyCreatorLeft DEF AmountsOf
    <3>3. Creates(r) \/ ~Bound(r)'
      BY <1>0, <3>1, <3>2 DEF Bound, Creates, Settles, Ended
    <3> QED  BY <1>0, <3>1, <3>2, <3>3, FinalRefund DEF Owed
  <2>3. CASE CleanCanceled(r) \/ Tick(r)
    <3>1. /\ net' = net /\ leaked' = leaked /\ status' = status
          /\ cpc'[r] = "refund" <=> cpc[r] = "refund"
      BY <2>3 DEF CleanCanceled, Tick, ClaimLapses, DeadlinePasses, canceler, table, TypeOK
    <3>2. Bound(r)' <=> Bound(r)
      BY <1>0, <3>1 DEF Bound, Creates, Settles
    <3> QED  BY <1>0, <3>1, <3>2, KeepAmounts DEF Settling
  <2> QED  BY <2>1, <2>2, <2>3 DEF FinishCancel
<1> QED  BY <1>1, <1>2 DEF Amounts

LEMMA ReaperAmounts ==
  ASSUME TypeOK, Owed, Amounts, NEW p \in Procs, NEW R \in SUBSET Requests,
         Expire(p, R) \/ Purge(p, R) \/ Reap(p)
  PROVE  Amounts'
<1> USE DEF creator, canceler, worker, disk, history, account
<1>0. /\ \A q \in Requests : AmountsOf(q)
      /\ net \in [Requests -> Int]
      /\ UNCHANGED <<rpc, cpc, job, wpc, saved, delivered, gifted>>
      /\ leaked \subseteq leaked'
  BY DEF Amounts, TypeOK, Expire, Purge, Reap, RefundExpired, Sweep, Refund
<1>1. CASE Expire(p, R)
  <2>1. /\ net' = net
        /\ \A q \in R : status[q] \in Live /\ status'[q] = "error"
        /\ \A q \in Requests \ R : status'[q] = status[q] /\ (q \in leaked' <=> q \in leaked)
        /\ \A o \in Procs, q \in Requests :
             q \in reap'[o] <=> q \in reap[o] \/ (q \in reap'[p] /\ o = p)
        /\ \/ reap'[p] = R
           \/ reap'[p] = {} /\ \A q \in R : q \in leaked'
    BY <1>1 DEF Expire, ExpireRows, Expirable, CloseRows, Quiet, TypeOK
  <2>2. ASSUME NEW q \in R  PROVE AmountsOf(q)'
    <3>1. Bound(q) /\ (q \in reap'[p] => Bound(q)')
      BY <2>1, <2>2 DEF Bound
    <3> QED  BY <1>0, <2>1, <2>2, <3>1, KeepAmounts DEF Settling, Live
  <2>3. ASSUME NEW q \in Requests \ R  PROVE AmountsOf(q)'
    <3>1. Bound(q)' <=> Bound(q)
      BY <1>0, <2>1, <2>3 DEF Bound, Creates, Settles
    <3> QED  BY <1>0, <2>1, <2>3, <3>1, KeepAmounts DEF Settling
  <2> QED  BY <2>2, <2>3 DEF Amounts
<1>2. CASE Purge(p, R)
  <2>1. /\ net' = net /\ leaked' = leaked /\ reap' = reap
        /\ \A q \in R : status[q] \in Terminal /\ status'[q] = "deleted"
        /\ \A q \in Requests \ R : status'[q] = status[q]
    BY <1>2 DEF Purge, DeleteRows
  <2>2. ASSUME NEW q \in Requests  PROVE AmountsOf(q)'
    <3>1. Bound(q)' <=> Bound(q)
      BY <1>0, <2>1 DEF Bound, Creates, Settles, Live, Terminal
    <3> QED  BY <1>0, <2>1, <3>1, KeepAmounts DEF Settling, Live
  <2> QED  BY <2>2 DEF Amounts
<1>3. ASSUME NEW r \in Requests, RefundExpired(p, r)  PROVE Amounts'
  <2>1. /\ r \in reap[p] /\ reap' = [reap EXCEPT ![p] = @ \ {r}] /\ UNCHANGED status
        /\ \A q \in Requests \ {r} : net'[q] = net[q] /\ (q \in leaked' <=> q \in leaked)
        /\ \/ net'[r] = net[r] - Want[r] /\ leaked' = leaked
           \/ net'[r] = net[r] /\ r \in leaked'
    BY <1>0, <1>3, RefundAmounts, WantType DEF RefundExpired, table, TypeOK, Refund
  <2>2. ASSUME NEW q \in Requests, q # r  PROVE AmountsOf(q)'
    <3>1. \A o \in Procs : q \in reap'[o] <=> q \in reap[o]
      BY <2>1, <2>2 DEF TypeOK
    <3>2. Bound(q)' <=> Bound(q)
      BY <1>0, <2>1, <3>1 DEF Bound, Creates, Settles
    <3> QED  BY <1>0, <2>1, <2>2, <3>1, <3>2, KeepAmounts DEF Settling
  <2>3. AmountsOf(r)'
    <3>1. /\ Ended(r) /\ Bound(r) /\ delivered[r] = 0 /\ cpc[r] # "refund"
          /\ \A o \in Procs : r \notin reap'[o]
          /\ \A w \in Slots : ~Settles(w, r)
      BY <1>0, <2>1, OnlyCreatorLeft DEF AmountsOf, TypeOK
    <3>2. Creates(r) \/ ~Bound(r)'
      BY <1>0, <2>1, <3>1 DEF Bound, Creates, Settles, Ended
    <3> QED  BY <1>0, <2>1, <3>1, <3>2, WantType, FinalRefund DEF Owed
  <2> QED  BY <2>2, <2>3 DEF Amounts
<1>4. ASSUME NEW r \in Requests, Sweep(p, r)  PROVE Amounts'
  <2>1. UNCHANGED <<net, leaked, reap, status>>
    BY <1>4 DEF Sweep, table
  <2>2. ASSUME NEW q \in Requests  PROVE AmountsOf(q)'
    <3>1. Bound(q)' <=> Bound(q)
      BY <1>0, <2>1 DEF Bound, Creates, Settles
    <3> QED  BY <1>0, <2>1, <3>1, KeepAmounts DEF Settling
  <2> QED  BY <2>2 DEF Amounts
<1> QED  BY <1>1, <1>2, <1>3, <1>4 DEF Reap

LEMMA RunAmounts ==
  ASSUME TypeOK, RunsOK, Owed, Amounts, NEW w \in Slots, Run(w) \/ Heartbeat(w)
  PROVE  Amounts'
<1> USE DEF creator, canceler, reaper, disk, history, account
<1>0. /\ \A q \in Requests : AmountsOf(q)
      /\ net \in [Requests -> Int]
      /\ UNCHANGED <<rpc, cpc, reap, gifted>>
      /\ leaked \subseteq leaked'
  BY DEF Amounts, TypeOK, Run, Finish, Generate, Requeue, GiveUp, BeatBeforeSave, StoreImage,
         Complete, RefundTask, Settle, CleanTask, Heartbeat, Refund
<1>b. /\ GoTo(w, "refund") => /\ UNCHANGED <<job, saved>>
                             /\ wpc' = [wpc EXCEPT ![w] = "refund"]
      /\ GoTo(w, "store") => /\ UNCHANGED <<job, saved>>
                            /\ wpc' = [wpc EXCEPT ![w] = "store"]
      /\ BecomeIdle(w) => /\ \A v \in Slots \ {w} : /\ job'[v] = job[v] /\ wpc'[v] = wpc[v]
                                                    /\ saved'[v] = saved[v]
                          /\ wpc'[w] = "idle" /\ job'[w] = NoTask /\ NoTask \notin Requests
  BY ImageTasksAssumption DEF GoTo, BecomeIdle, TypeOK
<1>r. PICK r : r = job[w]
  OBVIOUS
<1>k. ASSUME UNCHANGED <<net, delivered>>, wpc[w] \notin {"refund", "settle"},
             \A q \in Requests : status'[q] = status[q] \/ {status[q], status'[q]} \subseteq Live,
             \A v \in Slots \ {w} : job'[v] = job[v] /\ wpc'[v] = wpc[v] /\ saved'[v] = saved[v],
             wpc'[w] \notin {"refund", "settle"}
      PROVE  Amounts'
  <2>1. ASSUME NEW q \in Requests  PROVE AmountsOf(q)'
    <3>1. \A v \in Slots : Settles(v, q)' <=> Settles(v, q)
      BY <1>k DEF Settles
    <3>2. Bound(q)' <=> Bound(q)
      BY <1>0, <1>k, <3>1 DEF Bound, Creates, Live
    <3> QED  BY <1>0, <1>k, <3>2, KeepAmounts DEF Settling, Live
  <2> QED  BY <2>1 DEF Amounts
<1>1. ASSUME NEW k \in 1..4, Generate(w, k)  PROVE Amounts'
  BY <1>1, <1>k DEF Generate, table, TypeOK
<1>2. CASE Requeue(w)
  <2>1. \A q \in Requests : status'[q] = status[q] \/ {status[q], status'[q]} \subseteq Live
    BY <1>2 DEF Requeue, RequeueRow, HeldBy, table, Live, TypeOK, TableTypeOK
  <2> QED  BY <1>2, <1>b, <1>k, <2>1 DEF Requeue
<1>3. CASE BeatBeforeSave(w)
  <2>1. status' = status
    BY <1>3 DEF BeatBeforeSave, RenewRow, table
  <2> QED  BY <1>3, <1>b, <1>k, <2>1 DEF BeatBeforeSave, TypeOK
<1>4. CASE StoreImage(w)
  BY <1>4, <1>k DEF StoreImage, table, TypeOK
<1>5. CASE Heartbeat(w)
  <2>1. UNCHANGED <<net, delivered, status, job, wpc, saved, leaked>>
    BY <1>5 DEF Heartbeat, RenewRow, worker
  <2>2. ASSUME NEW q \in Requests  PROVE AmountsOf(q)'
    <3>1. Bound(q)' <=> Bound(q)
      BY <1>0, <2>1 DEF Bound, Creates, Settles
    <3> QED  BY <1>0, <2>1, <3>1, KeepAmounts DEF Settling
  <2> QED  BY <2>2 DEF Amounts
<1>6. CASE GiveUp(w)
  <2>1. /\ r \in Requests /\ wpc[w] \notin {"refund", "settle"} /\ UNCHANGED <<net, delivered>>
    BY <1>6, <1>r DEF GiveUp, RunsOK
  <2>2. FailRow(r, w) => /\ status[r] \in Live /\ status'[r] = "error"
                         /\ \A q \in Requests \ {r} : status'[q] = status[q]
    BY <2>1 DEF FailRow, CloseRows
  <2>3. CASE UNCHANGED table /\ BecomeIdle(w)
    BY <2>1, <2>3, <1>b, <1>k DEF table
  <2>4. CASE /\ FailRow(r, w)
             /\ \/ leaked' = leaked \cup {r} /\ BecomeIdle(w)
                \/ leaked' = leaked /\ GoTo(w, "refund")
    <3>1. ASSUME NEW q \in Requests, q # r  PROVE AmountsOf(q)'
      <4>1. \A v \in Slots : /\ Settling(v, q, "refund")' <=> Settling(v, q, "refund")
                             /\ Settling(v, q, "settle")' <=> Settling(v, q, "settle")
                             /\ Settling(v, q, "settle") => saved'[v] = saved[v]
                             /\ Settles(v, q)' <=> Settles(v, q)
        BY <2>1, <2>4, <3>1, <1>b, <1>r DEF Settling, Settles, TypeOK
      <4>2. Bound(q)' <=> Bound(q)
        BY <1>0, <2>2, <2>4, <3>1, <4>1 DEF Bound, Creates
      <4> QED  BY <1>0, <2>1, <2>2, <2>4, <3>1, <4>1, <4>2, KeepAmounts
    <3>2. AmountsOf(r)'
      <4>1. Bound(r) /\ (Bound(r)' \/ r \in leaked')
        BY <2>1, <2>2, <2>4, <1>b, <1>r DEF Bound, Settles, TypeOK
      <4>2. \A v \in Slots : Settling(v, r, "settle")' => Settling(v, r, "settle") /\ saved'[v] = saved[v]
        BY <2>1, <2>4, <1>b, <1>r DEF Settling, TypeOK
      <4> QED  BY <1>0, <2>1, <2>2, <2>4, <4>1, <4>2, KeepAmounts DEF Live
    <3> QED  BY <3>1, <3>2 DEF Amounts
  <2> QED  BY <1>6, <1>r, <2>3, <2>4 DEF GiveUp
<1>7. CASE Complete(w)
  <2>1. /\ r \in Requests /\ wpc[w] = "complete" /\ UNCHANGED net
        /\ saved[w] \in Nat /\ saved[w] <= Want[r] /\ Want[r] \in Nat
    BY <1>7, <1>r, WantType DEF Complete, RunsOK, TypeOK
  <2>2. CompleteRow(r, w) => /\ status[r] \in Live /\ status'[r] = "success"
                             /\ \A q \in Requests \ {r} : status'[q] = status[q]
    BY <2>1 DEF CompleteRow, HeldBy, CloseRows, Live
  <2>3. CASE UNCHANGED <<table, delivered>> /\ BecomeIdle(w)
    BY <2>1, <2>3, <1>b, <1>k DEF table
  <2>4. CASE CompleteRow(r, w) /\ delivered' = delivered /\ leaked' = leaked \cup {r} /\ BecomeIdle(w)
    <3>1. ASSUME NEW q \in Requests  PROVE AmountsOf(q)'
      <4>1. \A v \in Slots : /\ Settling(v, q, "refund")' <=> Settling(v, q, "refund")
                             /\ Settling(v, q, "settle")' <=> Settling(v, q, "settle")
                             /\ Settling(v, q, "settle") => saved'[v] = saved[v]
                             /\ Settles(v, q)' <=> Settles(v, q)
        BY <2>1, <2>4, <3>1, <1>b DEF Settling, Settles, TypeOK
      <4>2. /\ Bound(q)' => Bound(q)
            /\ q \notin leaked' /\ Bound(q) => Bound(q)'
        BY <1>0, <2>2, <2>4, <3>1, <4>1 DEF Bound, Creates, Live
      <4> QED  BY <1>0, <2>1, <2>2, <2>4, <3>1, <4>1, <4>2, KeepAmounts DEF Live
    <3> QED  BY <3>1 DEF Amounts
  <2>5. CASE /\ CompleteRow(r, w) /\ leaked' = leaked
             /\ delivered' = [delivered EXCEPT ![r] = saved[w]]
             /\ GoTo(w, IF saved[w] < Want[r] THEN "settle" ELSE "clean")
    <3>0. /\ UNCHANGED <<job, saved>>
          /\ wpc' = [wpc EXCEPT ![w] = IF saved[w] < Want[r] THEN "settle" ELSE "clean"]
      BY <2>5 DEF GoTo
    <3>1. ASSUME NEW q \in Requests, q # r  PROVE AmountsOf(q)'
      <4>1. \A v \in Slots : /\ Settling(v, q, "refund")' <=> Settling(v, q, "refund")
                             /\ Settling(v, q, "settle")' <=> Settling(v, q, "settle")
                             /\ Settles(v, q)' <=> Settles(v, q)
        BY <2>1, <3>0, <3>1, <1>r DEF Settling, Settles, TypeOK
      <4>2. Bound(q)' <=> Bound(q)
        BY <1>0, <2>2, <2>5, <3>1, <4>1 DEF Bound, Creates
      <4>3. delivered'[q] = delivered[q]
        BY <2>5, <3>1 DEF TypeOK
      <4> QED  BY <1>0, <2>1, <2>2, <2>5, <3>0, <3>1, <4>1, <4>2, <4>3, KeepAmounts
    <3>2. AmountsOf(r)'
      <4>1. /\ Bound(r) /\ delivered'[r] = saved[w]
            /\ cpc[r] # "refund" /\ \A p \in Procs : r \notin reap[p]
            /\ \A v \in Slots : ~Settles(v, r)
        BY <2>1, <2>2, <2>5 DEF Bound, Owed, SettledLate, Ended, TypeOK
      <4>2. \A v \in Slots : ~Settling(v, r, "refund")' /\ (Settling(v, r, "settle")' => v = w)
        BY <2>1, <3>0, <4>1 DEF Settling, Settles, TypeOK
      <4>3. /\ Bound(r)' \/ saved[w] = Want[r]
            /\ rpc[r] \notin {"lookup", "consume"}
            /\ net[r] <= Want[r] /\ net[r] \in Int
            /\ r \notin gifted => net[r] = Want[r]
        <5>1. saved[w] < Want[r] => Settles(w, r)'
          BY <2>1, <3>0, <1>r DEF Settles, TypeOK
        <5>2. Bound(r)' \/ saved[w] = Want[r]
          BY <2>1, <5>1 DEF Bound
        <5>3. rpc[r] \notin {"lookup", "consume"}
          BY <2>1, <2>2, <2>5 DEF Owed, SettledLate, Live
        <5> QED  BY <1>0, <2>1, <4>1, <5>2, <5>3 DEF AmountsOf, TypeOK
      <4> QED  BY <1>0, <2>1, <2>2, <2>5, <3>0, <4>1, <4>2, <4>3 DEF AmountsOf, Live
    <3> QED  BY <3>1, <3>2 DEF Amounts
  <2> QED  BY <1>7, <1>r, <2>3, <2>4, <2>5 DEF Complete
<1>8. CASE RefundTask(w) \/ Settle(w)
  <2>1. /\ r \in Requests /\ Settles(w, r) /\ wpc' = [wpc EXCEPT ![w] = "clean"]
        /\ UNCHANGED <<job, saved, status, delivered>>
    BY <1>8, <1>r DEF RefundTask, Settle, RunsOK, Settles, GoTo, table
  <2>2. /\ \A q \in Requests \ {r} : net'[q] = net[q] /\ (q \in leaked' <=> q \in leaked)
        /\ \/ net'[r] = net[r] - (Want[r] - delivered[r]) /\ leaked' = leaked
           \/ net'[r] = net[r] /\ r \in leaked'
    <3>1. CASE RefundTask(w)
      <4>1. delivered[r] = 0 /\ Want[r] \in Nat
        BY <1>0, <1>r, <2>1, <3>1, WantType DEF RefundTask, AmountsOf, Settling
      <4> QED  BY <1>r, <2>1, <3>1, <4>1 DEF RefundTask, Refund, TypeOK
    <3>2. CASE Settle(w)
      <4>1. delivered[r] = saved[w] /\ Want[r] \in Nat
        BY <1>0, <1>r, <2>1, <3>2, WantType DEF Settle, AmountsOf, Settling
      <4> QED  BY <1>r, <2>1, <3>2, <4>1 DEF Settle, Refund, TypeOK
    <3> QED  BY <1>8, <3>1, <3>2
  <2>3. ASSUME NEW q \in Requests, q # r  PROVE AmountsOf(q)'
    <3>1. \A v \in Slots : /\ Settling(v, q, "refund")' <=> Settling(v, q, "refund")
                           /\ Settling(v, q, "settle")' <=> Settling(v, q, "settle")
                           /\ Settles(v, q)' <=> Settles(v, q)
      BY <2>1, <2>3 DEF Settling, Settles, TypeOK
    <3>2. Bound(q)' <=> Bound(q)
      BY <1>0, <2>1, <3>1 DEF Bound, Creates
    <3> QED  BY <1>0, <2>1, <2>2, <2>3, <3>1, <3>2, KeepAmounts
  <2>4. AmountsOf(r)'
    <3>1. /\ Ended(r) /\ Bound(r) /\ cpc[r] # "refund"
          /\ \A p \in Procs : r \notin reap[p]
          /\ \A v \in Slots \ {w} : ~Settles(v, r)
      BY <2>1, OnlyCreatorLeft
    <3>2. Creates(r) \/ ~Bound(r)'
      BY <1>0, <2>1, <3>1 DEF Bound, Creates, Settles, Ended, TypeOK
    <3> QED  BY <1>0, <2>1, <2>2, <3>1, <3>2, FinalRefund DEF Owed, TypeOK
  <2> QED  BY <2>3, <2>4 DEF Amounts
<1>9. CASE CleanTask(w)
  BY <1>9, <1>b, <1>k DEF CleanTask, table, TypeOK
<1> QED  BY <1>1, <1>2, <1>3, <1>4, <1>5, <1>6, <1>7, <1>8, <1>9 DEF Run, Finish

LEMMA ClaimAmounts ==
  ASSUME TypeOK, RunsOK, Amounts, NEW w \in Slots, NEW r \in Requests, Claim(w, r)
  PROVE  Amounts'
<1>1. /\ status[r] \in Live /\ status' = [status EXCEPT ![r] = "running"]
      /\ UNCHANGED <<rpc, cpc, reap, gifted, delivered, net, leaked>>
  BY DEF Claim, ClaimRow, Claimable, Live, creator, canceler, reaper, history, account
<1>2. \A q \in Requests, v \in Slots :
         /\ Settling(v, q, "refund")' <=> Settling(v, q, "refund")
         /\ Settling(v, q, "settle")' <=> Settling(v, q, "settle")
         /\ Settles(v, q)' <=> Settles(v, q)
  BY DEF Claim, Settling, Settles, worker, TypeOK
<1>3. saved' = saved
  BY DEF Claim, worker
<1>4. ASSUME NEW q \in Requests  PROVE AmountsOf(q)'
  <2>1. status'[q] = status[q] \/ {status[q], status'[q]} \subseteq Live
    BY <1>1 DEF Live, TypeOK, TableTypeOK
  <2>2. Bound(q)' <=> Bound(q)
    BY <1>1, <1>2, <2>1 DEF Bound, Creates, Live
  <2> QED  BY <1>1, <1>2, <1>3, <2>1, <2>2, KeepAmounts DEF Amounts, Live
<1> QED  BY <1>4 DEF Amounts

LEMMA CrashAmounts ==
  ASSUME TypeOK, Owed, Amounts, CrashAPI \/ \E p \in Procs : CrashWorker(p)
  PROVE  Amounts'
<1> USE DEF worker, creator, canceler, reaper, account
<1>1. CASE CrashAPI
  <2>1. /\ UNCHANGED <<status, job, wpc, saved, reap, delivered, net, gifted>>
        /\ \A q \in Requests : /\ rpc'[q] = "lookup" => rpc[q] = "lookup"
                               /\ rpc'[q] \in {"lookup", "done"}
                               /\ cpc'[q] = "none"
                               /\ Creates(q) \/ cpc[q] = "refund" => q \in leaked'
        /\ leaked \subseteq leaked'
    BY <1>1 DEF CrashAPI, Creates, table
  <2>2. ASSUME NEW q \in Requests  PROVE AmountsOf(q)'
    <3>1. /\ Bound(q)' => Bound(q)
          /\ q \notin leaked' /\ Bound(q) => Bound(q)'
      BY <2>1 DEF Bound, Creates, Settles
    <3> QED  BY <2>1, <3>1, KeepAmounts DEF Amounts, Settling
  <2> QED  BY <2>2 DEF Amounts
<1>2. ASSUME NEW p \in Procs, CrashWorker(p)  PROVE Amounts'
  <2>1. /\ UNCHANGED <<status, rpc, cpc, delivered, net, gifted>>
        /\ leaked \subseteq leaked'
        /\ \A q \in Requests, o \in Procs : q \in reap'[o] => q \in reap[o]
        /\ \A q \in Requests, o \in Procs : q \in reap[o] => q \in reap'[o] \/ q \in leaked'
    BY <1>2 DEF CrashWorker, table, TypeOK
  <2>2. \A v \in Slots : \/ wpc'[v] = wpc[v] /\ job'[v] = job[v] /\ saved'[v] = saved[v]
                         \/ wpc'[v] = "idle"
    BY <1>2 DEF CrashWorker
  <2>3. \A v \in Slots, q \in Requests : Settles(v, q) => Settles(v, q)' \/ q \in leaked'
    BY <1>2 DEF CrashWorker, Settles
  <2>4. ASSUME NEW q \in Requests  PROVE AmountsOf(q)'
    <3>1. \A v \in Slots : /\ Settling(v, q, "refund")' => Settling(v, q, "refund")
                           /\ Settling(v, q, "settle")' =>
                                Settling(v, q, "settle") /\ saved'[v] = saved[v]
                           /\ Settles(v, q)' => Settles(v, q)
      BY <2>2 DEF Settling, Settles
    <3>2. /\ Bound(q)' => Bound(q)
          /\ q \notin leaked' /\ Bound(q) => Bound(q)'
      BY <2>1, <2>3, <3>1 DEF Bound, Creates
    <3> QED  BY <2>1, <3>1, <3>2, KeepAmounts DEF Amounts
  <2> QED  BY <2>4 DEF Amounts
<1> QED  BY <1>1, <1>2

LEMMA NextAmounts ==
  ASSUME TypeOK, RunsOK, Owed, Amounts, [Next]_vars
  PROVE  Amounts'
<1>1. CASE UNCHANGED vars
  BY <1>1 DEF vars, table, creator, canceler, worker, reaper, history, account, Amounts,
              AmountsOf, Bound, Creates, Settles, Settling
<1>2. CASE Next
  <2>1. Rest => UNCHANGED vars
    BY DEF Rest
  <2> QED  BY <1>1, <1>2, <2>1, CreateAmounts, CancelAmounts, RunAmounts, ClaimAmounts,
              ReaperAmounts, CrashAmounts DEF Next
<1> QED  BY <1>1, <1>2

-----------------------------------------------------------------------------
(* The theorems.                                                           *)

LEMMA InitIInv == Init => IInv
<1> SUFFICES ASSUME Init PROVE IInv
  OBVIOUS
<1>1. TypeOK /\ RunsOK
  BY InitTypeOK DEF Init, RunsOK
<1>2. \A r \in Requests : ~Bound(r)
  BY ImageTasksAssumption DEF Init, TableInit, Bound, Creates, Live, Settles
<1>3. SettledLate /\ SettledOnce
  BY ImageTasksAssumption DEF Init, TableInit, SettledLate, SettledOnce, Settles
<1>4. ASSUME NEW r \in Requests  PROVE AmountsOf(r)
  <2>1. net[r] = 0 /\ delivered[r] = 0 /\ 0 <= Want[r]
    BY WantType DEF Init
  <2>2. /\ cpc[r] # "refund" /\ \A p \in Procs : reap[p] = {}
        /\ \A w \in Slots : wpc[w] = "idle"
    BY DEF Init
  <2> QED  BY <1>2, <2>1, <2>2 DEF AmountsOf, Settling
<1> QED  BY <1>1, <1>3, <1>4 DEF IInv, Amounts

LEMMA NextIInv == IInv /\ [Next]_vars => IInv'
  BY NextTypeOK, NextRunsOK, NextOwed, NextAmounts DEF IInv, Owed

(* The invariant that the theorems below follow from.                      *)
THEOREM Inductive == Spec => []IInv
  BY InitIInv, NextIInv, PTL DEF Spec

(* The settlers of the properties are those of the invariant.              *)
LEMMA SettlersBound ==
  ASSUME NEW r \in Requests
  PROVE  Settlers(r) # {} <=> Bound(r)
<1>1. /\ Creates(r) => <<"creator", r>> \in Settlers(r)
      /\ status[r] \in Live => <<"row", r>> \in Settlers(r)
      /\ cpc[r] = "refund" => <<"canceler", r>> \in Settlers(r)
      /\ \A p \in Procs : r \in reap[p] => <<"reaper", p>> \in Settlers(r)
      /\ \A w \in Slots : Settles(w, r) => <<"worker", w>> \in Settlers(r)
  BY DEF Settlers, Creates, Settles
<1>2. \A a \in Settlers(r) : Bound(r)
  BY DEF Settlers, Bound, Creates, Settles
<1> QED  BY <1>1, <1>2 DEF Bound

LEMMA Settled ==
  ASSUME IInv
  PROVE  NeverOverRefunded /\ NeverOverCharged /\ OneSettler
<1>1. ASSUME NEW r \in Requests, r \notin gifted  PROVE net[r] >= Due(r)
  BY <1>1, SettlersBound, WantType DEF IInv, Amounts, AmountsOf, Due
<1>2. ASSUME NEW r \in Requests, r \notin leaked  PROVE net[r] <= Due(r)
  BY <1>2, SettlersBound, WantType DEF IInv, Amounts, AmountsOf, Due
<1>3. ASSUME NEW r \in Requests, r \notin gifted, NEW a \in Settlers(r), NEW b \in Settlers(r)
      PROVE  a = b
  <2>1. Owed
    BY DEF IInv, Owed
  <2>2. /\ Creates(r) => status[r] = "absent"
        /\ \A w \in Slots : Settles(w, r) => Ended(r)
        /\ \A p \in Procs : r \in reap[p] => Ended(r)
        /\ cpc[r] = "refund" => Ended(r)
    BY <1>3, <2>1 DEF Owed, SettledLate, Creates
  <2>3. \/ a = <<"creator", r>> /\ Creates(r)
        \/ a = <<"row", r>> /\ status[r] \in Live
        \/ a = <<"canceler", r>> /\ cpc[r] = "refund"
        \/ \E p \in Procs : a = <<"reaper", p>> /\ r \in reap[p]
        \/ \E w \in Slots : a = <<"worker", w>> /\ Settles(w, r)
    BY DEF Settlers, Creates, Settles
  <2>4. \/ b = <<"creator", r>> /\ Creates(r)
        \/ b = <<"row", r>> /\ status[r] \in Live
        \/ b = <<"canceler", r>> /\ cpc[r] = "refund"
        \/ \E p \in Procs : b = <<"reaper", p>> /\ r \in reap[p]
        \/ \E w \in Slots : b = <<"worker", w>> /\ Settles(w, r)
    BY DEF Settlers, Creates, Settles
  <2>5. CASE Creates(r) \/ status[r] \in Live
    BY <2>2, <2>3, <2>4, <2>5 DEF Ended, Live
  <2>6. CASE ~Creates(r) /\ status[r] \notin Live
    BY <2>1, <2>3, <2>4, <2>6 DEF Owed, SettledOnce
  <2> QED  BY <2>5, <2>6
<1> QED  BY <1>1, <1>2, <1>3 DEF NeverOverRefunded, NeverOverCharged, OneSettler

(* No sequence of claims, lapses, cancels, expiries, crashes and lost      *)
(* replies refunds a request twice or while it can still deliver, unless   *)
(* the charge itself was lost (gifted).                                    *)
THEOREM RefundSafety == Spec => []NeverOverRefunded
  BY Inductive, Settled, PTL

(* A user pays for no more than what was delivered, unless a fault hit the *)
(* settlement itself (leaked).                                             *)
THEOREM ChargeSafety == Spec => []NeverOverCharged
  BY Inductive, Settled, PTL

(* At any time at most one actor is responsible for settling a request.    *)
THEOREM SettlerUnique == Spec => []OneSettler
  BY Inductive, Settled, PTL

(* A step that gives images back deals with a row that has ended, or with  *)
(* a request that never got one.                                           *)
THEOREM RefundsLate == Spec => RefundOnlyWhenEnded
<1>1. ASSUME IInv, [Next]_vars, NEW r \in Requests, net'[r] < net[r], r \notin gifted
      PROVE  status[r] \notin Live
  <2>1. SettledLate /\ TypeOK /\ RunsOK
    BY <1>1 DEF IInv
  <2>2. net[r] \in Int
    BY <2>1 DEF TypeOK
  <2>3. \/ RefundRequest(r) \/ RefundCanceled(r)
        \/ \E w \in Slots : (RefundTask(w) \/ Settle(w)) /\ job[w] = r
        \/ \E p \in Procs : RefundExpired(p, r)
    <3>1. ASSUME UNCHANGED net  PROVE FALSE
      BY <1>1, <2>2, <3>1
    <3>2. ASSUME NEW q \in Requests, Create(q)  PROVE q = r /\ RefundRequest(r)
      BY <1>1, <2>1, <2>2, <3>2, <3>1, WantType
      DEF Create, Lookup, Consume, SaveInputs, Insert, RefundRequest, CleanRequest, Refund,
          account, TypeOK
    <3>3. ASSUME NEW q \in Requests, Cancel(q) \/ FinishCancel(q) \/ Tick(q)
          PROVE  q = r /\ RefundCanceled(r)
      BY <1>1, <2>1, <2>2, <3>3, <3>1
      DEF Cancel, FinishCancel, RefundCanceled, CleanCanceled, Tick, Refund, account, TypeOK
    <3>4. ASSUME NEW w \in Slots, Run(w)
          PROVE  (RefundTask(w) \/ Settle(w)) /\ job[w] = r
      <4>1. RefundTask(w) \/ Settle(w)
        BY <3>1, <3>4 DEF Run, Finish, Generate, Requeue, GiveUp, BeatBeforeSave, StoreImage,
                          Complete, CleanTask, account
      <4> QED  BY <1>1, <2>1, <2>2, <3>1, <4>1 DEF RefundTask, Settle, Refund, account, TypeOK
    <3>5. ASSUME NEW w \in Slots, Heartbeat(w) \/ \E q \in Requests : Claim(w, q)  PROVE FALSE
      BY <3>1, <3>5 DEF Heartbeat, Claim, account
    <3>6. ASSUME NEW p \in Procs, Reap(p)  PROVE RefundExpired(p, r)
      BY <1>1, <2>1, <2>2, <3>1, <3>6 DEF Reap, RefundExpired, Sweep, Refund, account, TypeOK
    <3>7. ASSUME NEW p \in Procs, NEW R \in SUBSET Requests,
                 CrashWorker(p) \/ Expire(p, R) \/ Purge(p, R)
          PROVE  FALSE
      BY <3>1, <3>7 DEF CrashWorker, Expire, Purge, account
    <3>8. ASSUME CrashAPI \/ Rest \/ UNCHANGED vars  PROVE FALSE
      BY <3>1, <3>8 DEF CrashAPI, Rest, vars, account
    <3>9. \A p \in Procs : CrashWorker(p) => FALSE
      BY <3>1 DEF CrashWorker, account
    <3> QED  BY <1>1, <3>2, <3>3, <3>4, <3>5, <3>6, <3>7, <3>8, <3>9 DEF Next
  <2>4. CASE RefundRequest(r)
    BY <1>1, <2>1, <2>4 DEF RefundRequest, SettledLate, Live
  <2>5. CASE RefundCanceled(r)
    BY <2>1, <2>5 DEF RefundCanceled, SettledLate, Ended
  <2>6. ASSUME NEW w \in Slots, RefundTask(w) \/ Settle(w), job[w] = r
        PROVE  status[r] \notin Live
    BY <2>1, <2>6 DEF RefundTask, Settle, SettledLate, Settles, Ended
  <2>7. ASSUME NEW p \in Procs, RefundExpired(p, r)  PROVE status[r] \notin Live
    BY <2>1, <2>7 DEF RefundExpired, SettledLate, Ended
  <2> QED  BY <2>3, <2>4, <2>5, <2>6, <2>7
<1>2. IInv /\ [Next]_vars =>
        [\A r \in Requests : net'[r] < net[r] /\ r \notin gifted => status[r] \notin Live]_vars
  BY <1>1
<1> QED  BY Inductive, <1>2, PTL DEF Spec, RefundOnlyWhenEnded

-----------------------------------------------------------------------------
(* The service implements the contract of TaskContract.  What the contract *)
(* sees of a request, in terms of the invariant.                           *)

Phase(r) ==
  IF r \in gifted THEN "free"
  ELSE IF Bound(r) THEN "open"
  ELSE IF rpc[r] \in {"lookup", "consume"} THEN "none" ELSE "closed"
CostOf(r)   == IF r \in gifted THEN 0 ELSE net[r]
ResultOf(r) == IF r \in gifted THEN 0 ELSE delivered[r]

(* The moves of the contract, for one request.                             *)
Same(r) ==
  Phase(r)' = Phase(r) /\ CostOf(r)' = CostOf(r) /\ ResultOf(r)' = ResultOf(r)
Closes(r) ==
  /\ Phase(r) \in {"none", "open"} /\ Phase(r)' = "closed"
  /\ CostOf(r)' = CostOf(r) /\ ResultOf(r)' = ResultOf(r)
Accepted(r) ==
  /\ Phase(r) = "none" /\ Phase(r)' = "open"
  /\ CostOf(r)' = Want[r] /\ ResultOf(r)' = ResultOf(r)
Repaid(r) ==
  /\ Phase(r) = "open" /\ Phase(r)' = "closed"
  /\ CostOf(r)' = ResultOf(r) /\ ResultOf(r)' = ResultOf(r)
Delivers(r) ==
  /\ Phase(r) = "open" /\ ResultOf(r) = 0
  /\ ResultOf(r)' \in 1..Want[r]
  /\ Phase(r)' = IF ResultOf(r)' < Want[r] THEN "open" ELSE "closed"
  /\ CostOf(r)' = CostOf(r)
Gifts(r) ==
  /\ Phase(r) \in {"none", "open"} /\ Phase(r)' = "free"
  /\ CostOf(r)' = 0 /\ ResultOf(r)' = 0

LEMMA PhaseIs == \A r \in Requests : PhaseOf(r) = Phase(r)
  BY SettlersBound DEF PhaseOf, Phase, Creates

(* The variables of the contract.                                          *)
LEMMA SeenIs ==
  /\ [r \in Requests |-> PhaseOf(r)] = [r \in Requests |-> Phase(r)]
  /\ [r \in Requests |-> IF r \in gifted THEN 0 ELSE net[r]] = [r \in Requests |-> CostOf(r)]
  /\ [r \in Requests |-> IF r \in gifted THEN 0 ELSE delivered[r]]
       = [r \in Requests |-> ResultOf(r)]
  BY PhaseIs DEF CostOf, ResultOf

LEMMA SeenNext ==
  /\ [r \in Requests |-> PhaseOf(r)]' = [r \in Requests |-> Phase(r)']
  /\ [r \in Requests |-> IF r \in gifted THEN 0 ELSE net[r]]'
       = [r \in Requests |-> CostOf(r)']
  /\ [r \in Requests |-> IF r \in gifted THEN 0 ELSE delivered[r]]'
       = [r \in Requests |-> ResultOf(r)']
<1>1. (\A r \in Requests : PhaseOf(r) = Phase(r))'
  BY PhaseIs, PTL
<1> QED  BY <1>1 DEF CostOf, ResultOf

(* They change where the one request that moves changes.                   *)
LEMMA OneMoves ==
  ASSUME NEW r \in Requests, \A q \in Requests \ {r} : Same(q)
  PROVE  /\ [q \in Requests |-> PhaseOf(q)]' =
              [[q \in Requests |-> PhaseOf(q)] EXCEPT ![r] = Phase(r)']
         /\ [q \in Requests |-> IF q \in gifted THEN 0 ELSE net[q]]' =
              [[q \in Requests |-> IF q \in gifted THEN 0 ELSE net[q]]
                 EXCEPT ![r] = CostOf(r)']
         /\ [q \in Requests |-> IF q \in gifted THEN 0 ELSE delivered[q]]' =
              [[q \in Requests |-> IF q \in gifted THEN 0 ELSE delivered[q]]
                 EXCEPT ![r] = ResultOf(r)']
         /\ CostOf(r)' = CostOf(r) =>
              UNCHANGED [q \in Requests |-> IF q \in gifted THEN 0 ELSE net[q]]
         /\ ResultOf(r)' = ResultOf(r) =>
              UNCHANGED [q \in Requests |-> IF q \in gifted THEN 0 ELSE delivered[q]]
<1>1. /\ [q \in Requests |-> Phase(q)'] =
           [[q \in Requests |-> Phase(q)] EXCEPT ![r] = Phase(r)']
      /\ [q \in Requests |-> CostOf(q)'] =
           [[q \in Requests |-> CostOf(q)] EXCEPT ![r] = CostOf(r)']
      /\ [q \in Requests |-> ResultOf(q)'] =
           [[q \in Requests |-> ResultOf(q)] EXCEPT ![r] = ResultOf(r)']
  BY DEF Same
<1>2. /\ CostOf(r)' = CostOf(r) =>
           [q \in Requests |-> CostOf(q)'] = [q \in Requests |-> CostOf(q)]
      /\ ResultOf(r)' = ResultOf(r) =>
           [q \in Requests |-> ResultOf(q)'] = [q \in Requests |-> ResultOf(q)]
  BY DEF Same
<1> QED  BY <1>1, <1>2, SeenIs, SeenNext

LEMMA NothingSeen ==
  ASSUME \A q \in Requests : Same(q), UNCHANGED faults
  PROVE  UNCHANGED Contract!contract
  BY SeenIs, SeenNext DEF Contract!contract, Same

LEMMA FaultSeen ==
  ASSUME Fault, \A q \in Requests : Same(q) \/ Closes(q)
  PROVE  Contract!Next
<1> DEFINE R == {q \in Requests : ~Same(q)}
<1>1. R \in SUBSET Requests /\ \A q \in R : Closes(q)
  OBVIOUS
<1>2. Contract!Fail(R)
  BY <1>1, SeenIs, SeenNext DEF Contract!Fail, Fault, Same, Closes
<1> QED  BY <1>1, <1>2 DEF Contract!Next

LEMMA GiftSeen ==
  ASSUME NEW r \in Requests, \A q \in Requests \ {r} : Same(q), Fault, Gifts(r)
  PROVE  Contract!Next
<1>1. Contract!Gift(r)
  BY OneMoves, SeenIs DEF Contract!Gift, Fault, Gifts
<1> QED  BY <1>1 DEF Contract!Next

LEMMA OneSeen ==
  ASSUME NEW r \in Requests, \A q \in Requests \ {r} : Same(q), UNCHANGED faults,
         \/ Same(r) \/ Accepted(r) \/ Repaid(r) \/ Delivers(r)
         \/ Phase(r) = "none" /\ Closes(r)
  PROVE  Contract!Next \/ UNCHANGED Contract!contract
<1>1. CASE Same(r)
  BY <1>1, NothingSeen
<1>2. CASE Accepted(r)
  <2>1. Contract!Accept(r)
    BY <1>2, OneMoves, SeenIs DEF Contract!Accept, Accepted
  <2> QED  BY <2>1 DEF Contract!Next
<1>3. CASE Repaid(r)
  <2>1. Contract!Settle(r)
    BY <1>3, OneMoves, SeenIs DEF Contract!Settle, Repaid, ResultOf
  <2> QED  BY <2>1 DEF Contract!Next
<1>4. CASE Delivers(r)
  <2>1. PICK k \in 1..Want[r] : k = ResultOf(r)'
    BY <1>4 DEF Delivers
  <2>2. Contract!Deliver(r, k)
    BY <1>4, <2>1, OneMoves, SeenIs DEF Contract!Deliver, Delivers
  <2> QED  BY <2>2 DEF Contract!Next
<1>5. CASE Phase(r) = "none" /\ Closes(r)
  <2>1. Contract!Refuse(r)
    BY <1>5, OneMoves, SeenIs DEF Contract!Refuse, Closes
  <2> QED  BY <2>1 DEF Contract!Next
<1> QED  BY <1>1, <1>2, <1>3, <1>4, <1>5

-----------------------------------------------------------------------------
(* When a request looks the same, or is closed.                            *)

Early(r) == rpc[r] \in {"lookup", "consume"}

LEMMA Unseen ==
  ASSUME NEW q \in Requests, net'[q] = net[q], delivered'[q] = delivered[q],
         q \in gifted' <=> q \in gifted, Bound(q)' <=> Bound(q), Early(q)' <=> Early(q)
  PROVE  Same(q)
  BY DEF Same, Phase, CostOf, ResultOf, Early

LEMMA Fewer ==
  ASSUME IInv, NEW q \in Requests, net'[q] = net[q], delivered'[q] = delivered[q],
         q \in gifted' <=> q \in gifted, Bound(q)' => Bound(q), Early(q)' => Early(q)
  PROVE  Same(q) \/ Closes(q)
<1>1. Early(q) => ~Bound(q)
  BY DEF IInv, SettledLate, Early, Bound, Creates, Ended, Live
<1> QED  BY <1>1 DEF Same, Closes, Phase, CostOf, ResultOf, Early

(* A request whose charge was lost is free for good.                       *)
LEMMA FreeStays ==
  ASSUME NEW q \in Requests, q \in gifted, gifted \subseteq gifted'
  PROVE  Same(q)
  BY DEF Same, Phase, CostOf, ResultOf

LEMMA Untouched ==
  ASSUME NEW q \in Requests, net'[q] = net[q], delivered'[q] = delivered[q],
         q \in gifted' <=> q \in gifted, rpc'[q] = rpc[q],
         status'[q] = status[q] \/ {status[q], status'[q]} \subseteq Live,
         cpc'[q] = "refund" <=> cpc[q] = "refund",
         \A p \in Procs : q \in reap'[p] <=> q \in reap[p],
         \A w \in Slots : Settles(w, q)' <=> Settles(w, q)
  PROVE  Same(q)
<1>1. (Bound(q)' <=> Bound(q)) /\ (Early(q)' <=> Early(q))
  BY DEF Bound, Creates, Early
<1> QED  BY <1>1, Unseen

(* The last one bound to a request returns what was not delivered.         *)
LEMMA Refunded ==
  ASSUME IInv, NEW r \in Requests, UNCHANGED <<delivered, gifted>>, r \notin gifted,
         Bound(r), ~Bound(r)', ~Early(r)',
         net'[r] = net[r] - (Want[r] - delivered[r])
  PROVE  Repaid(r)
<1>1. net[r] = Want[r] /\ delivered[r] \in Int /\ Want[r] \in Int
  BY WantType DEF IInv, Amounts, AmountsOf, TypeOK
<1>2. net'[r] = delivered[r]
  BY <1>1
<1> QED  BY <1>2 DEF Repaid, Phase, CostOf, ResultOf, Early

Shown == Contract!Next \/ UNCHANGED Contract!contract

LEMMA CreateShown ==
  ASSUME IInv, NEW r \in Requests, Create(r)
  PROVE  Shown
<1> USE DEF canceler, worker, reaper, disk, history, account, Shown
<1>0. TypeOK /\ Owed /\ AmountsOf(r) /\ Want[r] \in Nat
  BY WantType DEF IInv, Owed, Amounts
<1>1. UNCHANGED <<cpc, reap, job, wpc, delivered>> /\ gifted \subseteq gifted'
  BY DEF Create, Lookup, Consume, SaveInputs, Insert, RefundRequest, CleanRequest
<1>2. ASSUME NEW q \in Requests \ {r}  PROVE Same(q)
  <2>1. net'[q] = net[q] /\ (q \in gifted' <=> q \in gifted)
    BY <1>0, <1>2 DEF Create, Lookup, Consume, SaveInputs, Insert, RefundRequest, CleanRequest,
                Refund, TypeOK
  <2>2. rpc'[q] = rpc[q] /\ status'[q] = status[q]
    BY <1>0, <1>2 DEF Create, Lookup, Consume, SaveInputs, Insert, InsertRow, RefundRequest,
                CleanRequest, table, TypeOK, TableTypeOK
  <2> QED  BY <1>1, <2>1, <2>2, Untouched DEF Settles
<1>3. CASE r \in gifted
  <2>1. \A q \in Requests : Same(q)
    BY <1>1, <1>2, <1>3, FreeStays
  <2>2. faults' = faults \/ Fault
    BY DEF Create, Lookup, Consume, SaveInputs, Insert, RefundRequest, CleanRequest, Refund,
           NoFault
  <2> QED  BY <2>1, <2>2, NothingSeen, FaultSeen
<1>4. CASE r \notin gifted
  <2>1. CASE Lookup(r)
    <3>1. status[r] = "absent" /\ ~Bound(r) /\ UNCHANGED <<status, net, gifted, faults>>
      BY <1>0, <2>1 DEF Lookup, Owed, SettledLate, Bound, Creates, Ended, Live, table
    <3>2. ~Bound(r)' /\ rpc[r] = "lookup"
      BY <1>0, <1>1, <2>1, <3>1 DEF Lookup, Bound, Creates, Settles, TypeOK
    <3>3. Phase(r) = "none" /\ Phase(r)' \in {"none", "closed"}
      BY <1>4, <3>1, <3>2 DEF Phase
    <3>4. Same(r) \/ (Phase(r) = "none" /\ Closes(r))
      BY <1>1, <3>1, <3>3 DEF Same, Closes, CostOf, ResultOf
    <3> QED  BY <1>2, <3>1, <3>4, OneSeen
  <2>2. CASE Consume(r)
    <3>1. /\ status[r] = "absent" /\ ~Bound(r) /\ UNCHANGED status /\ Early(r)
          /\ net[r] = 0 /\ delivered[r] = 0
      BY <1>0, <2>2 DEF Consume, Owed, SettledLate, Bound, Creates, Ended, Live, table, Early,
                        AmountsOf
    <3>2. CASE Fault /\ gifted' = gifted \cup {r}
      <4>1. Gifts(r)
        BY <1>4, <3>1, <3>2 DEF Gifts, Phase, CostOf, ResultOf, Early
      <4> QED  BY <1>2, <3>2, <4>1, GiftSeen
    <3>3. CASE NoFault /\ gifted' = gifted /\ net'[r] = Want[r] /\ rpc'[r] \in {"save", "insert"}
      <4>1. Accepted(r)
        BY <1>1, <1>4, <3>1, <3>3
           DEF Accepted, Phase, CostOf, ResultOf, Early, Bound, Creates
      <4> QED  BY <1>2, <3>3, <4>1, OneSeen DEF NoFault
    <3>4. CASE NoFault /\ gifted' = gifted /\ net' = net /\ rpc'[r] = "done"
      <4>1. ~Bound(r)'
        BY <1>1, <3>1, <3>4 DEF Bound, Creates, Settles
      <4>2. Phase(r) = "none" /\ Closes(r)
        BY <1>1, <1>4, <3>1, <3>4, <4>1 DEF Closes, Phase, CostOf, ResultOf, Early
      <4> QED  BY <1>2, <3>4, <4>2, OneSeen DEF NoFault
    <3>5. AfterConsume(r) \in {"save", "insert"}
      BY DEF AfterConsume
    <3> QED  BY <1>0, <2>2, <3>1, <3>2, <3>3, <3>4, <3>5 DEF Consume, TypeOK
  <2>3. CASE SaveInputs(r) \/ CleanRequest(r)
    <3>1. /\ UNCHANGED <<status, net, gifted>> /\ (faults' = faults \/ Fault)
          /\ Creates(r)' <=> Creates(r)
          /\ Early(r)' <=> Early(r)
      BY <1>0, <2>3 DEF SaveInputs, CleanRequest, NoFault, TypeOK, table, Creates, Early
    <3>2. Bound(r)' <=> Bound(r)
      BY <1>1, <3>1 DEF Bound, Settles
    <3>3. Same(r)
      BY <1>1, <3>1, <3>2, Unseen
    <3> QED  BY <1>2, <3>1, <3>3, NothingSeen, FaultSeen
  <2>4. CASE Insert(r)
    <3>1. /\ rpc[r] = "insert" /\ rpc'[r] \in {"refund", "done"}
          /\ rpc'[r] = "done" => status'[r] = "queued"
          /\ UNCHANGED net
          /\ \/ gifted' = gifted /\ (faults' = faults \/ Fault)
             \/ gifted' = gifted \cup {r} /\ Fault
      BY <1>0, <2>4 DEF Insert, InsertRow, table, TypeOK, TableTypeOK, NoFault
    <3>2. Bound(r) /\ Bound(r)'
      BY <3>1 DEF Bound, Creates, Live
    <3>3. CASE gifted' = gifted
      <4>1. Same(r)
        BY <1>1, <3>1, <3>2, <3>3, Unseen DEF Early
      <4> QED  BY <1>2, <3>1, <4>1, NothingSeen, FaultSeen
    <3>4. CASE gifted' = gifted \cup {r} /\ Fault
      <4>1. Gifts(r)
        BY <1>4, <3>2, <3>4 DEF Gifts, Phase, CostOf, ResultOf
      <4> QED  BY <1>2, <3>4, <4>1, GiftSeen
    <3> QED  BY <3>1, <3>3, <3>4
  <2>5. CASE RefundRequest(r)
    <3>1. /\ rpc[r] = "refund" /\ rpc'[r] = "clean"
          /\ UNCHANGED <<status, gifted>>
          /\ \/ net'[r] = net[r] - Want[r] /\ faults' = faults
             \/ net'[r] = net[r] /\ Fault
      BY <1>0, <2>5 DEF RefundRequest, Refund, TypeOK, table, NoFault
    <3>2. /\ status[r] = "absent" /\ cpc[r] # "refund"
          /\ \A p \in Procs : r \notin reap[p]
          /\ \A w \in Slots : ~Settles(w, r)
      BY <1>0, <1>4, <3>1 DEF Owed, SettledLate, Ended
    <3>3. Bound(r) /\ ~Bound(r)' /\ ~Early(r)' /\ ~Early(r) /\ delivered[r] = 0
      BY <1>0, <1>1, <3>1, <3>2 DEF Bound, Creates, Settles, Live, Early, AmountsOf
    <3>4. CASE net'[r] = net[r] - Want[r] /\ faults' = faults
      <4>1. net'[r] = net[r] - (Want[r] - delivered[r])
        BY <1>0, <3>3, <3>4
      <4>2. Repaid(r)
        BY <1>1, <1>4, <3>1, <3>3, <4>1, Refunded
      <4> QED  BY <1>2, <3>4, <4>2, OneSeen
    <3>5. CASE net'[r] = net[r] /\ Fault
      <4>1. Same(r) \/ Closes(r)
        BY <1>1, <3>1, <3>3, <3>5, Fewer
      <4> QED  BY <1>2, <3>5, <4>1, FaultSeen
    <3> QED  BY <3>1, <3>4, <3>5
  <2> QED  BY <2>1, <2>2, <2>3, <2>4, <2>5 DEF Create
<1> QED  BY <1>3, <1>4

LEMMA CancelShown ==
  ASSUME IInv, NEW r \in Requests, Cancel(r) \/ FinishCancel(r) \/ Tick(r)
  PROVE  Shown
<1> USE DEF creator, worker, reaper, disk, history, account, Shown
<1>0. TypeOK /\ Owed /\ AmountsOf(r) /\ Want[r] \in Nat
  BY WantType DEF IInv, Owed, Amounts
<1>1. UNCHANGED <<rpc, reap, job, wpc, delivered, gifted>>
  BY DEF Cancel, FinishCancel, RefundCanceled, CleanCanceled, Tick
<1>2. ASSUME NEW q \in Requests \ {r}  PROVE Same(q)
  <2>1. net'[q] = net[q] /\ cpc'[q] = cpc[q]
    BY <1>0, <1>2 DEF Cancel, FinishCancel, RefundCanceled, CleanCanceled, Tick, canceler,
                      Refund, TypeOK
  <2>2. status'[q] = status[q]
    BY <1>0, <1>2 DEF Cancel, CancelRow, CloseRows, FinishCancel, RefundCanceled,
                CleanCanceled, Tick, ClaimLapses, DeadlinePasses, table, TypeOK, TableTypeOK
  <2> QED  BY <1>1, <2>1, <2>2, Untouched DEF Settles
<1>3. CASE Cancel(r)
  <2>1. /\ status[r] \in Live /\ status'[r] = "canceled" /\ net' = net
        /\ \/ cpc'[r] = "refund" /\ faults' = faults
           \/ cpc' = cpc /\ Fault
    BY <1>0, <1>3 DEF Cancel, CancelRow, CloseRows, TypeOK, NoFault
  <2>2. Bound(r)
    BY <2>1 DEF Bound
  <2>3. Same(r) \/ Closes(r)
    BY <1>1, <2>1, <2>2, Fewer DEF Early
  <2>4. cpc'[r] = "refund" => Same(r)
    BY <1>1, <2>1, <2>2, Unseen DEF Early, Bound
  <2> QED  BY <1>2, <2>1, <2>3, <2>4, NothingSeen, FaultSeen
<1>4. CASE RefundCanceled(r)
  <2>1. /\ cpc[r] = "refund" /\ cpc'[r] = "clean" /\ UNCHANGED status
        /\ \/ net'[r] = net[r] - Want[r] /\ faults' = faults
           \/ net'[r] = net[r] /\ Fault
    BY <1>0, <1>4 DEF RefundCanceled, Refund, table, TypeOK, NoFault
  <2>2. /\ Ended(r) /\ Bound(r) /\ delivered[r] = 0
        /\ \A p \in Procs : r \notin reap[p]
        /\ \A w \in Slots : ~Settles(w, r)
    BY <1>0, <2>1, OnlyCreatorLeft DEF AmountsOf
  <2>3. CASE r \in gifted
    <3>1. \A q \in Requests : Same(q)
      BY <1>1, <1>2, <2>3, FreeStays
    <3> QED  BY <2>1, <3>1, NothingSeen, FaultSeen
  <2>4. CASE r \notin gifted
    <3>1. ~Creates(r) /\ ~Early(r) /\ status[r] \notin Live
      BY <1>0, <2>2, <2>4 DEF Owed, SettledLate, Creates, Early, Ended
    <3>2. ~Bound(r)' /\ ~Early(r)'
      BY <1>1, <2>1, <2>2, <3>1 DEF Bound, Creates, Early, Settles
    <3>3. CASE net'[r] = net[r] - Want[r] /\ faults' = faults
      <4>1. net'[r] = net[r] - (Want[r] - delivered[r])
        BY <1>0, <2>2, <3>3
      <4>2. Repaid(r)
        BY <1>1, <2>2, <2>4, <3>2, <4>1, Refunded
      <4> QED  BY <1>2, <3>3, <4>2, OneSeen
    <3>4. CASE net'[r] = net[r] /\ Fault
      <4>1. Same(r) \/ Closes(r)
        BY <1>1, <2>2, <3>2, <3>4, Fewer
      <4> QED  BY <1>2, <3>4, <4>1, FaultSeen
    <3> QED  BY <2>1, <3>3, <3>4
  <2> QED  BY <2>3, <2>4
<1>5. CASE CleanCanceled(r) \/ Tick(r)
  <2>1. /\ UNCHANGED <<net, status, faults>>
        /\ cpc'[r] = "refund" <=> cpc[r] = "refund"
    BY <1>0, <1>5 DEF CleanCanceled, Tick, ClaimLapses, DeadlinePasses, canceler, table, TypeOK
  <2>2. Same(r)
    BY <1>1, <2>1, Untouched DEF Settles
  <2> QED  BY <1>2, <2>1, <2>2, NothingSeen
<1> QED  BY <1>3, <1>4, <1>5 DEF FinishCancel

LEMMA ReaperShown ==
  ASSUME IInv, NEW p \in Procs, NEW R \in SUBSET Requests,
         Expire(p, R) \/ Purge(p, R) \/ Reap(p)
  PROVE  Shown
<1> USE DEF creator, canceler, worker, disk, history, account, Shown
<1>0. TypeOK /\ Owed /\ \A r \in Requests : AmountsOf(r)
  BY DEF IInv, Owed, Amounts
<1>1. UNCHANGED <<rpc, cpc, job, wpc, delivered, gifted>>
  BY DEF Expire, Purge, Reap, RefundExpired, Sweep
<1>2. CASE Expire(p, R)
  <2>1. /\ net' = net
        /\ \A q \in R : status[q] \in Live /\ status'[q] = "error"
        /\ \A q \in Requests \ R : status'[q] = status[q]
        /\ \A o \in Procs, q \in Requests :
             q \in reap'[o] <=> q \in reap[o] \/ (q \in reap'[p] /\ o = p)
        /\ \/ reap'[p] = R /\ faults' = faults
           \/ reap'[p] = {} /\ Fault
    BY <1>0, <1>2 DEF Expire, ExpireRows, Expirable, CloseRows, Quiet, TypeOK, NoFault
  <2>2. \A q \in R : Bound(q)
    BY <2>1 DEF Bound
  <2>3. ASSUME NEW q \in Requests \ R  PROVE Same(q)
    <3>1. \A o \in Procs : q \in reap'[o] <=> q \in reap[o]
      BY <2>1, <2>3
    <3> QED  BY <1>1, <2>1, <2>3, <3>1, Untouched DEF Settles
  <2>4. ASSUME NEW q \in R  PROVE Same(q) \/ Closes(q)
    BY <1>1, <2>1, <2>2, <2>4, Fewer DEF Early
  <2>5. ASSUME NEW q \in R, reap'[p] = R  PROVE Same(q)
    <3>1. Bound(q)'
      BY <2>5 DEF Bound
    <3> QED  BY <1>1, <2>1, <2>2, <3>1, Unseen DEF Early
  <2> QED  BY <2>1, <2>3, <2>4, <2>5, NothingSeen, FaultSeen
<1>3. CASE Purge(p, R)
  <2>1. /\ UNCHANGED <<net, reap>> /\ (faults' = faults \/ Fault)
        /\ \A q \in R : status[q] \in Terminal /\ status'[q] = "deleted"
        /\ \A q \in Requests \ R : status'[q] = status[q]
    BY <1>3 DEF Purge, DeleteRows, NoFault
  <2>2. ASSUME NEW q \in Requests  PROVE Same(q)
    <3>1. Bound(q)' <=> Bound(q)
      BY <1>1, <2>1 DEF Bound, Creates, Settles, Live, Terminal
    <3> QED  BY <1>1, <2>1, <3>1, Unseen DEF Early
  <2> QED  BY <2>1, <2>2, NothingSeen, FaultSeen
<1>4. ASSUME NEW r \in Requests, RefundExpired(p, r)  PROVE Shown
  <2>0. Want[r] \in Nat
    BY WantType
  <2>1. /\ r \in reap[p] /\ reap' = [reap EXCEPT ![p] = @ \ {r}] /\ UNCHANGED status
        /\ \A q \in Requests \ {r} : net'[q] = net[q]
        /\ \/ net'[r] = net[r] - Want[r] /\ faults' = faults
           \/ net'[r] = net[r] /\ Fault
    BY <1>0, <1>4 DEF RefundExpired, Refund, table, TypeOK, NoFault
  <2>2. ASSUME NEW q \in Requests \ {r}  PROVE Same(q)
    <3>1. \A o \in Procs : q \in reap'[o] <=> q \in reap[o]
      BY <1>0, <2>1, <2>2 DEF TypeOK
    <3> QED  BY <1>1, <2>1, <2>2, <3>1, Untouched DEF Settles
  <2>3. /\ Ended(r) /\ Bound(r) /\ delivered[r] = 0 /\ cpc[r] # "refund"
        /\ \A o \in Procs : r \notin reap'[o]
        /\ \A w \in Slots : ~Settles(w, r)
    BY <1>0, <2>1, OnlyCreatorLeft DEF AmountsOf, TypeOK
  <2>4. CASE r \in gifted
    <3>1. \A q \in Requests : Same(q)
      BY <1>1, <2>2, <2>4, FreeStays
    <3> QED  BY <2>1, <3>1, NothingSeen, FaultSeen
  <2>5. CASE r \notin gifted
    <3>1. ~Creates(r) /\ ~Early(r) /\ status[r] \notin Live
      BY <1>0, <2>3, <2>5 DEF Owed, SettledLate, Creates, Early, Ended
    <3>2. ~Bound(r)' /\ ~Early(r)'
      BY <1>1, <2>1, <2>3, <3>1 DEF Bound, Creates, Early, Settles
    <3>3. CASE net'[r] = net[r] - Want[r] /\ faults' = faults
      <4>1. net'[r] = net[r] - (Want[r] - delivered[r])
        BY <2>0, <2>3, <3>3
      <4>2. Repaid(r)
        BY <1>1, <2>3, <2>5, <3>2, <4>1, Refunded
      <4> QED  BY <2>2, <3>3, <4>2, OneSeen
    <3>4. CASE net'[r] = net[r] /\ Fault
      <4>1. Same(r) \/ Closes(r)
        BY <1>1, <2>3, <3>2, <3>4, Fewer
      <4> QED  BY <2>2, <3>4, <4>1, FaultSeen
    <3> QED  BY <2>1, <3>3, <3>4
  <2> QED  BY <2>4, <2>5
<1>5. ASSUME NEW r \in Requests, Sweep(p, r)  PROVE Shown
  <2>1. UNCHANGED <<net, reap, status, faults>>
    BY <1>5 DEF Sweep, table
  <2>2. \A q \in Requests : Same(q)
    BY <1>1, <2>1, Untouched DEF Settles
  <2> QED  BY <2>1, <2>2, NothingSeen
<1> QED  BY <1>2, <1>3, <1>4, <1>5 DEF Reap

LEMMA CrashShown ==
  ASSUME IInv, CrashAPI \/ \E p \in Procs : CrashWorker(p)
  PROVE  Shown
<1> USE DEF worker, creator, canceler, reaper, account, Shown
<1>0. TypeOK
  BY DEF IInv
<1>1. CASE CrashAPI
  <2>1. /\ UNCHANGED <<status, job, wpc, reap, delivered, net, gifted>> /\ Fault
        /\ \A q \in Requests : /\ cpc'[q] = "none"
                               /\ rpc'[q] = IF rpc[q] = "lookup" THEN "lookup" ELSE "done"
    BY <1>1 DEF CrashAPI, table
  <2>2. ASSUME NEW q \in Requests  PROVE Same(q) \/ Closes(q)
    <3>1. (Bound(q)' => Bound(q)) /\ (Early(q)' => Early(q))
      BY <2>1 DEF Bound, Creates, Settles, Early
    <3> QED  BY <2>1, <3>1, Fewer
  <2> QED  BY <2>1, <2>2, FaultSeen
<1>2. ASSUME NEW p \in Procs, CrashWorker(p)  PROVE Shown
  <2>1. /\ UNCHANGED <<status, rpc, cpc, delivered, net, gifted>> /\ Fault
        /\ \A q \in Requests, o \in Procs : q \in reap'[o] => q \in reap[o]
        /\ \A v \in Slots : \/ wpc'[v] = wpc[v] /\ job'[v] = job[v]
                            \/ wpc'[v] = "idle"
    BY <1>0, <1>2 DEF CrashWorker, table, TypeOK
  <2>2. ASSUME NEW q \in Requests  PROVE Same(q) \/ Closes(q)
    <3>1. (Bound(q)' => Bound(q)) /\ (Early(q)' => Early(q))
      BY <2>1 DEF Bound, Creates, Settles, Early
    <3> QED  BY <2>1, <3>1, Fewer
  <2> QED  BY <2>1, <2>2, FaultSeen
<1> QED  BY <1>1, <1>2

LEMMA RunShown ==
  ASSUME IInv, NEW w \in Slots, Run(w) \/ Heartbeat(w)
  PROVE  Shown
<1> USE DEF creator, canceler, reaper, disk, history, account, Shown
<1>0. TypeOK /\ RunsOK /\ Owed /\ \A q \in Requests : AmountsOf(q)
  BY DEF IInv, Owed, Amounts
<1>1. UNCHANGED <<rpc, cpc, reap, gifted>> /\ (faults' = faults \/ Fault)
  BY DEF Run, Finish, Generate, Requeue, GiveUp, BeatBeforeSave, StoreImage, Complete,
         RefundTask, Settle, CleanTask, Heartbeat, Refund, NoFault
<1>b. /\ \A pc : GoTo(w, pc) =>
           UNCHANGED <<job, saved>> /\ wpc' = [wpc EXCEPT ![w] = pc]
      /\ BecomeIdle(w) => /\ \A v \in Slots \ {w} : job'[v] = job[v] /\ wpc'[v] = wpc[v]
                          /\ wpc'[w] = "idle"
  BY <1>0 DEF GoTo, BecomeIdle, TypeOK
<1>r. PICK r : r = job[w]
  OBVIOUS
<1>k. ASSUME UNCHANGED <<net, delivered>>, wpc[w] \notin {"refund", "settle"},
             \A q \in Requests : status'[q] = status[q] \/ {status[q], status'[q]} \subseteq Live,
             \A v \in Slots \ {w} : job'[v] = job[v] /\ wpc'[v] = wpc[v],
             wpc'[w] \notin {"refund", "settle"}
      PROVE  Shown
  <2>1. \A q \in Requests, v \in Slots : Settles(v, q)' <=> Settles(v, q)
    BY <1>k DEF Settles
  <2>2. \A q \in Requests : Same(q)
    BY <1>1, <1>k, <2>1, Untouched
  <2> QED  BY <1>1, <2>2, NothingSeen, FaultSeen
<1>2. ASSUME NEW k \in 1..4, Generate(w, k)  PROVE Shown
  BY <1>0, <1>2, <1>k DEF Generate, table, TypeOK
<1>3. CASE Requeue(w)
  <2>1. \A q \in Requests : status'[q] = status[q] \/ {status[q], status'[q]} \subseteq Live
    BY <1>0, <1>3 DEF Requeue, RequeueRow, HeldBy, table, Live, TypeOK, TableTypeOK
  <2> QED  BY <1>3, <1>b, <1>k, <2>1 DEF Requeue
<1>4. CASE BeatBeforeSave(w)
  <2>1. status' = status
    BY <1>4 DEF BeatBeforeSave, RenewRow, table
  <2> QED  BY <1>0, <1>4, <1>b, <1>k, <2>1 DEF BeatBeforeSave, TypeOK
<1>5. CASE StoreImage(w)
  BY <1>0, <1>5, <1>k DEF StoreImage, table, TypeOK
<1>6. CASE Heartbeat(w)
  <2>1. UNCHANGED <<net, delivered, status, job, wpc>>
    BY <1>6 DEF Heartbeat, RenewRow, worker
  <2>2. \A q \in Requests : Same(q)
    BY <1>1, <2>1, Untouched DEF Settles
  <2> QED  BY <1>1, <2>2, NothingSeen, FaultSeen
<1>7. CASE GiveUp(w)
  <2>1. /\ r \in Requests /\ wpc[w] \notin {"refund", "settle"} /\ UNCHANGED <<net, delivered>>
    BY <1>0, <1>7, <1>r DEF GiveUp, RunsOK
  <2>2. FailRow(r, w) => /\ status[r] \in Live /\ status'[r] = "error"
                         /\ \A q \in Requests \ {r} : status'[q] = status[q]
    BY <2>1 DEF FailRow, CloseRows
  <2>3. CASE UNCHANGED table /\ BecomeIdle(w)
    BY <2>1, <2>3, <1>b, <1>k DEF table
  <2>4. CASE /\ FailRow(r, w)
             /\ \/ BecomeIdle(w) /\ Fault
                \/ GoTo(w, "refund") /\ NoFault
    <3>1. ASSUME NEW q \in Requests \ {r}  PROVE Same(q)
      <4>1. \A v \in Slots : Settles(v, q)' <=> Settles(v, q)
        BY <1>0, <2>1, <2>4, <3>1, <1>b, <1>r DEF Settles, TypeOK
      <4> QED  BY <1>1, <2>1, <2>2, <2>4, <3>1, <4>1, Untouched
    <3>2. Bound(r)
      BY <2>2, <2>4 DEF Bound
    <3>3. CASE Fault
      <4>1. Same(r) \/ Closes(r)
        BY <1>1, <2>1, <3>2, Fewer DEF Early
      <4> QED  BY <3>1, <3>3, <4>1, FaultSeen
    <3>4. CASE NoFault /\ GoTo(w, "refund")
      <4>1. Bound(r)'
        BY <1>0, <1>b, <1>r, <3>4 DEF Bound, Settles, TypeOK
      <4>2. Same(r)
        BY <1>1, <2>1, <3>2, <4>1, Unseen DEF Early
      <4> QED  BY <3>1, <3>4, <4>2, NothingSeen DEF NoFault
    <3> QED  BY <2>4, <3>3, <3>4
  <2> QED  BY <1>7, <1>r, <2>3, <2>4 DEF GiveUp
<1>8. CASE Complete(w)
  <2>1. /\ r \in Requests /\ wpc[w] = "complete" /\ UNCHANGED net
        /\ saved[w] \in 1..Want[r] /\ Want[r] \in Nat
    BY <1>0, <1>8, <1>r, WantType DEF Complete, RunsOK, TypeOK
  <2>2. CompleteRow(r, w) => /\ status[r] \in Live /\ status'[r] = "success"
                             /\ \A q \in Requests \ {r} : status'[q] = status[q]
    BY <2>1 DEF CompleteRow, HeldBy, CloseRows, Live
  <2>3. CASE UNCHANGED <<table, delivered>> /\ BecomeIdle(w)
    BY <2>1, <2>3, <1>b, <1>k DEF table
  <2>4. CASE CompleteRow(r, w) /\ delivered' = delivered /\ Fault /\ BecomeIdle(w)
    <3>1. \A q \in Requests, v \in Slots : Settles(v, q)' <=> Settles(v, q)
      BY <1>b, <2>1, <2>4 DEF Settles
    <3>2. ASSUME NEW q \in Requests  PROVE Same(q) \/ Closes(q)
      <4>1. Bound(q)' => Bound(q)
        BY <1>1, <2>2, <2>4, <3>1 DEF Bound, Creates, Live
      <4> QED  BY <1>1, <2>1, <2>4, <4>1, Fewer DEF Early
    <3> QED  BY <2>4, <3>2, FaultSeen
  <2>5. CASE /\ CompleteRow(r, w) /\ NoFault
             /\ delivered' = [delivered EXCEPT ![r] = saved[w]]
             /\ GoTo(w, IF saved[w] < Want[r] THEN "settle" ELSE "clean")
    <3>0. job' = job /\ wpc' = [wpc EXCEPT ![w] = IF saved[w] < Want[r] THEN "settle" ELSE "clean"]
      BY <2>5 DEF GoTo
    <3>1. ASSUME NEW q \in Requests \ {r}  PROVE Same(q)
      <4>1. \A v \in Slots : Settles(v, q)' <=> Settles(v, q)
        BY <1>0, <1>r, <2>1, <3>0, <3>1 DEF Settles, TypeOK
      <4>2. delivered'[q] = delivered[q]
        BY <1>0, <2>5, <3>1 DEF TypeOK
      <4> QED  BY <1>1, <2>1, <2>2, <2>5, <3>1, <4>1, <4>2, Untouched
    <3>2. CASE r \in gifted
      <4>1. \A q \in Requests : Same(q)
        BY <1>1, <3>1, <3>2, FreeStays
      <4> QED  BY <2>5, <4>1, NothingSeen DEF NoFault
    <3>3. CASE r \notin gifted
      <4>1. /\ Bound(r) /\ delivered'[r] = saved[w] /\ delivered[r] = 0
            /\ cpc[r] # "refund" /\ \A p \in Procs : r \notin reap[p]
            /\ \A v \in Slots : ~Settles(v, r)
        BY <1>0, <2>1, <2>2, <2>5
           DEF Bound, Owed, SettledLate, Ended, TypeOK, AmountsOf
      <4>2. ~Early(r) /\ ~Creates(r)
        BY <1>0, <2>1, <2>2, <2>5, <3>3 DEF Owed, SettledLate, Live, Early, Creates
      <4>3. saved[w] < Want[r] => Bound(r)'
        BY <1>0, <1>r, <2>1, <3>0 DEF Bound, Settles, TypeOK
      <4>4. ~(saved[w] < Want[r]) => ~Bound(r)'
        BY <1>0, <1>1, <2>1, <2>2, <2>5, <3>0, <4>1, <4>2
           DEF Bound, Settles, Creates, Live, TypeOK
      <4>5. Delivers(r)
        BY <1>1, <2>1, <3>3, <4>1, <4>2, <4>3, <4>4
           DEF Delivers, Phase, CostOf, ResultOf, Early
      <4> QED  BY <2>1, <2>5, <3>1, <4>5, OneSeen DEF NoFault
    <3> QED  BY <3>2, <3>3
  <2> QED  BY <1>8, <1>r, <2>3, <2>4, <2>5 DEF Complete
<1>9. CASE RefundTask(w) \/ Settle(w)
  <2>1. /\ r \in Requests /\ Settles(w, r) /\ wpc' = [wpc EXCEPT ![w] = "clean"]
        /\ UNCHANGED <<job, status, delivered>>
    BY <1>0, <1>9, <1>r DEF RefundTask, Settle, RunsOK, Settles, GoTo, table
  <2>2. /\ \A q \in Requests \ {r} : net'[q] = net[q]
        /\ \/ net'[r] = net[r] - (Want[r] - delivered[r]) /\ faults' = faults
           \/ net'[r] = net[r] /\ Fault
    <3>1. CASE RefundTask(w)
      <4>1. delivered[r] = 0 /\ Want[r] \in Nat
        BY <1>0, <1>r, <2>1, <3>1, WantType DEF RefundTask, AmountsOf, Settling
      <4> QED  BY <1>0, <1>r, <2>1, <3>1, <4>1 DEF RefundTask, Refund, TypeOK, NoFault
    <3>2. CASE Settle(w)
      <4>1. delivered[r] = saved[w] /\ Want[r] \in Nat
        BY <1>0, <1>r, <2>1, <3>2, WantType DEF Settle, AmountsOf, Settling
      <4> QED  BY <1>0, <1>r, <2>1, <3>2, <4>1 DEF Settle, Refund, TypeOK, NoFault
    <3> QED  BY <1>9, <3>1, <3>2
  <2>3. ASSUME NEW q \in Requests \ {r}  PROVE Same(q)
    <3>1. \A v \in Slots : Settles(v, q)' <=> Settles(v, q)
      BY <1>0, <1>r, <2>1, <2>3 DEF Settles, TypeOK
    <3> QED  BY <1>1, <2>1, <2>2, <2>3, <3>1, Untouched
  <2>4. CASE r \in gifted
    <3>1. \A q \in Requests : Same(q)
      BY <1>1, <2>3, <2>4, FreeStays
    <3> QED  BY <2>2, <3>1, NothingSeen, FaultSeen
  <2>5. CASE r \notin gifted
    <3>1. /\ Ended(r) /\ Bound(r) /\ cpc[r] # "refund"
          /\ \A p \in Procs : r \notin reap[p]
          /\ \A v \in Slots \ {w} : ~Settles(v, r)
      BY <1>0, <2>1, OnlyCreatorLeft
    <3>2. ~Creates(r) /\ ~Early(r) /\ status[r] \notin Live
      BY <1>0, <2>1, <2>5, <3>1 DEF Owed, SettledLate, Creates, Early, Ended
    <3>3. ~Bound(r)' /\ ~Early(r)'
      BY <1>0, <1>1, <2>1, <3>1, <3>2 DEF Bound, Creates, Early, Settles, TypeOK
    <3>4. CASE net'[r] = net[r] - (Want[r] - delivered[r]) /\ faults' = faults
      <4>1. Repaid(r)
        BY <1>1, <2>1, <2>5, <3>1, <3>3, <3>4, Refunded
      <4> QED  BY <2>1, <2>3, <3>4, <4>1, OneSeen
    <3>5. CASE net'[r] = net[r] /\ Fault
      <4>1. Same(r) \/ Closes(r)
        BY <1>1, <2>1, <3>1, <3>3, <3>5, Fewer
      <4> QED  BY <2>1, <2>3, <3>5, <4>1, FaultSeen
    <3> QED  BY <2>2, <3>4, <3>5
  <2> QED  BY <2>4, <2>5
<1>10. CASE CleanTask(w)
  BY <1>0, <1>10, <1>b, <1>k DEF CleanTask, table, TypeOK
<1> QED  BY <1>2, <1>3, <1>4, <1>5, <1>6, <1>7, <1>8, <1>9, <1>10 DEF Run, Finish

LEMMA ClaimShown ==
  ASSUME IInv, NEW w \in Slots, NEW r \in Requests, Claim(w, r)
  PROVE  Shown
<1>1. /\ status[r] \in Live /\ status' = [status EXCEPT ![r] = "running"]
      /\ UNCHANGED <<rpc, cpc, reap, gifted, delivered, net>>
      /\ faults' = faults \/ Fault
  BY DEF Claim, ClaimRow, Claimable, Live, creator, canceler, reaper, history, account, NoFault
<1>2. \A q \in Requests, v \in Slots : Settles(v, q)' <=> Settles(v, q)
  BY DEF Claim, Settles, worker, IInv, TypeOK
<1>3. \A q \in Requests : status'[q] = status[q] \/ {status[q], status'[q]} \subseteq Live
  BY <1>1 DEF Live, IInv, TypeOK, TableTypeOK
<1>4. \A q \in Requests : Same(q)
  BY <1>1, <1>2, <1>3, Untouched
<1> QED  BY <1>1, <1>4, NothingSeen, FaultSeen DEF Shown

LEMMA NextShown == IInv /\ [Next]_vars => ContractStep
<1> SUFFICES ASSUME IInv, [Next]_vars  PROVE Shown
  BY DEF ContractStep, Shown
<1>1. CASE UNCHANGED vars
  <2>1. \A q \in Requests : Same(q)
    BY <1>1, Untouched DEF vars, table, creator, canceler, worker, reaper, history, account,
                           Settles
  <2> QED  BY <1>1, <2>1, NothingSeen DEF vars, Shown
<1>2. Rest => UNCHANGED vars
  BY DEF Rest
<1> QED  BY <1>1, <1>2, CreateShown, CancelShown, RunShown, ClaimShown, ReaperShown,
            CrashShown DEF Next

LEMMA InitShown == Init => Contract!Init
<1> SUFFICES ASSUME Init  PROVE Contract!Init
  OBVIOUS
<1>1. \A r \in Requests : ~Bound(r)
  BY ImageTasksAssumption DEF Init, TableInit, Bound, Creates, Live, Settles
<1>2. \A r \in Requests : Phase(r) = "none" /\ CostOf(r) = 0 /\ ResultOf(r) = 0
  BY <1>1 DEF Init, Phase, CostOf, ResultOf
<1> QED  BY <1>2, SeenIs DEF Contract!Init, Init

(* The service keeps the contract, whatever lapses, races, fails and       *)
(* crashes: a request is charged, delivered and settled once each and      *)
(* never reopened, and every broken promise is a fault's (createDBImageTask, *)
(* runDBImageTask, expireOverdueDBTasks, handleImageTaskCancel).           *)
THEOREM ServiceKeepsContract == Spec => ContractSpec
<1>1. IInv /\ [Next]_vars => [Contract!Next]_(Contract!contract)
  BY NextShown DEF ContractStep
<1> QED  BY InitShown, Inductive, <1>1, PTL DEF Spec, ContractSpec, Contract!Spec

-----------------------------------------------------------------------------
(* Files: the input images and the stored images.                          *)

(* Inputs are there as long as a worker may want them; whoever deletes     *)
(* them does so for a row that has ended, or that never came to be.        *)
InputsOf(r) ==
  /\ r \in Edits /\ rpc[r] = "insert" => r \in inputs
  /\ r \in Edits /\ status[r] \in Live /\ r \notin gifted => r \in inputs
  /\ cpc[r] = "clean" => Ended(r)
  /\ \A p \in Procs : r \in sweep[p] => Ended(r)
  /\ \A w \in Slots : Settling(w, r, "clean") => Ended(r)
  /\ rpc[r] = "clean" /\ r \notin gifted => status[r] = "absent"
  /\ r \in inputs \ littered =>
       \/ rpc[r] \in {"insert", "refund", "clean"}
       \/ Stored(r)
       \/ \E p \in Procs : r \in sweep[p]

Inputs == \A r \in Requests : InputsOf(r)

LEMMA CreateInputs ==
  ASSUME IInv, Inputs, NEW r \in Requests, Create(r)
  PROVE  Inputs'
<1> SUFFICES ASSUME NEW q \in Requests  PROVE InputsOf(q)'
  BY DEF Inputs
<1> USE DEF canceler, worker, reaper, disk, history, account, IInv, TypeOK, SettledLate,
            Ended, Settling, Stored, Inputs, InputsOf
<1>1. CASE Lookup(r)
  BY <1>1 DEF Lookup, table
<1>2. CASE Consume(r)
  BY <1>2 DEF Consume, AfterConsume, table
<1>3. CASE SaveInputs(r)
  BY <1>3 DEF SaveInputs, table
<1>4. CASE Insert(r)
  BY <1>4 DEF Insert, InsertRow, table, TableTypeOK, Live, Terminal
<1>5. CASE RefundRequest(r)
  BY <1>5 DEF RefundRequest, table
<1>6. CASE CleanRequest(r)
  BY <1>6 DEF CleanRequest, CleanInputs, table, Live
<1> QED  BY <1>1, <1>2, <1>3, <1>4, <1>5, <1>6 DEF Create

LEMMA CancelInputs ==
  ASSUME IInv, Inputs, NEW r \in Requests, Cancel(r) \/ FinishCancel(r) \/ Tick(r)
  PROVE  Inputs'
<1> SUFFICES ASSUME NEW q \in Requests  PROVE InputsOf(q)'
  BY DEF Inputs
<1> USE DEF creator, canceler, worker, reaper, disk, history, account, IInv, TypeOK,
            SettledLate, Ended, Settling, Stored, Inputs, InputsOf
<1>1. CASE Cancel(r)
  BY <1>1 DEF Cancel, CancelRow, CloseRows, Live, Terminal
<1>2. CASE RefundCanceled(r)
  BY <1>2 DEF RefundCanceled, table
<1>3. CASE CleanCanceled(r)
  BY <1>3 DEF CleanCanceled, CleanInputs, table, Live
<1>4. CASE Tick(r)
  BY <1>4 DEF Tick, ClaimLapses, DeadlinePasses
<1> QED  BY <1>1, <1>2, <1>3, <1>4 DEF FinishCancel

LEMMA ReaperInputs ==
  ASSUME IInv, Inputs, NEW p \in Procs, NEW R \in SUBSET Requests,
         Expire(p, R) \/ Purge(p, R) \/ Reap(p)
  PROVE  Inputs'
<1> SUFFICES ASSUME NEW q \in Requests  PROVE InputsOf(q)'
  BY DEF Inputs
<1> USE DEF creator, canceler, worker, reaper, disk, history, account, IInv, TypeOK,
            SettledLate, Ended, Settling, Stored, Inputs, InputsOf
<1>1. CASE Expire(p, R)
  BY <1>1 DEF Expire, ExpireRows, Expirable, CloseRows, Live, Terminal
<1>2. CASE Purge(p, R)
  BY <1>2 DEF Purge, DeleteRows, Live, Terminal, Quiet
<1>3. ASSUME NEW r \in Requests, RefundExpired(p, r)  PROVE InputsOf(q)'
  BY <1>3 DEF RefundExpired, table
<1>4. ASSUME NEW r \in Requests, Sweep(p, r)  PROVE InputsOf(q)'
  BY <1>4 DEF Sweep, CleanInputs, table, Live
<1> QED  BY <1>1, <1>2, <1>3, <1>4 DEF Reap

LEMMA RunInputs ==
  ASSUME IInv, Inputs, NEW w \in Slots, Run(w) \/ Heartbeat(w)
  PROVE  Inputs'
<1> SUFFICES ASSUME NEW q \in Requests  PROVE InputsOf(q)'
  BY DEF Inputs
<1> USE ImageTasksAssumption
    DEF creator, canceler, reaper, disk, history, account, IInv, TypeOK, TableTypeOK,
        SettledLate, Settles, Ended, Settling, Stored, Inputs, InputsOf, Live, Terminal
<1>1. ASSUME NEW k \in 1..4, Generate(w, k)  PROVE InputsOf(q)'
  BY <1>1 DEF Generate, table
<1>2. CASE Requeue(w)
  BY <1>2 DEF Requeue, RequeueRow, HeldBy, BecomeIdle, table
<1>3. CASE GiveUp(w)
  BY <1>3 DEF GiveUp, FailRow, CloseRows, GoTo, BecomeIdle, table
<1>4. CASE BeatBeforeSave(w)
  BY <1>4 DEF BeatBeforeSave, RenewRow, GoTo, BecomeIdle, table
<1>5. CASE StoreImage(w)
  BY <1>5 DEF StoreImage, table
<1>6. CASE Complete(w)
  BY <1>6 DEF Complete, CompleteRow, HeldBy, CloseRows, GoTo, BecomeIdle, table
<1>7. CASE RefundTask(w) \/ Settle(w)
  BY <1>7 DEF RefundTask, Settle, GoTo, table
<1>8. CASE CleanTask(w)
  BY <1>8 DEF CleanTask, CleanInputs, BecomeIdle, table
<1>9. CASE Heartbeat(w)
  BY <1>9 DEF Heartbeat, RenewRow, worker
<1> QED  BY <1>1, <1>2, <1>3, <1>4, <1>5, <1>6, <1>7, <1>8, <1>9 DEF Run, Finish

LEMMA NextInputs ==
  ASSUME IInv, Inputs, [Next]_vars
  PROVE  Inputs'
<1> USE DEF creator, canceler, worker, reaper, disk, history, account, IInv, TypeOK,
        Ended, Settling, Stored
<1>1. ASSUME NEW w \in Slots, NEW r \in Requests, Claim(w, r)  PROVE Inputs'
  BY <1>1 DEF Claim, ClaimRow, Claimable, TableTypeOK, Live, Terminal, Inputs, InputsOf
<1>2. CASE CrashAPI
  BY <1>2 DEF CrashAPI, table, Inputs, InputsOf
<1>3. ASSUME NEW p \in Procs, CrashWorker(p)  PROVE Inputs'
  BY <1>3 DEF CrashWorker, table, Inputs, InputsOf
<1>4. CASE UNCHANGED vars
  BY <1>4 DEF vars, table, Inputs, InputsOf
<1>5. Rest => UNCHANGED vars
  BY DEF Rest
<1> HIDE DEF IInv
<1> QED  BY <1>1, <1>2, <1>3, <1>4, <1>5, CreateInputs, CancelInputs, ReaperInputs, RunInputs
        DEF Next

-----------------------------------------------------------------------------
(* Images on disk belong to a run that stored them or to a task that has   *)
(* succeeded, and a task that succeeded has those of a run that no longer  *)
(* removes them.                                                           *)
KeptBy(r, w) ==
  /\ <<r, w>> \in images
  /\ job[w] = r => wpc[w] \in {"settle", "clean"}

RunImages(w) ==
  /\ wpc[w] \in {"failing", "refund"} => saved[w] = 0
  /\ wpc[w] \in {"settle", "clean"} /\ saved[w] > 0 =>
       status[job[w]] \in {"success", "deleted"}
  /\ ~StorageLimited /\ saved[w] > 0 => <<job[w], w>> \in images

SuccessKept ==
  StorageLimited \/
    \A r \in Requests : status[r] = "success" /\ r \notin leaked =>
      \E w \in Slots : KeptBy(r, w)

Images == NoStrayImages /\ (\A w \in Slots : RunImages(w)) /\ SuccessKept

(* A step after which no new task has succeeded.                           *)
LEMMA KeepSuccess ==
  ASSUME SuccessKept, leaked \subseteq leaked',
         \A r \in Requests : status'[r] = "success" /\ r \notin leaked' => status[r] = "success",
         \A r \in Requests, v \in Slots : ~StorageLimited /\ KeptBy(r, v) => KeptBy(r, v)'
  PROVE  SuccessKept'
  BY DEF SuccessKept

LEMMA RunsImages ==
  ASSUME IInv, Images, NEW w \in Slots, Run(w) \/ Heartbeat(w)
  PROVE  Images'
<1> USE ImageTasksAssumption
    DEF creator, canceler, reaper, disk, history, account, TypeOK, TableTypeOK,
        RunsOK, Live, Terminal, table, worker, GoTo, BecomeIdle, DropImages, HeldBy, CloseRows, CleanInputs
<1>1. ASSUME NEW k \in 1..4, Generate(w, k)  PROVE Images'
  <2> USE <1>1 DEF Generate
  <2>1. NoStrayImages'
    BY DEF IInv, Images, RunImages, NoStrayImages
  <2>2. ASSUME NEW v \in Slots  PROVE RunImages(v)'
    BY DEF IInv, Images, RunImages
  <2>3. SuccessKept'
    <3>1. \A r \in Requests, v \in Slots : ~StorageLimited /\ KeptBy(r, v) => KeptBy(r, v)'
      BY DEF IInv, KeptBy
    <3>2. \A r \in Requests : status'[r] = "success" /\ r \notin leaked' => status[r] = "success"
      BY DEF IInv
    <3>3. leaked \subseteq leaked'
      OBVIOUS
    <3> QED  BY <3>1, <3>2, <3>3, KeepSuccess DEF Images
  <2> QED  BY <2>1, <2>2, <2>3 DEF Images
<1>2. CASE Requeue(w)
  <2> USE <1>2 DEF Requeue, RequeueRow
  <2>1. NoStrayImages'
    BY DEF IInv, Images, RunImages, NoStrayImages
  <2>2. ASSUME NEW v \in Slots  PROVE RunImages(v)'
    BY DEF IInv, Images, RunImages
  <2>3. SuccessKept'
    <3>1. \A r \in Requests, v \in Slots : ~StorageLimited /\ KeptBy(r, v) => KeptBy(r, v)'
      BY DEF IInv, KeptBy
    <3>2. \A r \in Requests : status'[r] = "success" /\ r \notin leaked' => status[r] = "success"
      BY DEF IInv
    <3>3. leaked \subseteq leaked'
      OBVIOUS
    <3> QED  BY <3>1, <3>2, <3>3, KeepSuccess DEF Images
  <2> QED  BY <2>1, <2>2, <2>3 DEF Images
<1>3. CASE GiveUp(w)
  <2> USE <1>3 DEF GiveUp, FailRow
  <2>1. NoStrayImages'
    BY DEF IInv, Images, RunImages, NoStrayImages
  <2>2. ASSUME NEW v \in Slots  PROVE RunImages(v)'
    BY DEF IInv, Images, RunImages
  <2>3. SuccessKept'
    <3>1. \A r \in Requests, v \in Slots : ~StorageLimited /\ KeptBy(r, v) => KeptBy(r, v)'
      BY DEF IInv, KeptBy
    <3>2. \A r \in Requests : status'[r] = "success" /\ r \notin leaked' => status[r] = "success"
      BY DEF IInv
    <3>3. leaked \subseteq leaked'
      OBVIOUS
    <3> QED  BY <3>1, <3>2, <3>3, KeepSuccess DEF Images
  <2> QED  BY <2>1, <2>2, <2>3 DEF Images
<1>4. CASE BeatBeforeSave(w)
  <2> USE <1>4 DEF BeatBeforeSave, RenewRow
  <2>1. NoStrayImages'
    BY DEF IInv, Images, RunImages, NoStrayImages
  <2>2. ASSUME NEW v \in Slots  PROVE RunImages(v)'
    BY DEF IInv, Images, RunImages
  <2>3. SuccessKept'
    <3>1. \A r \in Requests, v \in Slots : ~StorageLimited /\ KeptBy(r, v) => KeptBy(r, v)'
      BY DEF IInv, KeptBy
    <3>2. \A r \in Requests : status'[r] = "success" /\ r \notin leaked' => status[r] = "success"
      BY DEF IInv
    <3>3. leaked \subseteq leaked'
      OBVIOUS
    <3> QED  BY <3>1, <3>2, <3>3, KeepSuccess DEF Images
  <2> QED  BY <2>1, <2>2, <2>3 DEF Images
<1>5. CASE StoreImage(w)
  <2> USE <1>5 DEF StoreImage
  <2>1. NoStrayImages'
    BY DEF IInv, Images, RunImages, NoStrayImages
  <2>2. ASSUME NEW v \in Slots  PROVE RunImages(v)'
    <3>1. CASE v # w
      <4>1. job'[v] = job[v] /\ saved'[v] = saved[v] /\ wpc'[v] = wpc[v] /\ status' = status
        BY <3>1 DEF IInv
      <4>2. ~StorageLimited => (<<job[v], v>> \in images => <<job[v], v>> \in images')
        BY <3>1
      <4> QED  BY <4>1, <4>2 DEF Images, RunImages
    <3>2. CASE v = w
      <4>0. /\ job' = job /\ saved[w] \in 0..4 /\ wpc = [x \in Slots |-> wpc[x]]
            /\ saved \in [Slots -> 0..4]
        BY DEF IInv
      <4>1. CASE DropImages(w) /\ saved' = [saved EXCEPT ![w] = 0]
                   /\ wpc' = [wpc EXCEPT ![w] = "failing"]
        BY <3>2, <4>0, <4>1 DEF RunImages
      <4>2. ASSUME NEW E \in SUBSET (images \ {<<job[w], w>>}), StorageLimited \/ E = {},
                   images' = (IF saved[w] = 0 THEN images \cup {<<job[w], w>>} ELSE images) \ E,
                   wpc' = [wpc EXCEPT ![w] = IF saved[w] + 1 < got[w]
                                             THEN "beat" ELSE "complete"]
            PROVE  RunImages(v)'
        <5>1. ~StorageLimited => <<job[w], w>> \in images'
          BY <4>0, <4>2 DEF Images, RunImages
        <5>2. wpc'[w] \in {"beat", "complete"}
          BY <4>0, <4>2
        <5> QED  BY <3>2, <4>0, <5>1, <5>2 DEF RunImages
      <4> QED  BY <4>1, <4>2
    <3> QED  BY <3>1, <3>2
  <2>3. SuccessKept'
    <3>1. \A r \in Requests, v \in Slots : ~StorageLimited /\ KeptBy(r, v) => KeptBy(r, v)'
      BY DEF IInv, KeptBy
    <3>2. \A r \in Requests : status'[r] = "success" /\ r \notin leaked' => status[r] = "success"
      BY DEF IInv
    <3>3. leaked \subseteq leaked'
      OBVIOUS
    <3> QED  BY <3>1, <3>2, <3>3, KeepSuccess DEF Images
  <2> QED  BY <2>1, <2>2, <2>3 DEF Images
<1>6. CASE Complete(w)
  <2> USE <1>6 DEF Complete, CompleteRow
  <2>1. NoStrayImages'
    BY DEF IInv, Images, RunImages, NoStrayImages
  <2>2. ASSUME NEW v \in Slots  PROVE RunImages(v)'
    BY DEF IInv, Images, RunImages
  <2>3. SuccessKept'
    <3>1. \A r \in Requests, v \in Slots : ~StorageLimited /\ KeptBy(r, v) => KeptBy(r, v)'
      BY DEF IInv, KeptBy
    <3>2. /\ leaked \subseteq leaked'
          /\ \A r \in Requests : status'[r] = "success" /\ r \notin leaked' =>
               status[r] = "success" \/ (r = job[w] /\ wpc'[w] \in {"settle", "clean"})
      BY DEF IInv
    <3>3. ~StorageLimited => <<job[w], w>> \in images
      BY DEF IInv, Images, RunImages
    <3>4. wpc'[w] \in {"settle", "clean"} => images' = images
      BY DEF IInv
    <3> QED  BY <3>1, <3>2, <3>3, <3>4 DEF Images, SuccessKept, KeptBy
  <2> QED  BY <2>1, <2>2, <2>3 DEF Images
<1>7. CASE RefundTask(w)
  <2> USE <1>7 DEF RefundTask, Refund
  <2>1. NoStrayImages'
    BY DEF IInv, Images, RunImages, NoStrayImages
  <2>2. ASSUME NEW v \in Slots  PROVE RunImages(v)'
    BY DEF IInv, Images, RunImages
  <2>3. SuccessKept'
    <3>1. \A r \in Requests, v \in Slots : ~StorageLimited /\ KeptBy(r, v) => KeptBy(r, v)'
      BY DEF IInv, KeptBy
    <3>2. \A r \in Requests : status'[r] = "success" /\ r \notin leaked' => status[r] = "success"
      BY DEF IInv
    <3>3. leaked \subseteq leaked'
      OBVIOUS
    <3> QED  BY <3>1, <3>2, <3>3, KeepSuccess DEF Images
  <2> QED  BY <2>1, <2>2, <2>3 DEF Images
<1>8. CASE Settle(w)
  <2> USE <1>8 DEF Settle, Refund
  <2>1. NoStrayImages'
    BY DEF IInv, Images, RunImages, NoStrayImages
  <2>2. ASSUME NEW v \in Slots  PROVE RunImages(v)'
    BY DEF IInv, Images, RunImages
  <2>3. SuccessKept'
    <3>1. \A r \in Requests, v \in Slots : ~StorageLimited /\ KeptBy(r, v) => KeptBy(r, v)'
      BY DEF IInv, KeptBy
    <3>2. \A r \in Requests : status'[r] = "success" /\ r \notin leaked' => status[r] = "success"
      BY DEF IInv
    <3>3. leaked \subseteq leaked'
      OBVIOUS
    <3> QED  BY <3>1, <3>2, <3>3, KeepSuccess DEF Images
  <2> QED  BY <2>1, <2>2, <2>3 DEF Images
<1>9. CASE CleanTask(w)
  <2> USE <1>9 DEF CleanTask
  <2>1. NoStrayImages'
    BY DEF IInv, Images, RunImages, NoStrayImages
  <2>2. ASSUME NEW v \in Slots  PROVE RunImages(v)'
    BY DEF IInv, Images, RunImages
  <2>3. SuccessKept'
    <3>1. \A r \in Requests, v \in Slots : ~StorageLimited /\ KeptBy(r, v) => KeptBy(r, v)'
      BY DEF IInv, KeptBy
    <3>2. \A r \in Requests : status'[r] = "success" /\ r \notin leaked' => status[r] = "success"
      BY DEF IInv
    <3>3. leaked \subseteq leaked'
      OBVIOUS
    <3> QED  BY <3>1, <3>2, <3>3, KeepSuccess DEF Images
  <2> QED  BY <2>1, <2>2, <2>3 DEF Images
<1>10. CASE Heartbeat(w)
  <2> USE <1>10 DEF Heartbeat, RenewRow
  <2>1. NoStrayImages'
    BY DEF IInv, Images, RunImages, NoStrayImages
  <2>2. ASSUME NEW v \in Slots  PROVE RunImages(v)'
    BY DEF IInv, Images, RunImages
  <2>3. SuccessKept'
    <3>1. \A r \in Requests, v \in Slots : ~StorageLimited /\ KeptBy(r, v) => KeptBy(r, v)'
      BY DEF IInv, KeptBy
    <3>2. \A r \in Requests : status'[r] = "success" /\ r \notin leaked' => status[r] = "success"
      BY DEF IInv
    <3>3. leaked \subseteq leaked'
      OBVIOUS
    <3> QED  BY <3>1, <3>2, <3>3, KeepSuccess DEF Images
  <2> QED  BY <2>1, <2>2, <2>3 DEF Images
<1> QED  BY <1>1, <1>2, <1>3, <1>4, <1>5, <1>6, <1>7, <1>8, <1>9, <1>10 DEF Run, Finish

(* The other steps leave the runs alone, or begin one, or kill some.       *)
LEMMA RowsImages ==
  ASSUME Images, UNCHANGED <<images, job, wpc, saved>>, leaked \subseteq leaked',
         \A q \in Requests : /\ status'[q] = "success" => status[q] = "success"
                             /\ status[q] \in {"success", "deleted"} =>
                                  status'[q] \in {"success", "deleted"},
         RunsOK, TypeOK
  PROVE  Images'
<1>1. NoStrayImages'
  BY DEF Images, NoStrayImages
<1>2. ASSUME NEW w \in Slots  PROVE RunImages(w)'
  BY DEF Images, RunImages, RunsOK, TypeOK
<1>3. SuccessKept'
  BY KeepSuccess DEF Images, KeptBy
<1> QED  BY <1>1, <1>2, <1>3 DEF Images

LEMMA NextImages ==
  ASSUME IInv, Images, [Next]_vars
  PROVE  Images'
<1> USE ImageTasksAssumption
    DEF creator, canceler, worker, reaper, disk, history, account, TypeOK, TableTypeOK,
        RunsOK, Live, Terminal, table
<1>1. ASSUME NEW r \in Requests, Create(r)  PROVE Images'
  <2>1. UNCHANGED <<images, job, wpc, saved>> /\ leaked \subseteq leaked'
    BY <1>1 DEF Create, Lookup, Consume, SaveInputs, Insert, RefundRequest,
                CleanRequest, Refund
  <2>2. ASSUME NEW q \in Requests  PROVE status'[q] = status[q] \/ {status[q], status'[q]} \subseteq {"absent", "queued"}
    BY <1>1 DEF Create, Lookup, Consume, SaveInputs, Insert, InsertRow, RefundRequest,
                CleanRequest, IInv, SettledLate
  <2> QED  BY <2>1, <2>2, RowsImages DEF IInv
<1>2. ASSUME NEW r \in Requests, Cancel(r) \/ FinishCancel(r) \/ Tick(r)  PROVE Images'
  <2>1. UNCHANGED <<images, job, wpc, saved>> /\ leaked \subseteq leaked'
    BY <1>2 DEF Cancel, FinishCancel, RefundCanceled, CleanCanceled, Tick, Refund
  <2>2. ASSUME NEW q \in Requests
        PROVE  status'[q] = status[q] \/ (status[q] \in Live /\ status'[q] = "canceled")
    BY <1>2 DEF Cancel, CancelRow, CloseRows, FinishCancel, RefundCanceled, CleanCanceled,
                Tick, ClaimLapses, DeadlinePasses, IInv
  <2> QED  BY <2>1, <2>2, RowsImages DEF IInv
<1>3. ASSUME NEW p \in Procs, NEW R \in SUBSET Requests, Expire(p, R) \/ Purge(p, R)
      PROVE  Images'
  <2>1. UNCHANGED <<images, job, wpc, saved>> /\ leaked \subseteq leaked'
    BY <1>3 DEF Expire, Purge
  <2>2. ASSUME NEW q \in Requests
        PROVE  \/ status'[q] = status[q]
               \/ status[q] \in Live /\ status'[q] = "error"
               \/ status'[q] = "deleted"
    BY <1>3 DEF Expire, ExpireRows, Expirable, CloseRows, Purge, DeleteRows, IInv
  <2> QED  BY <2>1, <2>2, RowsImages DEF IInv
<1>4. ASSUME NEW p \in Procs, Reap(p)  PROVE Images'
  <2>1. UNCHANGED <<images, job, wpc, saved, status>> /\ leaked \subseteq leaked'
    BY <1>4 DEF Reap, RefundExpired, Sweep, Refund
  <2> QED  BY <2>1, RowsImages DEF IInv
<1>5. ASSUME NEW w \in Slots, NEW r \in Requests, Claim(w, r)  PROVE Images'
  <2> USE <1>5 DEF Claim, ClaimRow, Claimable
  <2>1. NoStrayImages'
    BY DEF IInv, Images, NoStrayImages
  <2>2. ASSUME NEW v \in Slots  PROVE RunImages(v)'
    BY DEF IInv, Images, RunImages
  <2>3. SuccessKept'
    <3>1. ASSUME NEW q \in Requests, NEW v \in Slots, KeptBy(q, v), status[q] = "success"
          PROVE  KeptBy(q, v)'
      BY <3>1 DEF IInv, KeptBy
    <3>2. \A q \in Requests : status'[q] = "success" => status[q] = "success"
      BY DEF IInv
    <3> QED  BY <3>1, <3>2 DEF Images, SuccessKept
  <2> QED  BY <2>1, <2>2, <2>3 DEF Images
<1>6. CASE CrashAPI
  <2>1. UNCHANGED <<images, job, wpc, saved, status>> /\ leaked \subseteq leaked'
    BY <1>6 DEF CrashAPI
  <2> QED  BY <2>1, RowsImages DEF IInv
<1>7. ASSUME NEW p \in Procs, CrashWorker(p)  PROVE Images'
  <2> DEFINE mine == {w \in Slots : ProcOf[w] = p}
  <2>1. /\ status' = status /\ leaked \subseteq leaked'
        /\ \A v \in mine : wpc'[v] = "idle" /\ job'[v] = NoTask /\ saved'[v] = 0
        /\ \A v \in Slots \ mine : wpc'[v] = wpc[v] /\ job'[v] = job[v] /\ saved'[v] = saved[v]
    BY <1>7 DEF CrashWorker
  <2>2. \A q \in Requests, v \in Slots :
          /\ <<q, v>> \in images' => <<q, v>> \in images
          /\ <<q, v>> \in images' /\ v \in mine => status[q] \in {"success", "deleted"}
          /\ <<q, v>> \in images /\ (v \notin mine \/ status[q] = "success") =>
               <<q, v>> \in images'
    BY <1>7 DEF CrashWorker
  <2> HIDE DEF mine
  <2>3. NoStrayImages'
    BY <2>1, <2>2 DEF Images, NoStrayImages
  <2>4. ASSUME NEW v \in Slots  PROVE RunImages(v)'
    <3>1. CASE v \in mine
      BY <2>1, <3>1 DEF RunImages
    <3>2. CASE v \notin mine
      <4>1. saved[v] > 0 => job[v] \in Requests
        BY DEF IInv
      <4> QED  BY <2>1, <2>2, <3>2, <4>1 DEF Images, RunImages
    <3> QED  BY <3>1, <3>2
  <2>5. SuccessKept'
    <3>1. ASSUME NEW q \in Requests, NEW v \in Slots, KeptBy(q, v), status[q] = "success"
          PROVE  KeptBy(q, v)'
      BY <2>1, <2>2, <3>1 DEF KeptBy
    <3> QED  BY <2>1, <3>1 DEF Images, SuccessKept
  <2> QED  BY <2>3, <2>4, <2>5 DEF Images
<1>8. CASE UNCHANGED vars
  BY <1>8, RowsImages DEF vars, IInv
<1>9. Rest => UNCHANGED vars
  BY DEF Rest
<1> QED  BY <1>1, <1>2, <1>3, <1>4, <1>5, <1>6, <1>7, <1>8, <1>9, RunsImages DEF Next

FilesInv == IInv /\ Inputs /\ Images

LEMMA FilesInductive == Spec => []FilesInv
<1>1. Init => FilesInv
  <2> SUFFICES ASSUME Init  PROVE FilesInv
    OBVIOUS
  <2>1. Inputs
    BY ImageTasksAssumption DEF Init, TableInit, Inputs, InputsOf, Settling, Live
  <2>2. Images
    BY DEF Init, TableInit, Images, NoStrayImages, RunImages, SuccessKept
  <2> QED  BY <2>1, <2>2, InitIInv DEF FilesInv
<1>2. FilesInv /\ [Next]_vars => FilesInv'
  BY NextIInv, NextInputs, NextImages DEF FilesInv
<1> QED  BY <1>1, <1>2, PTL DEF Spec

(* An edit that can still run finds its input images, though others delete *)
(* the inputs of the same task's other requests (cleanupTaskInputPaths).   *)
THEOREM InputsStay == Spec => []InputsAvailable
<1>1. FilesInv => InputsAvailable
  BY ImageTasksAssumption DEF FilesInv, Inputs, InputsOf, InputsAvailable
<1> QED  BY <1>1, FilesInductive, PTL

(* Somebody is always left who will delete an input directory: creator,    *)
(* row or purge, unless a crash hit one of them.                           *)
THEOREM InputsHaveOwner == Spec => []NoStrayInputs
<1>1. FilesInv => NoStrayInputs
  BY DEF FilesInv, Inputs, InputsOf, NoStrayInputs, IInv, TypeOK
<1> QED  BY <1>1, FilesInductive, PTL

(* Where no limit evicts files, a run that lost its claim never removes    *)
(* the images of the run that completed the task.                          *)
THEOREM SuccessKeepsImages == Spec => []SuccessHasImages
<1>1. FilesInv => SuccessHasImages
  BY DEF FilesInv, Images, SuccessKept, KeptBy, SuccessHasImages
<1> QED  BY <1>1, FilesInductive, PTL

(* A run that lost its claim, was canceled, failed or died leaves no image *)
(* behind (cleanupSavedImageResults).                                      *)
THEOREM NoImagesLeft == Spec => []NoStrayImages
<1>1. FilesInv => NoStrayImages
  BY DEF FilesInv, Images
<1> QED  BY <1>1, FilesInductive, PTL

-----------------------------------------------------------------------------
(* Counters: what is charged to a key, image by image.                     *)

Block(r, a, b) == {r} \X ((a + 1)..b)

LEMMA BlockCount ==
  ASSUME NEW r \in Requests, NEW a \in Nat, NEW b \in Nat, a <= b
  PROVE  IsFiniteSet(Block(r, a, b)) /\ Cardinality(Block(r, a, b)) = b - a
<1>1. IsFiniteSet((a + 1)..b) /\ Cardinality((a + 1)..b) = b - a
  <2>1. a + 1 \in Int /\ b \in Int
    OBVIOUS
  <2>2. /\ IsFiniteSet((a + 1)..b)
        /\ Cardinality((a + 1)..b) = IF a + 1 > b THEN 0 ELSE b - (a + 1) + 1
    BY <2>1, FS_Interval, Zenon
  <2>3. (IF a + 1 > b THEN 0 ELSE b - (a + 1) + 1) = b - a
    OBVIOUS
  <2> QED  BY <2>2, <2>3
<1>2. IsFiniteSet({r}) /\ Cardinality({r}) = 1
  BY FS_Singleton
<1>3. /\ IsFiniteSet({r} \X ((a + 1)..b))
      /\ Cardinality({r} \X ((a + 1)..b)) = Cardinality({r}) * Cardinality((a + 1)..b)
  BY <1>1, <1>2, FS_Product, Zenon
<1> QED  BY <1>1, <1>2, <1>3 DEF Block

(* The unit p is the k-th image of the request q.                          *)
LEMMA UnitIs ==
  ASSUME NEW o, NEW count, NEW p
  PROVE  p \in Units(o, count) <=>
           \E q \in Requests, k \in 1..4 : /\ p = <<q, k>>
                                           /\ OwnerOf[q] = o /\ k <= count[q]
  BY DEF Units

LEMMA BlockIs ==
  ASSUME NEW r \in Requests, NEW a \in Nat, NEW b \in Nat, NEW p
  PROVE  p \in Block(r, a, b) <=> \E k \in Nat : p = <<r, k>> /\ a < k /\ k <= b
  BY DEF Block

(* Raising the count of one request adds a block of units.                 *)
LEMMA OneMore ==
  ASSUME NEW r \in Requests, NEW f \in [Requests -> Int], NEW g \in [Requests -> Int],
         \A q \in Requests \ {r} : f[q] = g[q],
         f[r] \in 0..4, g[r] \in 0..4, f[r] <= g[r],
         NEW o \in Owners, IsFiniteSet(Units(o, f)) \/ IsFiniteSet(Units(o, g))
  PROVE  /\ IsFiniteSet(Units(o, f)) /\ IsFiniteSet(Units(o, g))
         /\ Cardinality(Units(o, g)) =
              Cardinality(Units(o, f)) + IF OwnerOf[r] = o THEN g[r] - f[r] ELSE 0
<1> DEFINE B == Block(r, f[r], g[r])
<1>1. CASE OwnerOf[r] # o
  <2>1. \A q \in Requests : OwnerOf[q] = o => f[q] = g[q]
    BY <1>1
  <2>2. Units(o, f) = Units(o, g)
    BY <2>1 DEF Units
  <2>3. Cardinality(Units(o, f)) \in Nat
    BY <2>2, FS_CardinalityType
  <2> QED  BY <1>1, <2>2, <2>3
<1>2. CASE OwnerOf[r] = o
  <2>1. IsFiniteSet(B) /\ Cardinality(B) = g[r] - f[r]
    BY BlockCount
  <2>2. ASSUME NEW p  PROVE p \in Units(o, g) <=> p \in Units(o, f) \/ p \in B
    <3>1. ASSUME NEW q \in Requests, NEW k \in 1..4, OwnerOf[q] = o
          PROVE  k <= g[q] <=> k <= f[q] \/ (q = r /\ f[r] < k /\ k <= g[r])
      BY <3>1
    <3>2. p \in B <=> \E k \in 1..4 : p = <<r, k>> /\ f[r] < k /\ k <= g[r]
      BY BlockIs
    <3> HIDE DEF B
    <3> QED  BY <1>2, <3>1, <3>2, UnitIs
  <2>3. ASSUME NEW p  PROVE ~(p \in Units(o, f) /\ p \in B)
    <3>1. p \in B => \E k \in Nat : p = <<r, k>> /\ f[r] < k
      BY BlockIs
    <3> HIDE DEF B
    <3> QED  BY <3>1, UnitIs
  <2> HIDE DEF B
  <2>4. Units(o, g) = Units(o, f) \cup B /\ Units(o, f) \cap B = {}
    BY <2>2, <2>3
  <2>5. IsFiniteSet(Units(o, f))
    <3>1. Units(o, f) \in SUBSET Units(o, g)
      BY <2>4
    <3> QED  BY <3>1, FS_Subset
  <2>6. /\ IsFiniteSet(Units(o, g))
        /\ Cardinality(Units(o, g)) =
             Cardinality(Units(o, f)) + Cardinality(B) - Cardinality(Units(o, f) \cap B)
    BY <2>1, <2>4, <2>5, FS_Union, Zenon
  <2>7. Cardinality(Units(o, f) \cap B) = 0 /\ Cardinality(Units(o, f)) \in Nat
    BY <2>4, <2>5, FS_EmptySet, FS_CardinalityType
  <2> QED  BY <1>2, <2>1, <2>5, <2>6, <2>7
<1> QED  BY <1>1, <1>2

Ledger ==
  \A o \in Owners :
    /\ used[o] <= Quota[o]
    /\ NeverGifted(o) =>
         IsFiniteSet(Units(o, net)) /\ used[o] = Cardinality(Units(o, net))

Charged(r) ==
  LET o == OwnerOf[r]
  IN  /\ net[r] = 0 /\ Enough(o, Want[r])
      /\ used' = [used EXCEPT ![o] = @ + Want[r]]
      /\ net' = [net EXCEPT ![r] = @ + Want[r]]
Returned(r) ==
  \E n \in Nat : /\ used' = [used EXCEPT ![OwnerOf[r]] = IF @ > n THEN @ - n ELSE 0]
                 /\ net' = [net EXCEPT ![r] = @ - n]

(* All that happens to the account.                                        *)
LEMMA AccountMoves ==
  ASSUME IInv, [Next]_vars
  PROVE  /\ gifted \subseteq gifted'
         /\ UNCHANGED account \/ \E r \in Requests : Charged(r) \/ Returned(r)
<1> USE DEF account, history, Refund
<1>0. /\ TypeOK /\ RunsOK /\ \A r \in Requests : Want[r] \in Nat
      /\ \A r \in Requests : rpc[r] = "consume" => net[r] = 0
  BY WantType DEF IInv, Amounts, AmountsOf
<1>1. ASSUME NEW r \in Requests, Create(r)
      PROVE  /\ gifted \subseteq gifted'
             /\ UNCHANGED account \/ Charged(r) \/ Returned(r)
  BY <1>0, <1>1 DEF Create, Lookup, Consume, SaveInputs, Insert, RefundRequest, CleanRequest,
                    Charged, Returned
<1>2. ASSUME NEW r \in Requests, Cancel(r) \/ FinishCancel(r) \/ Tick(r)
      PROVE  gifted' = gifted /\ (UNCHANGED account \/ Returned(r))
  BY <1>0, <1>2 DEF Cancel, FinishCancel, RefundCanceled, CleanCanceled, Tick, Returned
<1>3. ASSUME NEW w \in Slots, Run(w)
      PROVE  gifted' = gifted /\ (UNCHANGED account \/ (job[w] \in Requests /\ Returned(job[w])))
  <2>1. CASE RefundTask(w) \/ Settle(w)
    <3>1. job[w] \in Requests /\ saved[w] \in Nat /\ saved[w] <= Want[job[w]]
      BY <1>0, <2>1 DEF RefundTask, Settle, RunsOK, TypeOK
    <3>2. Want[job[w]] \in Nat /\ Want[job[w]] - saved[w] \in Nat
      BY <1>0, <3>1
    <3> QED  BY <2>1, <3>1, <3>2 DEF RefundTask, Settle, Returned
  <2>2. CASE ~(RefundTask(w) \/ Settle(w))
    BY <1>3, <2>2 DEF Run, Finish, Generate, Requeue, GiveUp, BeatBeforeSave, StoreImage,
                      Complete, CleanTask
  <2> QED  BY <2>1, <2>2
<1>4. ASSUME NEW w \in Slots, Heartbeat(w) \/ \E r \in Requests : Claim(w, r)
      PROVE  gifted' = gifted /\ UNCHANGED account
  BY <1>4 DEF Heartbeat, Claim
<1>5. ASSUME NEW p \in Procs, Reap(p)
      PROVE  gifted' = gifted /\ (UNCHANGED account \/ \E r \in Requests : Returned(r))
  BY <1>0, <1>5 DEF Reap, RefundExpired, Sweep, Returned
<1>6. ASSUME NEW p \in Procs,
             CrashWorker(p) \/ \E R \in SUBSET Requests : Expire(p, R) \/ Purge(p, R)
      PROVE  gifted' = gifted /\ UNCHANGED account
  BY <1>6 DEF CrashWorker, Expire, Purge
<1>7. CrashAPI \/ Rest \/ UNCHANGED vars => gifted' = gifted /\ UNCHANGED account
  BY DEF CrashAPI, Rest, vars
<1> HIDE DEF account, history, Refund
<1> QED  BY <1>1, <1>2, <1>3, <1>4, <1>5, <1>6, <1>7 DEF Next

LEMMA NextLedger ==
  ASSUME IInv, IInv', Ledger, [Next]_vars
  PROVE  Ledger'
<1> SUFFICES ASSUME NEW o \in Owners
             PROVE  /\ used'[o] <= Quota[o]
                    /\ NeverGifted(o)' =>
                         IsFiniteSet(Units(o, net')) /\ used'[o] = Cardinality(Units(o, net'))
  BY DEF Ledger, Units
<1>0. /\ gifted \subseteq gifted' /\ used \in [Owners -> Nat] /\ Quota[o] \in Nat
      /\ net \in [Requests -> Int] /\ net' \in [Requests -> Int]
      /\ used[o] <= Quota[o]
      /\ NeverGifted(o)' => NeverGifted(o) /\ IsFiniteSet(Units(o, net))
                            /\ used[o] = Cardinality(Units(o, net))
  BY AccountMoves, ImageTasksAssumption DEF IInv, TypeOK, Ledger, NeverGifted
<1>1. CASE UNCHANGED account
  BY <1>0, <1>1 DEF account
<1>2. ASSUME NEW r \in Requests, Charged(r)
      PROVE  /\ used'[o] <= Quota[o]
             /\ NeverGifted(o)' =>
                  IsFiniteSet(Units(o, net')) /\ used'[o] = Cardinality(Units(o, net'))
  <2>1. /\ net[r] = 0 /\ net'[r] = Want[r] /\ Want[r] \in 1..4
        /\ \A q \in Requests \ {r} : net[q] = net'[q]
        /\ used'[o] = used[o] + IF OwnerOf[r] = o THEN Want[r] ELSE 0
        /\ OwnerOf[r] = o => used[o] + Want[r] <= Quota[o]
    BY <1>0, <1>2, WantType DEF Charged, Enough
  <2>2. ASSUME NeverGifted(o)'
        PROVE  /\ IsFiniteSet(Units(o, net'))
               /\ Cardinality(Units(o, net')) =
                    Cardinality(Units(o, net)) + IF OwnerOf[r] = o THEN net'[r] - net[r] ELSE 0
    BY <1>0, <2>1, <2>2, OneMore
  <2> QED  BY <1>0, <2>1, <2>2
<1>3. ASSUME NEW r \in Requests, Returned(r)
      PROVE  /\ used'[o] <= Quota[o]
             /\ NeverGifted(o)' =>
                  IsFiniteSet(Units(o, net')) /\ used'[o] = Cardinality(Units(o, net'))
  <2>1. PICK n \in Nat : /\ used' = [used EXCEPT ![OwnerOf[r]] = IF @ > n THEN @ - n ELSE 0]
                         /\ net' = [net EXCEPT ![r] = @ - n]
    BY <1>3 DEF Returned
  <2>2. /\ net'[r] = net[r] - n
        /\ \A q \in Requests \ {r} : net[q] = net'[q]
        /\ used'[o] = IF OwnerOf[r] = o THEN IF used[o] > n THEN used[o] - n ELSE 0
                                        ELSE used[o]
        /\ used'[o] <= used[o]
    BY <1>0, <2>1, WantType
  <2>3. used'[o] <= Quota[o]
    BY <1>0, <2>2
  <2>4. ASSUME NeverGifted(o)', OwnerOf[r] # o
        PROVE  IsFiniteSet(Units(o, net')) /\ used'[o] = Cardinality(Units(o, net'))
    <3>1. Units(o, net') = Units(o, net)
      BY <2>2, <2>4 DEF Units
    <3> QED  BY <1>0, <2>2, <2>4, <3>1
  <2>5. ASSUME NeverGifted(o)', OwnerOf[r] = o
        PROVE  IsFiniteSet(Units(o, net')) /\ used'[o] = Cardinality(Units(o, net'))
    <3>1. net'[r] \in 0..4 /\ net[r] \in 0..4 /\ net'[r] <= net[r]
      <4>1. r \notin gifted /\ r \notin gifted'
        BY <1>0, <2>5 DEF NeverGifted
      <4>2. /\ net[r] <= Want[r] /\ net'[r] >= delivered'[r] /\ delivered'[r] >= 0
            /\ delivered'[r] \in Int /\ Want[r] \in 1..4
        BY <4>1, WantType DEF IInv, Amounts, AmountsOf, TypeOK
      <4> QED  BY <1>0, <2>2, <4>2
    <3>2. /\ IsFiniteSet(Units(o, net'))
          /\ Cardinality(Units(o, net)) = Cardinality(Units(o, net')) + (net[r] - net'[r])
      BY <1>0, <2>2, <2>5, <3>1, OneMore
    <3>3. PICK c \in Nat : c = Cardinality(Units(o, net'))
      BY <3>2, FS_CardinalityType
    <3>4. net[r] - net'[r] = n
      BY <2>2, <3>1
    <3>5. used[o] = c + n
      BY <1>0, <2>5, <3>2, <3>3, <3>4
    <3>6. used'[o] = c
      BY <2>2, <2>5, <3>5
    <3> QED  BY <3>2, <3>3, <3>6
  <2> QED  BY <2>3, <2>4, <2>5
<1> QED  BY <1>1, <1>2, <1>3, AccountMoves

LEMMA LedgerInductive == Spec => [](IInv /\ Ledger)
<1>1. Init => IInv /\ Ledger
  <2> SUFFICES ASSUME Init  PROVE Ledger
    BY InitIInv
  <2>1. ASSUME NEW o \in Owners  PROVE Units(o, net) = {} /\ used[o] = 0 /\ Quota[o] \in Nat
    BY ImageTasksAssumption DEF Init, Units
  <2> QED  BY <2>1, FS_EmptySet DEF Ledger
<1>2. IInv /\ Ledger /\ [Next]_vars => (IInv /\ Ledger)'
  BY NextIInv, NextLedger
<1> QED  BY <1>1, <1>2, PTL DEF Spec

(* The counter of a key whose charges were all stored is what its requests *)
(* are charged, so no refund is cut off at zero (consumeImage,             *)
(* refundImage).                                                           *)
THEOREM LedgerBalances == Spec => []CounterMatchesLedger
<1>1. Ledger => CounterMatchesLedger
  BY DEF Ledger, CounterMatchesLedger
<1> QED  BY <1>1, LedgerInductive, PTL

(* Results never hold more images than the key's quota, however many       *)
(* requests are in flight (createDBImageTask charges before the row).      *)
THEOREM DeliveredWithinQuota == Spec => []QuotaRespected
<1>1. IInv /\ Ledger => QuotaRespected
  <2> SUFFICES ASSUME IInv, Ledger, NEW o \in Owners, NeverGifted(o)
               PROVE  Cardinality(Units(o, delivered)) <= Quota[o]
    BY DEF QuotaRespected
  <2>1. /\ used[o] <= Quota[o] /\ used[o] = Cardinality(Units(o, net))
        /\ IsFiniteSet(Units(o, net))
    BY DEF Ledger
  <2>2. \A r \in Requests : OwnerOf[r] = o => delivered[r] <= net[r]
    BY DEF IInv, Amounts, AmountsOf, NeverGifted
  <2>3. Units(o, delivered) \in SUBSET Units(o, net)
    BY <2>2 DEF Units, IInv, TypeOK
  <2>4. /\ IsFiniteSet(Units(o, delivered))
        /\ Cardinality(Units(o, delivered)) <= Cardinality(Units(o, net))
    BY <2>1, <2>3, FS_Subset
  <2>5. Cardinality(Units(o, delivered)) \in Nat /\ Quota[o] \in Nat /\ used[o] \in Nat
    BY <2>4, FS_CardinalityType, ImageTasksAssumption DEF IInv, TypeOK
  <2> QED  BY <2>1, <2>4, <2>5
<1> QED  BY <1>1, LedgerInductive, PTL
=============================================================================
