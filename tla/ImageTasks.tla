----------------------------- MODULE ImageTasks -----------------------------
(***************************************************************************)
(* The closed loop of an image task: an API process charges the key and    *)
(* inserts the row, worker processes claim it under a lease, generate and  *)
(* store the images, and whoever ends the task settles the charge and      *)
(* deletes the stored input images.                                        *)
(*                                                                         *)
(* The table is TaskTable.  The other shared state is on disk: the user    *)
(* keys' counters, the input directories (data/task_inputs, one per create *)
(* request) and the image files.  A step is one statement, one update of a *)
(* store file or one file operation, so everything can happen between two  *)
(* of a handler's steps: other handlers, a lapse of the claim, the         *)
(* deadline, a crash.                                                      *)
(*                                                                         *)
(* The kinds of fault: a statement fails, a statement commits and its      *)
(* reply is lost, a store file cannot be updated, a process dies.  At most *)
(* MaxFaults of them happen in a behaviour.                                *)
(***************************************************************************)
EXTENDS TaskTable, Integers, FiniteSets

CONSTANTS Owners,         (* user keys (a root identity is never charged)    *)
          OwnerOf,        (* the key a request is made with                  *)
          Quota,          (* images a key may use                            *)
          Want,           (* images a request asks for: n, clamped to 1..4   *)
          Edits,          (* the requests with input images                  *)
          Procs,          (* worker processes                                *)
          ProcOf,         (* the process a slot belongs to                   *)
          NoTask,
          StorageLimited, (* image_max_storage_mb > 0                        *)
          MaxFaults

ASSUME ImageTasksAssumption ==
  /\ OwnerOf \in [Requests -> Owners]
  /\ Quota \in [Owners -> Nat]
  /\ Want \in [Requests -> 1..4]
  /\ Edits \subseteq Requests
  /\ \A r \in Edits : Want[r] = 1
  /\ \A q, r \in Requests : TaskOf[q] = TaskOf[r] => OwnerOf[q] = OwnerOf[r]
  /\ ProcOf \in [Slots -> Procs]
  /\ NoTask \notin Requests
  /\ StorageLimited \in BOOLEAN
  /\ MaxFaults \in Nat

VARIABLES
  used,       (* the counter of a key                                        *)
  rpc,        (* where the create handler of a request is                    *)
  cpc,        (* where the cancel handler that canceled a row is             *)
  wpc, job,   (* where a slot is in runDBImageTask, and on which row         *)
  got, saved, (* images a slot's run generated, and stored so far            *)
  reap,       (* rows a process expired and has not refunded yet             *)
  sweep,      (* rows whose inputs a process is about to delete              *)
  inputs,     (* requests whose input directory exists                       *)
  images      (* <<r, w>>: what slot w stored for row r is all on disk       *)

(* History of the behaviour, read by properties only.                        *)
VARIABLES
  net,        (* images charged for a request, less those refunded           *)
  delivered,  (* images in the result of a row that succeeded                *)
  leaked,     (* requests a fault may have cost the user images              *)
  gifted,     (* requests a fault may have given the user images             *)
  littered,   (* requests a crash may have left an input directory of        *)
  faults      (* faults so far                                               *)

creator  == <<rpc>>
canceler == <<cpc>>
worker   == <<wpc, job, got, saved>>
reaper   == <<reap, sweep>>
disk     == <<inputs, images>>
history  == <<delivered, leaked, gifted, littered>>
account  == <<used, net>>

vars == <<table, creator, canceler, worker, reaper, disk, history, account, faults>>

-----------------------------------------------------------------------------
TypeOK ==
  /\ TableTypeOK
  /\ used \in [Owners -> Nat]
  /\ rpc \in [Requests -> {"lookup", "consume", "save", "insert", "refund",
                           "clean", "done"}]
  /\ cpc \in [Requests -> {"none", "refund", "clean"}]
  /\ wpc \in [Slots -> {"idle", "generate", "beat", "store", "complete",
                        "failing", "refund", "settle", "clean"}]
  /\ job \in [Slots -> Requests \cup {NoTask}]
  /\ got \in [Slots -> 0..4]
  /\ saved \in [Slots -> 0..4]
  /\ reap \in [Procs -> SUBSET Requests]
  /\ sweep \in [Procs -> SUBSET Requests]
  /\ inputs \subseteq Requests
  /\ images \subseteq Requests \X Slots
  /\ net \in [Requests -> Int]
  /\ delivered \in [Requests -> 0..4]
  /\ leaked \subseteq Requests
  /\ gifted \subseteq Requests
  /\ littered \subseteq Requests
  /\ faults \in Nat

Init ==
  /\ TableInit
  /\ used = [o \in Owners |-> 0]
  /\ rpc = [r \in Requests |-> "lookup"]
  /\ cpc = [r \in Requests |-> "none"]
  /\ wpc = [w \in Slots |-> "idle"]
  /\ job = [w \in Slots |-> NoTask]
  /\ got = [w \in Slots |-> 0]
  /\ saved = [w \in Slots |-> 0]
  /\ reap = [p \in Procs |-> {}]
  /\ sweep = [p \in Procs |-> {}]
  /\ inputs = {}
  /\ images = {}
  /\ net = [r \in Requests |-> 0]
  /\ delivered = [r \in Requests |-> 0]
  /\ leaked = {}
  /\ gifted = {}
  /\ littered = {}
  /\ faults = 0

-----------------------------------------------------------------------------
Fault   == faults < MaxFaults /\ faults' = faults + 1
NoFault == UNCHANGED faults

(* enough: the part of a quota that is left covers n images.                *)
EnoughForOne(o, n) == Quota[o] - used[o] >= 1                   (* mutant *)

Enough(o, n) == Quota[o] - used[o] >= n

(* Mutants of Refund: a counter that is not stored; one image whatever n    *)
(* is.                                                                      *)
RefundNotStored(r, n) ==
  /\ net' = [net EXCEPT ![r] = @ - n]
  /\ UNCHANGED <<used, leaked>> /\ NoFault
RefundOne(r, n) ==
  /\ used' = [used EXCEPT ![OwnerOf[r]] = IF @ > 1 THEN @ - 1 ELSE 0]
  /\ net' = [net EXCEPT ![r] = @ - 1]
  /\ UNCHANGED leaked /\ NoFault

(* refundImage(owner of r, n): the counter never goes below zero, and the    *)
(* error of a failed update of the store is dropped.                         *)
Refund(r, n) ==
  \/ /\ used' = [used EXCEPT ![OwnerOf[r]] = IF @ > n THEN @ - n ELSE 0]
     /\ net' = [net EXCEPT ![r] = @ - n]
     /\ UNCHANGED leaked
     /\ NoFault
  \/ /\ leaked' = leaked \cup {r}
     /\ UNCHANGED account
     /\ Fault

(* Mutants of CleanInputs: nothing deleted; a directory per task.           *)
KeepInputs(r) == inputs' = inputs
CleanInputsOfTask(r) == inputs' = {q \in inputs : TaskOf[q] # TaskOf[r]}

(* cleanupTaskInputPaths: the paths are the request's own.                   *)
CleanInputs(r) == inputs' = inputs \ {r}

-----------------------------------------------------------------------------
(* createDBImageTask, one action per step.                                   *)

(* GetTask: a row found is returned as it is; a miss, or an error, goes on.  *)
Lookup(r) ==
  /\ rpc[r] = "lookup"
  /\ \/ KeyTaken(r) /\ rpc' = [rpc EXCEPT ![r] = "done"]
     \/ rpc' = [rpc EXCEPT ![r] = "consume"]
  /\ UNCHANGED <<table, canceler, worker, reaper, disk, history, account, faults>>

AfterConsume(r) == IF r \in Edits THEN "save" ELSE "insert"

(* consumeImage: its verdict comes from the closure, so a store file that    *)
(* cannot be written still lets the request through, uncharged.              *)
Consume(r) ==
  LET o == OwnerOf[r]
  IN  /\ rpc[r] = "consume"
      /\ \/ /\ Enough(o, Want[r])
            /\ used' = [used EXCEPT ![o] = @ + Want[r]]
            /\ net' = [net EXCEPT ![r] = @ + Want[r]]
            /\ rpc' = [rpc EXCEPT ![r] = AfterConsume(r)]
            /\ UNCHANGED gifted
            /\ NoFault
         \/ /\ Enough(o, Want[r])
            /\ gifted' = gifted \cup {r}
            /\ rpc' = [rpc EXCEPT ![r] = AfterConsume(r)]
            /\ UNCHANGED account
            /\ Fault
         \/ /\ ~Enough(o, Want[r])
            /\ rpc' = [rpc EXCEPT ![r] = "done"]
            /\ UNCHANGED <<account, gifted>>
            /\ NoFault
      /\ UNCHANGED <<table, canceler, worker, reaper, disk, delivered, leaked, littered>>

(* saveTaskInputImages: a directory of the request's own; it removes what it *)
(* wrote when it fails, and then the charge is refunded.                     *)
SaveInputs(r) ==
  /\ rpc[r] = "save"
  /\ \/ /\ inputs' = inputs \cup {r}
        /\ rpc' = [rpc EXCEPT ![r] = "insert"]
        /\ NoFault
     \/ /\ rpc' = [rpc EXCEPT ![r] = "refund"]
        /\ UNCHANGED inputs
        /\ Fault
  /\ UNCHANGED <<table, canceler, worker, reaper, images, history, account>>

(* CreateTask: created, not created because of the key, or failed, with the  *)
(* row inserted all the same when only the reply was lost.                   *)
Insert(r) ==
  /\ rpc[r] = "insert"
  /\ \/ /\ InsertRow(r)
        /\ rpc' = [rpc EXCEPT ![r] = "done"]
        /\ UNCHANGED gifted
        /\ NoFault
     \/ /\ KeyTaken(r)
        /\ rpc' = [rpc EXCEPT ![r] = "refund"]
        /\ UNCHANGED <<table, gifted>>
        /\ NoFault
     \/ /\ rpc' = [rpc EXCEPT ![r] = "refund"]
        /\ \/ UNCHANGED <<table, gifted>>
           \/ InsertRow(r) /\ gifted' = gifted \cup {r}
        /\ Fault
  /\ UNCHANGED <<canceler, worker, reaper, disk, delivered, leaked, littered, account>>

RefundRequest(r) ==
  /\ rpc[r] = "refund"
  /\ Refund(r, Want[r])
  /\ rpc' = [rpc EXCEPT ![r] = "clean"]
  /\ UNCHANGED <<table, canceler, worker, reaper, disk, delivered, gifted, littered>>

CleanRequest(r) ==
  /\ rpc[r] = "clean"
  /\ CleanInputs(r)
  /\ rpc' = [rpc EXCEPT ![r] = "done"]
  /\ UNCHANGED <<table, canceler, worker, reaper, images, history, account, faults>>

Create(r) == \/ Lookup(r) \/ Consume(r) \/ SaveInputs(r) \/ Insert(r)
             \/ RefundRequest(r) \/ CleanRequest(r)

-----------------------------------------------------------------------------
(* handleImageTaskCancel: CancelTask, then refund and clean up for the row   *)
(* the statement returned.  When its reply is lost nobody does.              *)
Cancel(r) ==
  /\ CancelRow(r)
  /\ \/ cpc' = [cpc EXCEPT ![r] = "refund"] /\ UNCHANGED leaked /\ NoFault
     \/ leaked' = leaked \cup {r} /\ UNCHANGED cpc /\ Fault
  /\ UNCHANGED <<creator, worker, reaper, disk, delivered, gifted, littered, account>>

RefundCanceled(r) ==
  /\ cpc[r] = "refund"
  /\ Refund(r, Want[r])
  /\ cpc' = [cpc EXCEPT ![r] = "clean"]
  /\ UNCHANGED <<table, creator, worker, reaper, disk, delivered, gifted, littered>>

CleanCanceled(r) ==
  /\ cpc[r] = "clean"
  /\ CleanInputs(r)
  /\ cpc' = [cpc EXCEPT ![r] = "none"]
  /\ UNCHANGED <<table, creator, worker, reaper, images, history, account, faults>>

FinishCancel(r) == RefundCanceled(r) \/ CleanCanceled(r)

-----------------------------------------------------------------------------
(* runDBImageTask, one action per step of a slot.                            *)

GoTo(w, pc) ==
  /\ wpc' = [wpc EXCEPT ![w] = pc]
  /\ UNCHANGED <<job, got, saved>>

BecomeIdle(w) ==
  /\ wpc' = [wpc EXCEPT ![w] = "idle"]
  /\ job' = [job EXCEPT ![w] = NoTask]
  /\ got' = [got EXCEPT ![w] = 0]
  /\ saved' = [saved EXCEPT ![w] = 0]

(* Mutants of DropImages: nothing deleted; file names shared by the runs.   *)
KeepImages(w) == images' = images
DropImagesOfTask(w) == images' = images \ ({job[w]} \X Slots)

(* cleanupSavedImageResults(savedRels).                                      *)
DropImages(w) == images' = images \ {<<job[w], w>>}

(* ClaimTask, its reply lost or not.                                         *)
Claim(w, r) ==
  /\ wpc[w] = "idle"
  /\ ClaimRow(r, w)
  /\ \/ /\ wpc' = [wpc EXCEPT ![w] = "generate"]
        /\ job' = [job EXCEPT ![w] = r]
        /\ UNCHANGED <<got, saved>>
        /\ NoFault
     \/ UNCHANGED worker /\ Fault
  /\ UNCHANGED <<creator, canceler, reaper, disk, history, account>>

(* The goroutine of startTaskHeartbeat, for as long as the run lasts.        *)
Heartbeat(w) ==
  /\ job[w] \in Requests
  /\ lapsed[job[w]] /\ RenewRow(job[w], w)
  /\ UNCHANGED <<creator, canceler, worker, reaper, disk, history, account, faults>>

(* generateTaskImagesForIdentity returns k images.  A canceled context does  *)
(* not exclude this: images that were complete by then are returned.         *)
Generate(w, k) ==
  /\ wpc[w] = "generate"
  /\ job[w] \in Edits => job[w] \in inputs
  /\ k \in 1..Want[job[w]]
  /\ wpc' = [wpc EXCEPT ![w] = "beat"]
  /\ got' = [got EXCEPT ![w] = k]
  /\ UNCHANGED <<table, creator, canceler, job, saved, reaper, disk, history,
                 account, faults>>

(* Every account is busy.                                                    *)
Requeue(w) ==
  /\ wpc[w] = "generate"
  /\ BecomeIdle(w)
  /\ \/ RequeueRow(job[w], w) /\ NoFault
     \/ ~HeldBy(job[w], w) /\ UNCHANGED table /\ NoFault
     \/ UNCHANGED table /\ Fault
  /\ UNCHANGED <<creator, canceler, reaper, disk, history, account>>

(* FailTask, for a deadline that has passed, unreadable inputs, a refused    *)
(* model or size, a failed or canceled generation, or ("failing") an image   *)
(* that could not be stored.  Its error is dropped: `changed, _ :=`.         *)
GiveUp(w) ==
  /\ wpc[w] \in {"generate", "failing"}
  /\ \/ /\ FailRow(job[w], w)
        /\ GoTo(w, "refund")
        /\ UNCHANGED leaked
        /\ NoFault
     \/ /\ ~HeldBy(job[w], w)
        /\ BecomeIdle(w)
        /\ UNCHANGED <<table, leaked>>
        /\ NoFault
     \/ /\ BecomeIdle(w)
        /\ \/ UNCHANGED <<table, leaked>>
           \/ FailRow(job[w], w) /\ leaked' = leaked \cup {job[w]}
        /\ Fault
  /\ UNCHANGED <<creator, canceler, reaper, disk, delivered, gifted, littered, account>>

RefundTask(w) ==
  /\ wpc[w] = "refund"
  /\ Refund(job[w], Want[job[w]])
  /\ GoTo(w, "clean")
  /\ UNCHANGED <<table, creator, canceler, reaper, disk, delivered, gifted, littered>>

(* The heartbeat before each image: a claim that is gone, or a failed        *)
(* statement, drops what was stored and leaves the row alone.                *)
BeatBeforeSave(w) ==
  /\ wpc[w] = "beat"
  /\ \/ RenewRow(job[w], w) /\ GoTo(w, "store") /\ UNCHANGED images /\ NoFault
     \/ /\ UNCHANGED table
        /\ BecomeIdle(w) /\ DropImages(w)
        /\ \/ ~HeldBy(job[w], w) /\ NoFault
           \/ Fault
  /\ UNCHANGED <<creator, canceler, reaper, inputs, history, account>>

(* saveImageWithBaseURL and recordImageMetadata.  The storage limit may then *)
(* remove files of any other run or task, whatever their state.              *)
StoreImage(w) ==
  LET file == <<job[w], w>>
  IN  /\ wpc[w] = "store"
      /\ \/ /\ \E E \in SUBSET (images \ {file}) :
                 /\ StorageLimited \/ E = {}
                 /\ images' = (IF saved[w] = 0 THEN images \cup {file} ELSE images) \ E
            /\ saved' = [saved EXCEPT ![w] = @ + 1]
            /\ wpc' = [wpc EXCEPT ![w] = IF saved[w] + 1 < got[w]
                                         THEN "beat" ELSE "complete"]
            /\ UNCHANGED <<job, got>>
            /\ NoFault
         \/ /\ DropImages(w)
            /\ saved' = [saved EXCEPT ![w] = 0]
            /\ wpc' = [wpc EXCEPT ![w] = "failing"]
            /\ UNCHANGED <<job, got>>
            /\ Fault
      /\ UNCHANGED <<table, creator, canceler, reaper, inputs, history, account>>

(* CompleteTask: settle when it changed the row, else drop the images.  An   *)
(* error drops them too, even when the statement had committed.              *)
Complete(w) ==
  LET r == job[w]
  IN  /\ wpc[w] = "complete"
      /\ \/ /\ CompleteRow(r, w)
            /\ delivered' = [delivered EXCEPT ![r] = saved[w]]
            /\ GoTo(w, IF saved[w] < Want[r] THEN "settle" ELSE "clean")
            /\ UNCHANGED <<images, leaked>>
            /\ NoFault
         \/ /\ BecomeIdle(w) /\ DropImages(w)
            /\ UNCHANGED delivered
            /\ \/ ~HeldBy(r, w) /\ UNCHANGED <<table, leaked>> /\ NoFault
               \/ UNCHANGED <<table, leaked>> /\ Fault
               \/ CompleteRow(r, w) /\ leaked' = leaked \cup {r} /\ Fault
      /\ UNCHANGED <<creator, canceler, reaper, inputs, gifted, littered, account>>

(* The images that were asked for and not made.                              *)
Settle(w) ==
  /\ wpc[w] = "settle"
  /\ Refund(job[w], Want[job[w]] - saved[w])
  /\ GoTo(w, "clean")
  /\ UNCHANGED <<table, creator, canceler, reaper, disk, delivered, gifted, littered>>

CleanTask(w) ==
  /\ wpc[w] = "clean"
  /\ CleanInputs(job[w])
  /\ BecomeIdle(w)
  /\ UNCHANGED <<table, creator, canceler, reaper, images, history, account, faults>>

Finish(w) == RefundTask(w) \/ Settle(w) \/ CleanTask(w)

Run(w) == \/ \E k \in 1..4 : Generate(w, k)
          \/ Requeue(w) \/ GiveUp(w) \/ BeatBeforeSave(w) \/ StoreImage(w)
          \/ Complete(w) \/ Finish(w)

-----------------------------------------------------------------------------
(* workerExpireLoop of a process: expireOverdueDBTasks, whose rows are       *)
(* refunded and cleaned one by one, then maybeCleanupFinishedDBTasks.        *)
Quiet(p) == reap[p] = {} /\ sweep[p] = {}

Expire(p, R) ==
  /\ Quiet(p)
  /\ R # {} /\ ExpireRows(R)
  /\ \/ reap' = [reap EXCEPT ![p] = R] /\ UNCHANGED leaked /\ NoFault
     \/ leaked' = leaked \cup R /\ UNCHANGED reap /\ Fault
  /\ UNCHANGED <<creator, canceler, worker, sweep, disk, delivered, gifted,
                 littered, account>>

(* Mutant: an expired task is cleaned up and not refunded.                   *)
ForgetExpired(p, r) ==
  /\ r \in reap[p] /\ sweep[p] = {}
  /\ reap' = [reap EXCEPT ![p] = @ \ {r}]
  /\ sweep' = [sweep EXCEPT ![p] = {r}]
  /\ UNCHANGED <<table, creator, canceler, worker, disk, history, account, faults>>

RefundExpired(p, r) ==
  /\ r \in reap[p] /\ sweep[p] = {}
  /\ Refund(r, Want[r])
  /\ reap' = [reap EXCEPT ![p] = @ \ {r}]
  /\ sweep' = [sweep EXCEPT ![p] = {r}]
  /\ UNCHANGED <<table, creator, canceler, worker, disk, delivered, gifted, littered>>

Purge(p, R) ==
  /\ Quiet(p)
  /\ R # {} /\ DeleteRows(R)
  /\ \/ sweep' = [sweep EXCEPT ![p] = R] /\ UNCHANGED littered /\ NoFault
     \/ littered' = littered \cup R /\ UNCHANGED sweep /\ Fault
  /\ UNCHANGED <<creator, canceler, worker, reap, disk, delivered, leaked, gifted,
                 account>>

Sweep(p, r) ==
  /\ r \in sweep[p]
  /\ CleanInputs(r)
  /\ sweep' = [sweep EXCEPT ![p] = @ \ {r}]
  /\ UNCHANGED <<table, creator, canceler, worker, reap, images, history, account,
                 faults>>

Reap(p) == \E r \in Requests : RefundExpired(p, r) \/ Sweep(p, r)

-----------------------------------------------------------------------------
(* The API process dies.  Requests in flight are gone, and with them the     *)
(* refund of a request that was charged but has no row (yet), or of a row    *)
(* that was just canceled.  Nothing redoes them.                             *)
CrashAPI ==
  LET charged == {r \in Requests : rpc[r] \in {"save", "insert", "refund"}}
      owed    == {r \in Requests : cpc[r] = "refund"}
      dirty   == {r \in Requests : rpc[r] \in {"insert", "refund", "clean"}}
  IN  /\ Fault
      /\ rpc' = [r \in Requests |-> IF rpc[r] = "lookup" THEN "lookup" ELSE "done"]
      /\ cpc' = [r \in Requests |-> "none"]
      /\ leaked' = leaked \cup charged \cup owed
      /\ littered' = littered \cup dirty
      /\ UNCHANGED <<table, worker, reaper, disk, delivered, gifted, account>>

(* A worker process dies: its slots' claims lapse, and the refunds it had    *)
(* yet to make are lost.                                                     *)
CrashWorker(p) ==
  LET mine == {w \in Slots : ProcOf[w] = p}
      owed == reap[p] \cup {r \in Requests :
                 \E w \in mine : job[w] = r /\ wpc[w] \in {"refund", "settle"}}
  IN  /\ Fault
      /\ wpc' = [w \in Slots |-> IF w \in mine THEN "idle" ELSE wpc[w]]
      /\ job' = [w \in Slots |-> IF w \in mine THEN NoTask ELSE job[w]]
      /\ got' = [w \in Slots |-> IF w \in mine THEN 0 ELSE got[w]]
      /\ saved' = [w \in Slots |-> IF w \in mine THEN 0 ELSE saved[w]]
      /\ reap' = [reap EXCEPT ![p] = {}]
      /\ sweep' = [sweep EXCEPT ![p] = {}]
      /\ images' = {f \in images : f[2] \notin mine \/ status[f[1]] \in {"success", "deleted"}}
      /\ leaked' = leaked \cup owed
      /\ littered' = littered \cup sweep[p]
      /\ UNCHANGED <<table, creator, canceler, inputs, delivered, gifted, account>>

-----------------------------------------------------------------------------
Tick(r) ==
  /\ ClaimLapses(r) \/ DeadlinePasses(r)
  /\ UNCHANGED <<creator, canceler, worker, reaper, disk, history, account, faults>>

(* Every request was answered and every task has ended.                      *)
Quiescent ==
  /\ \A r \in Requests : rpc[r] = "done" /\ cpc[r] = "none" /\ status[r] \notin Live
  /\ \A w \in Slots : wpc[w] = "idle"
  /\ \A p \in Procs : Quiet(p)

Rest == Quiescent /\ UNCHANGED vars

Next ==
  \/ \E r \in Requests : Create(r) \/ Cancel(r) \/ FinishCancel(r) \/ Tick(r)
  \/ \E w \in Slots : \/ Heartbeat(w) \/ Run(w)
                      \/ \E r \in Requests : Claim(w, r)
  \/ \E p \in Procs : \/ Reap(p) \/ CrashWorker(p)
                      \/ \E R \in SUBSET Requests : Expire(p, R) \/ Purge(p, R)
  \/ CrashAPI
  \/ Rest

Spec == Init /\ [][Next]_vars

-----------------------------------------------------------------------------
(* Properties.                                                             *)

(* Somebody is bound to settle r: its create handler, the live row (it will *)
(* be completed, failed, canceled or expired), or whoever ended the row.    *)
Settlers(r) ==
  {<<"worker", w>> : w \in {v \in Slots : job[v] = r /\ wpc[v] \in {"refund", "settle"}}}
  \cup {<<"reaper", p>> : p \in {q \in Procs : r \in reap[q]}}
  \cup {a \in {<<"creator", r>>} : rpc[r] \in {"save", "insert", "refund"}}
  \cup {a \in {<<"canceler", r>>} : cpc[r] = "refund"}
  \cup {a \in {<<"row", r>>} : status[r] \in Live}

(* What the user owes for r: the whole request while it is open, and what   *)
(* was delivered from then on.                                              *)
Due(r) == IF Settlers(r) # {} THEN Want[r] ELSE delivered[r]

(* Nobody is refunded twice, for more than was not delivered, or for a task *)
(* that can still deliver, whatever lapses, races or crashes (worker.go's   *)
(* and the cancel handler's `if changed { refundImage }`).                  *)
NeverOverRefunded == \A r \in Requests : r \notin gifted => net[r] >= Due(r)

(* A user pays for what was delivered and no more, unless a crash, a lost   *)
(* reply or a store that could not be written hit the settlement itself.    *)
NeverOverCharged == \A r \in Requests : r \notin leaked => net[r] <= Due(r)

(* At most one actor is responsible for the settlement of a request: the    *)
(* statement that ends a row hands it to exactly one caller.                *)
OneSettler ==
  \A r \in Requests : r \notin gifted => \A a, b \in Settlers(r) : a = b

(* The images that count says are due from the key o, one by one.          *)
Units(o, count) ==
  {u \in Requests \X (1..4) : OwnerOf[u[1]] = o /\ u[2] <= count[u[1]]}

NeverGifted(o) == \A r \in gifted : OwnerOf[r] # o

(* Images in results never exceed a key's quota, however many requests are  *)
(* in flight: the charge comes before the row (createDBImageTask).          *)
QuotaRespected ==
  \A o \in Owners :
    NeverGifted(o) => Cardinality(Units(o, delivered)) <= Quota[o]

(* The counter of a key is what its requests are charged, all together, so  *)
(* the refunds' lower bound of zero is never what stops a refund.           *)
CounterMatchesLedger ==
  \A o \in Owners :
    NeverGifted(o) => used[o] = Cardinality(Units(o, net))

(* Without a storage limit, the images a result points at are on disk: no   *)
(* run that lost its claim removes those of the run that completed.         *)
SuccessHasImages ==
  StorageLimited \/
    \A r \in Requests : status[r] = "success" /\ r \notin leaked =>
       \E w \in Slots : <<r, w>> \in images

(* A run that lost its claim, was canceled or failed leaves no image behind *)
(* (README: "stop saving results when the task is canceled or the lease is  *)
(* lost").                                                                  *)
NoStrayImages ==
  \A r \in Requests, w \in Slots : <<r, w>> \in images =>
     (job[w] = r /\ saved[w] > 0) \/ status[r] \in {"success", "deleted"}

(* An edit task that can still run finds its input images, also when a      *)
(* duplicate of its request was refused and cleaned up after itself.        *)
InputsAvailable ==
  \A r \in Edits : status[r] \in Live /\ r \notin gifted => r \in inputs

(* An input directory always has somebody who will delete it: its creator,  *)
(* the one who ended the row, or the purge of the finished row.             *)
NoStrayInputs ==
  \A r \in inputs \ littered :
     \/ rpc[r] \in {"insert", "refund", "clean"}
     \/ Stored(r)
     \/ \E p \in Procs : r \in sweep[p]
     \/ cpc[r] # "none"
     \/ \E w \in Slots : job[w] = r /\ wpc[w] \in {"refund", "settle", "clean"}

(* No step gives images back for a task that a worker could still complete. *)
RefundOnlyWhenEnded ==
  [][\A r \in Requests : net'[r] < net[r] /\ r \notin gifted => status[r] \notin Live]_vars

-----------------------------------------------------------------------------
(* Fairness: handlers and slots run on, each worker process looks for       *)
(* overdue rows and for finished rows past their retention, and time        *)
(* passes.  Nothing makes a claim or an upstream call succeed, a fault      *)
(* happen or a user cancel.                                                 *)
Fairness ==
  /\ \A r \in Requests : /\ WF_vars(rpc[r] # "lookup" /\ Create(r))
                         /\ WF_vars(FinishCancel(r))
                         /\ WF_vars(DeadlinePasses(r) /\ Tick(r))
  /\ \A w \in Slots : WF_vars(Run(w))
  /\ \A p \in Procs : /\ WF_vars(Reap(p))
                      /\ \A r \in Requests :
                           /\ WF_vars(\E R \in SUBSET Requests : r \in R /\ Expire(p, R))
                           /\ WF_vars(\E R \in SUBSET Requests : r \in R /\ Purge(p, R))

FairSpec == Spec /\ Fairness

(* Every accepted request is settled in the end: what is charged for it is  *)
(* what was delivered, unless a fault hit the settlement.                   *)
EverySettled ==
  \A r \in Requests :
    rpc[r] = "insert" ~> /\ Settlers(r) = {}
                         /\ net[r] = delivered[r] \/ r \in leaked \cup gifted

(* The input images of a task are deleted in the end, also when the process *)
(* that ended the task died before it got there: the purge of the finished  *)
(* row makes up for it, except after a fault that lost the row's paths.     *)
InputsReclaimed ==
  \A r \in Requests : r \in inputs ~> r \notin inputs \/ r \in littered

-----------------------------------------------------------------------------
(* The refinement of TaskContract.                                          *)
PhaseOf(r) ==
  IF r \in gifted THEN "free"
  ELSE IF Settlers(r) # {} THEN "open"
  ELSE IF rpc[r] \in {"lookup", "consume"} THEN "none" ELSE "closed"

Contract == INSTANCE TaskContract WITH
  phase  <- [r \in Requests |-> PhaseOf(r)],
  cost   <- [r \in Requests |-> IF r \in gifted THEN 0 ELSE net[r]],
  result <- [r \in Requests |-> IF r \in gifted THEN 0 ELSE delivered[r]]

(* Every step of the service is a step of the contract, or invisible to the *)
(* user: a request is charged, delivered and settled once each, and never   *)
(* reopened, and every broken promise is accounted for by a fault.          *)
ContractSpec == Contract!Spec
ContractStep == Contract!Next \/ UNCHANGED Contract!contract
=============================================================================
