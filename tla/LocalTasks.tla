----------------------------- MODULE LocalTasks -----------------------------
(***************************************************************************)
(* Image tasks without PostgreSQL (tasks_chat_gallery_web.go): the rows    *)
(* are in image_tasks.json, the API process runs each task in a goroutine  *)
(* and cancels it through a map of context.CancelFuncs.  A row belongs to  *)
(* the request that created it; requests with one client_task_id name one  *)
(* task.  An update of the file is atomic and leaves no trace when it      *)
(* fails (JSONStore); the quota counters themselves are modelled in Quota. *)
(***************************************************************************)
EXTENDS Integers, FiniteSets

CONSTANTS
  Requests, Tasks,
  TaskOf,         \* [Requests -> Tasks], newImageTaskID
  Want,           \* [Requests -> images asked for]
  Edits,          \* the requests that edit a picture
  MaxFaults       \* bound: restarts and failed writes of image_tasks.json

ASSUME LocalAssumption ==
  /\ TaskOf \in [Requests -> Tasks] /\ Want \in [Requests -> Nat \ {0}]
  /\ MaxFaults \in Nat

NoRow == [st |-> "absent"]
Ended == {"success", "error", "canceled"}

VARIABLES
  rows,           \* image_tasks.json
  pc,             \* per request: its handler, then its goroutine
  verdict,        \* per request: the status its goroutine is about to write
  owed,           \* per request: what it is about to refund
  got, stored,    \* per request: images generated, image files on disk
  expired,        \* requests whose context is done: canceled or timed out
  cancels,        \* taskCancels: the requests whose cancel can be called
  cpc,            \* per task: a cancel request, after it updated the row
  (* History. *)
  net,            \* per request: images charged and not refunded
  delivered,      \* per request: images of its row once it succeeded
  gifted,         \* refunded although the row is still running
  killed,         \* requests a restart interrupted
  faults

vars == <<rows, pc, verdict, owed, got, stored, expired, cancels, cpc,
          net, delivered, gifted, killed, faults>>

Handling == {"checked", "charged", "created", "noinput", "refused", "refund"}
Working == {"generate", "store", "finish", "end", "settle", "exit"}

TypeOK ==
  /\ rows \in [Tasks -> {NoRow} \cup
                        [st : Ended \cup {"running"}, by : Requests]]
  /\ pc \in [Requests -> {"new", "done"} \cup Handling \cup Working]
  /\ verdict \in [Requests -> Ended] /\ owed \in [Requests -> Nat]
  /\ got \in [Requests -> Nat] /\ delivered \in [Requests -> Nat]
  /\ \A r \in Requests : stored[r] \in 0 .. Want[r]
  /\ expired \subseteq Requests /\ cancels \subseteq Requests
  /\ cpc \in [Tasks -> {"idle", "pop", "refund"}] /\ net \in [Requests -> Int]
  /\ gifted \subseteq Requests /\ killed \subseteq Requests
  /\ faults \in 0 .. MaxFaults

Init ==
  /\ rows = [t \in Tasks |-> NoRow]
  /\ pc = [r \in Requests |-> "new"]
  /\ verdict = [r \in Requests |-> "error"]
  /\ owed = [r \in Requests |-> 0]
  /\ got = [r \in Requests |-> 0] /\ stored = [r \in Requests |-> 0]
  /\ expired = {} /\ cancels = {} /\ cpc = [t \in Tasks |-> "idle"]
  /\ net = [r \in Requests |-> 0] /\ delivered = [r \in Requests |-> 0]
  /\ gifted = {} /\ killed = {} /\ faults = 0

Row(r) == rows[TaskOf[r]]
Goto(r, s) == pc' = [pc EXCEPT ![r] = s]
WriteRow(r, st) == rows' = [rows EXCEPT ![TaskOf[r]] = [st |-> st, by |-> r]]
Fault == faults < MaxFaults /\ faults' = faults + 1
Owe(r, n) == owed' = [owed EXCEPT ![r] = n]
Images == <<got, stored>>
Contexts == <<expired, cancels>>
History == <<net, delivered, gifted, killed>>

-----------------------------------------------------------------------------
(* handleImageTaskGeneration, handleImageTaskEdit.                         *)

(* An existing task is returned as it is.                                  *)
Lookup(r) ==
  /\ pc[r] = "new" /\ Goto(r, IF Row(r) = NoRow THEN "checked" ELSE "done")
  /\ UNCHANGED <<rows, verdict, owed, Images, Contexts, cpc, History, faults>>

(* createTaskIfAbsent of a row that is in error from the start: content or *)
(* access refused, quota exhausted, and an edit without a picture (after   *)
(* its refund).  A failed write is answered with status 500.               *)
Refuse(r) ==
  /\ pc[r] \in {"checked", "refused"} /\ Goto(r, "done")
  /\ \/ /\ IF Row(r) = NoRow THEN WriteRow(r, "error") ELSE UNCHANGED rows
        /\ UNCHANGED faults
     \/ Fault /\ UNCHANGED rows
  /\ UNCHANGED <<verdict, owed, Images, Contexts, cpc, History>>

(* consumeImage.                                                           *)
Charge(r) ==
  /\ pc[r] = "checked" /\ Goto(r, "charged")
  /\ net' = [net EXCEPT ![r] = Want[r]]
  /\ UNCHANGED <<rows, verdict, owed, Images, Contexts, cpc, delivered,
                 gifted, killed, faults>>

(* An edit reads its pictures only now: too large, or none.                *)
BadInputs(r) ==
  /\ pc[r] = "charged" /\ r \in Edits /\ Owe(r, Want[r])
  /\ Goto(r, "refund") \/ Goto(r, "noinput")
  /\ UNCHANGED <<rows, verdict, Images, Contexts, cpc, History, faults>>

(* Mutant: the write goes unchecked.                                       *)
CreateUnchecked(r) ==
  /\ pc[r] = "charged"
  /\ \/ /\ Row(r) = NoRow /\ WriteRow(r, "running") /\ Goto(r, "created")
        /\ UNCHANGED <<owed, faults>>
     \/ Row(r) # NoRow /\ Goto(r, "done") /\ UNCHANGED <<rows, owed, faults>>
     \/ Fault /\ Goto(r, "refund") /\ Owe(r, Want[r]) /\ UNCHANGED rows
  /\ UNCHANGED <<verdict, Images, Contexts, cpc, History>>

(* createTaskIfAbsent: whoever does not create the row gives back.         *)
Create(r) ==
  /\ pc[r] = "charged"
  /\ \/ /\ Row(r) = NoRow /\ WriteRow(r, "running") /\ Goto(r, "created")
        /\ UNCHANGED <<owed, faults>>
     \/ /\ Row(r) # NoRow /\ UNCHANGED <<rows, faults>>
        /\ Goto(r, "refund") /\ Owe(r, Want[r])
     \/ /\ Fault /\ UNCHANGED rows
        /\ Goto(r, "refund") /\ Owe(r, Want[r])
  /\ UNCHANGED <<verdict, Images, Contexts, cpc, History>>

(* The refund of the handler; an edit without pictures goes on to record   *)
(* why.                                                                    *)
RefundHandler(r) ==
  /\ pc[r] \in {"refund", "noinput"} /\ Owe(r, 0)
  /\ net' = [net EXCEPT ![r] = @ - owed[r]]
  /\ Goto(r, IF pc[r] = "refund" THEN "done" ELSE "refused")
  /\ UNCHANGED <<rows, verdict, Images, Contexts, cpc, delivered, gifted,
                 killed, faults>>

(* setTaskCancel, and the goroutine starts.  A cancel that came before     *)
(* found no function to call.                                              *)
Start(r) ==
  /\ pc[r] = "created" /\ Goto(r, "generate")
  /\ cancels' = cancels \cup {r}
  /\ UNCHANGED <<rows, verdict, owed, Images, expired, cpc, History, faults>>

-----------------------------------------------------------------------------
(* The goroutine.                                                          *)
Conclude(r, v) == Goto(r, "end") /\ verdict' = [verdict EXCEPT ![r] = v]

(* imageRequestTimeout.                                                    *)
TimeOut(r) ==
  /\ pc[r] \in Working /\ r \notin expired /\ expired' = expired \cup {r}
  /\ UNCHANGED <<rows, pc, verdict, owed, Images, cancels, cpc, History,
                 faults>>

(* generateImagesWithPoolForIdentity: some of the images, or an error; the *)
(* error counts as a cancel when the context is done.                      *)
Generate(r) ==
  /\ pc[r] = "generate"
  /\ \/ /\ \E k \in 1 .. Want[r] : got' = [got EXCEPT ![r] = k]
        /\ Goto(r, "store") /\ UNCHANGED verdict
     \/ /\ Conclude(r, IF r \in expired THEN "canceled" ELSE "error")
        /\ UNCHANGED got
  /\ UNCHANGED <<rows, owed, stored, Contexts, cpc, History, faults>>

MoreToStore(r) == stored[r] < got[r]

(* Mutant: the saved files are left behind.                                *)
KeepImages(r) == stored' = stored

(* cleanupSavedImageResults.                                               *)
DropImages(r) == stored' = [stored EXCEPT ![r] = 0]

(* The loop over the images: the context, saveImage, recordImageMetadata.  *)
(* An image whose metadata fails is dropped with the others.               *)
StoreImage(r) ==
  /\ pc[r] = "store" /\ MoreToStore(r)
  /\ \/ r \in expired /\ DropImages(r) /\ Conclude(r, "canceled")
     \/ r \notin expired /\ DropImages(r) /\ Conclude(r, "error")
     \/ /\ r \notin expired /\ stored' = [stored EXCEPT ![r] = @ + 1]
        /\ UNCHANGED <<pc, verdict>>
  /\ UNCHANGED <<rows, owed, got, Contexts, cpc, History, faults>>

Stored(r) ==
  /\ pc[r] = "store" /\ ~MoreToStore(r) /\ Goto(r, "finish")
  /\ UNCHANGED <<rows, verdict, owed, Images, Contexts, cpc, History, faults>>

(* Mutant: any status may be overwritten.                                  *)
MutableAlways(r) == Row(r) # NoRow

(* updateTaskStatus, localTaskStatusMutable.                               *)
Mutable(r) == Row(r) # NoRow /\ Row(r).st = "running"

(* Mutant: a canceled generation is left to the handler of the cancel.     *)
EndErrors(r) ==
  /\ pc[r] = "end"
  /\ \/ /\ Mutable(r) /\ verdict[r] = "error" /\ WriteRow(r, "error")
        /\ Owe(r, Want[r]) /\ Goto(r, "settle") /\ UNCHANGED <<gifted, faults>>
     \/ /\ ~Mutable(r) \/ verdict[r] = "canceled"
        /\ Goto(r, "exit") /\ UNCHANGED <<rows, owed, gifted, faults>>
  /\ UNCHANGED <<verdict, Images, Contexts, cpc, net, delivered, killed>>

(* updateTaskStatus(canceled or error).  It reports "updated" even when    *)
(* the write fails, and then the row stays running after the refund.       *)
End(r) ==
  /\ pc[r] = "end"
  /\ \/ /\ Mutable(r) /\ WriteRow(r, verdict[r])
        /\ Owe(r, Want[r]) /\ Goto(r, "settle") /\ UNCHANGED <<gifted, faults>>
     \/ /\ Mutable(r) /\ Fault /\ UNCHANGED rows
        /\ Owe(r, Want[r]) /\ Goto(r, "settle") /\ gifted' = gifted \cup {r}
     \/ /\ ~Mutable(r) /\ Goto(r, "exit")
        /\ UNCHANGED <<rows, owed, gifted, faults>>
  /\ UNCHANGED <<verdict, Images, Contexts, cpc, net, delivered, killed>>

(* updateTaskStatus(success): the images stay only if it is stored.        *)
Succeed(r) ==
  /\ pc[r] = "finish"
  /\ \/ /\ Mutable(r) /\ WriteRow(r, "success")
        /\ delivered' = [delivered EXCEPT ![r] = stored[r]]
        /\ Owe(r, Want[r] - stored[r]) /\ Goto(r, "settle")
        /\ UNCHANGED <<stored, gifted, faults>>
     \/ /\ Mutable(r) /\ Fault /\ DropImages(r)
        /\ Owe(r, Want[r]) /\ Goto(r, "settle") /\ gifted' = gifted \cup {r}
        /\ UNCHANGED <<rows, delivered>>
     \/ /\ ~Mutable(r) /\ DropImages(r) /\ Goto(r, "exit")
        /\ UNCHANGED <<rows, owed, delivered, gifted, faults>>
  /\ UNCHANGED <<verdict, got, Contexts, cpc, net, killed>>

RefundTask(r) ==
  /\ pc[r] = "settle" /\ Owe(r, 0) /\ Goto(r, "exit")
  /\ net' = [net EXCEPT ![r] = @ - owed[r]]
  /\ UNCHANGED <<rows, verdict, Images, Contexts, cpc, delivered, gifted,
                 killed, faults>>

(* Mutant: the function stays in the map.                                  *)
ExitNoPop(r) ==
  /\ pc[r] = "exit" /\ Goto(r, "done") /\ expired' = expired \cup {r}
  /\ UNCHANGED <<rows, verdict, owed, Images, cancels, cpc, History, faults>>

(* The deferred cancel and popTaskCancel.                                  *)
Exit(r) ==
  /\ pc[r] = "exit" /\ Goto(r, "done")
  /\ cancels' = cancels \ {r} /\ expired' = expired \cup {r}
  /\ UNCHANGED <<rows, verdict, owed, Images, cpc, History, faults>>

Run(r) == \/ Generate(r) \/ StoreImage(r) \/ Stored(r) \/ End(r)
          \/ Succeed(r) \/ RefundTask(r) \/ Exit(r)

-----------------------------------------------------------------------------
(* handleImageTaskCancel: the row first; a failed write changes nothing.   *)
Running(t) == rows[t] # NoRow /\ rows[t].st = "running"

Cancel(t) ==
  /\ cpc[t] = "idle" /\ Running(t)
  /\ rows' = [rows EXCEPT ![t].st = "canceled"]
  /\ cpc' = [cpc EXCEPT ![t] = "pop"]
  /\ UNCHANGED <<pc, verdict, owed, Images, Contexts, History, faults>>

(* Then popTaskCancel and the function, if there is one;                   *)
CancelContext(t) ==
  LET r == rows[t].by IN
  /\ cpc[t] = "pop" /\ cpc' = [cpc EXCEPT ![t] = "refund"]
  /\ cancels' = cancels \ {r}
  /\ expired' = IF r \in cancels THEN expired \cup {r} ELSE expired
  /\ UNCHANGED <<rows, pc, verdict, owed, Images, History, faults>>

(* then the refund to the owner of the row.                                *)
RefundCanceled(t) ==
  LET r == rows[t].by IN
  /\ cpc[t] = "refund" /\ cpc' = [cpc EXCEPT ![t] = "idle"]
  /\ net' = [net EXCEPT ![r] = @ - Want[r]]
  /\ UNCHANGED <<rows, pc, verdict, owed, Images, Contexts, delivered, gifted,
                 killed, faults>>

-----------------------------------------------------------------------------
(* The process dies and comes back: recoverUnfinishedTasks fails the rows  *)
(* nobody works on any more and ignores whether that is stored; then       *)
(* cleanupOldTasks forgets old rows that have ended.                       *)
Restart ==
  /\ Fault
  /\ \E recovered \in BOOLEAN, old \in SUBSET Tasks :
       LET row(t) == IF recovered /\ Running(t)
                     THEN [rows[t] EXCEPT !.st = "error"] ELSE rows[t]
       IN rows' = [t \in Tasks |-> IF t \in old /\ row(t).st \in Ended
                                   THEN NoRow ELSE row(t)]
  /\ killed' = killed \cup {r \in Requests : pc[r] \notin {"new", "done"}}
                      \cup {rows[t].by : t \in {u \in Tasks : cpc[u] # "idle"}}
  /\ pc' = [r \in Requests |-> IF pc[r] = "new" THEN "new" ELSE "done"]
  /\ owed' = [r \in Requests |-> 0] /\ cancels' = {}
  /\ cpc' = [t \in Tasks |-> "idle"]
  /\ UNCHANGED <<verdict, Images, expired, net, delivered, gifted>>

Handle(r) == \/ Lookup(r) \/ Refuse(r) \/ Charge(r) \/ BadInputs(r)
             \/ Create(r) \/ RefundHandler(r) \/ Start(r)

CancelTask(t) == Cancel(t) \/ CancelContext(t) \/ RefundCanceled(t)

Next ==
  \/ \E r \in Requests : Handle(r) \/ Run(r) \/ TimeOut(r)
  \/ \E t \in Tasks : CancelTask(t)
  \/ Restart

Spec == Init /\ [][Next]_vars

(* Goroutines and handlers run; the generation returns, at the latest when *)
(* its context is done.  Nobody need cancel, and the process need not die. *)
Fairness ==
  /\ \A r \in Requests : WF_vars(Handle(r)) /\ WF_vars(Run(r))
  /\ \A t \in Tasks : WF_vars(CancelContext(t) \/ RefundCanceled(t))

FairSpec == Spec /\ Fairness

-----------------------------------------------------------------------------
(***************************************************************************)
(* Properties                                                              *)
(***************************************************************************)
(* The images on disk are those of the row: a task that succeeded has all  *)
(* it returned, a task that did not has none left - unless the process     *)
(* died while it was storing them.                                         *)
ImagesMatchRow ==
  /\ \A t \in Tasks : rows[t].st = "success" =>
       LET r == rows[t].by IN delivered[r] > 0 /\ stored[r] = delivered[r]
  /\ \A r \in Requests \ killed : pc[r] = "done" => stored[r] = delivered[r]

(* taskCancels holds the functions of goroutines that are running.         *)
CancelsAreLive == \A r \in cancels : pc[r] \in Working

(* What is kept beside the rows, images on disk and cancel functions in    *)
(* memory, fits the rows (runImageTaskJob, handleImageTaskCancel).         *)
RowsMatch == ImagesMatchRow /\ CancelsAreLive

(* A task ends as long as no write fails and the process lives.            *)
EveryTaskEnds ==
  \A t \in Tasks : (Running(t) /\ faults = 0) ~> (~Running(t) \/ faults > 0)

(* docs/android-integration.md: what is given back is what was charged.    *)
RefundedAtMostOnce == \A r \in Requests : net[r] >= 0

(* The same contract the PostgreSQL mode implements (ImageTasks): charged, *)
(* delivered and settled once each, every exception owed to a fault.       *)
Owned(r) == Row(r) # NoRow /\ Row(r).by = r

Unsettled(r) ==
  \/ pc[r] \in {"charged", "refund", "noinput"}
  \/ Owned(r) /\ Row(r).st = "running"
  \/ Owned(r) /\ cpc[TaskOf[r]] # "idle"
  \/ pc[r] = "settle" /\ owed[r] > 0

PhaseOf(r) == IF r \in gifted THEN "free"
              ELSE IF pc[r] \in {"new", "checked"} THEN "none"
              ELSE IF Unsettled(r) THEN "open" ELSE "closed"

Contract == INSTANCE TaskContract WITH
  phase  <- [r \in Requests |-> PhaseOf(r)],
  cost   <- [r \in Requests |-> IF r \in gifted THEN 0 ELSE net[r]],
  result <- [r \in Requests |-> IF r \in gifted THEN 0 ELSE delivered[r]]

ContractSpec == Contract!Spec

=============================================================================
