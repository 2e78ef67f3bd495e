----------------------------- MODULE TaskTable -----------------------------
(***************************************************************************)
(* The PostgreSQL table image_tasks_v3 and the statements that             *)
(* internal/app/pg_tasks.go runs on it.                                    *)
(*                                                                         *)
(* A row is identified here by the create request that inserted it.  Its   *)
(* primary key is the task id, which the code derives from the owner and   *)
(* the client's task id, so two requests with the same TaskOf compete for  *)
(* one row.  Each statement is a single UPDATE/INSERT and therefore one    *)
(* atomic step; whether its caller hears of the result is the caller's     *)
(* business (see ImageTasks).                                              *)
(*                                                                         *)
(* Time is abstracted to the two comparisons the statements make with it:  *)
(*   lapsed[r]   claimed_until_ts <= now                                   *)
(*   overdue[r]  deadline_ts <= now                                        *)
(* and each becomes true at an arbitrary moment.                           *)
(***************************************************************************)
EXTENDS Naturals

CONSTANTS Requests,   (* create requests, each carrying one prospective row *)
          TaskIds,    (* primary keys                                       *)
          TaskOf,     (* imageTaskID(owner, client task id) of a request    *)
          Slots,      (* worker slots; a claim is made in a slot's name     *)
          NoSlot      (* claimed_by = ''                                    *)

ASSUME TaskTableAssumption ==
  /\ TaskOf \in [Requests -> TaskIds]
  /\ NoSlot \notin Slots

VARIABLES status, claimedBy, lapsed, overdue

table == <<status, claimedBy, lapsed, overdue>>

-----------------------------------------------------------------------------
(* "absent": not inserted (yet); "deleted": inserted once, removed since.   *)
Live     == {"queued", "running"}
Terminal == {"success", "error", "canceled"}
Status   == Live \cup Terminal \cup {"absent", "deleted"}

Stored(r) == status[r] \in Live \cup Terminal

(* Some row has r's primary key.                                            *)
KeyTaken(r) == \E q \in Requests : TaskOf[q] = TaskOf[r] /\ Stored(q)

HeldBy(r, w) == status[r] = "running" /\ claimedBy[r] = w

TableTypeOK ==
  /\ status \in [Requests -> Status]
  /\ claimedBy \in [Requests -> Slots \cup {NoSlot}]
  /\ lapsed \in [Requests -> BOOLEAN]
  /\ overdue \in [Requests -> BOOLEAN]

TableInit ==
  /\ status = [r \in Requests |-> "absent"]
  /\ claimedBy = [r \in Requests |-> NoSlot]
  /\ lapsed = [r \in Requests |-> TRUE]
  /\ overdue = [r \in Requests |-> FALSE]

-----------------------------------------------------------------------------
(* CreateTask: INSERT ... ON CONFLICT (id) DO NOTHING, when there is none.  *)
InsertRow(r) ==
  /\ ~KeyTaken(r)
  /\ status' = [status EXCEPT ![r] = "queued"]
  /\ UNCHANGED <<claimedBy, lapsed, overdue>>

(* ClaimTask: a queued row whose requeue delay is over, or a running row    *)
(* whose claim lapsed, unless its deadline has passed.                      *)
Claimable(r) ==
  /\ ~overdue[r]
  /\ \/ status[r] = "queued" /\ lapsed[r]
     \/ status[r] = "running" /\ (claimedBy[r] = NoSlot \/ lapsed[r])

ClaimRow(r, w) ==
  /\ Claimable(r)
  /\ status' = [status EXCEPT ![r] = "running"]
  /\ claimedBy' = [claimedBy EXCEPT ![r] = w]
  /\ lapsed' = [lapsed EXCEPT ![r] = FALSE]
  /\ UNCHANGED overdue

(* HeartbeatTask: only the slot named in the row renews, lapsed or not.     *)
RenewRow(r, w) ==
  /\ HeldBy(r, w)
  /\ lapsed' = [lapsed EXCEPT ![r] = FALSE]
  /\ UNCHANGED <<status, claimedBy, overdue>>

(* The part shared by every statement that ends a task.                     *)
CloseRows(R, final) ==
  /\ status' = [r \in Requests |-> IF r \in R THEN final ELSE status[r]]
  /\ claimedBy' = [r \in Requests |-> IF r \in R THEN NoSlot ELSE claimedBy[r]]
  /\ lapsed' = [r \in Requests |-> r \in R \/ lapsed[r]]
  /\ UNCHANGED overdue

(* Mutant: the WHERE clause names the row only.                             *)
CompleteRowById(r, w) == Stored(r) /\ CloseRows({r}, "success")

CompleteRow(r, w) == HeldBy(r, w) /\ CloseRows({r}, "success")

(* Mutant: a failed row goes back to the queue.                             *)
FailRowAsRetry(r, w) ==
  HeldBy(r, w) /\ CloseRows({r}, "queued")

(* FailTask, as workers call it: with their claim.                          *)
FailRow(r, w) == status[r] \in Live /\ claimedBy[r] = w /\ CloseRows({r}, "error")

RequeueRow(r, w) ==
  /\ HeldBy(r, w)
  /\ status' = [status EXCEPT ![r] = "queued"]
  /\ claimedBy' = [claimedBy EXCEPT ![r] = NoSlot]
  /\ lapsed' = [lapsed EXCEPT ![r] = FALSE]
  /\ UNCHANGED overdue

(* Mutant: without status IN (queued, running).                             *)
CancelRowAnyStatus(r) == Stored(r) /\ CloseRows({r}, "canceled")

CancelRow(r) == status[r] \in Live /\ CloseRows({r}, "canceled")

(* ExpireOverdueTasks: FOR UPDATE SKIP LOCKED may pass over rows that       *)
(* another transaction holds, so any of the overdue rows may be in R.       *)
ExpirableQueuedOnly(r) == status[r] = "queued" /\ overdue[r]   (* mutant *)

Expirable(r) == status[r] \in Live /\ overdue[r]

ExpireRows(R) == (\A r \in R : Expirable(r)) /\ CloseRows(R, "error")

(* DeleteFinishedTasksBefore: finished rows past the retention period.      *)
DeleteRows(R) ==
  /\ \A r \in R : status[r] \in Terminal
  /\ status' = [r \in Requests |-> IF r \in R THEN "deleted" ELSE status[r]]
  /\ UNCHANGED <<claimedBy, lapsed, overdue>>

-----------------------------------------------------------------------------
(* The passage of time.                                                     *)
ClaimLapses(r) ==
  /\ status[r] \in Live /\ ~lapsed[r]
  /\ lapsed' = [lapsed EXCEPT ![r] = TRUE]
  /\ UNCHANGED <<status, claimedBy, overdue>>

DeadlinePasses(r) ==
  /\ status[r] \in Live /\ ~overdue[r]
  /\ overdue' = [overdue EXCEPT ![r] = TRUE]
  /\ UNCHANGED <<status, claimedBy, lapsed>>
=============================================================================
