--------------------------- MODULE MCTaskSettings ---------------------------
(***************************************************************************)
(* ImageTasks over a family of instances in one run: TLC chooses a setting *)
(* in the initial state and keeps it.                                      *)
(***************************************************************************)
EXTENDS Integers, FiniteSets, TLC

CONSTANTS a, b,        (* requests: a is an edit where there are edits *)
          t1, t2,      (* task ids *)
          alice,       (* the owner *)
          s1, s2, s3, s4, s5,  (* slots *)
          p1, p2,      (* worker processes *)
          NoSlot, NoTask

VARIABLES setting,
  status, claimedBy, lapsed, overdue, used, rpc, cpc, wpc, job, got, saved,
  reap, sweep, inputs, images, net, delivered, leaked, gifted, littered,
  faults

(* Two requests for one task of two slots of one worker.                   *)
Base ==
  [task |-> [r \in {a, b} |-> t1], slots |-> [w \in {s1, s2} |-> p1],
   quota |-> 3, want |-> [r \in {a, b} |-> IF r = a THEN 1 ELSE 2],
   edits |-> {a}, procs |-> {p1}, limited |-> FALSE, faults |-> 1]

Settings ==
  [duplicate |-> Base,
   apart |-> \* two tasks want more than the quota, files are evicted
     [Base EXCEPT !.task = (a :> t1 @@ b :> t2), !.slots = (s3 :> p1),
        !.quota = 2, !.limited = TRUE],
   contend |-> \* two processes run one task of two images
     [Base EXCEPT !.task = (a :> t1), !.slots = (s4 :> p1 @@ s5 :> p2),
        !.quota = 2, !.want = (a :> 2), !.edits = {}, !.procs = {p1, p2},
        !.faults = 2]]

Service(n) == INSTANCE ImageTasks WITH
  Requests <- DOMAIN Settings[n].task, TaskIds <- {t1, t2},
  TaskOf <- Settings[n].task, Slots <- DOMAIN Settings[n].slots,
  Owners <- {alice}, OwnerOf <- [r \in DOMAIN Settings[n].task |-> alice],
  Quota <- [o \in {alice} |-> Settings[n].quota],
  Want <- Settings[n].want, Edits <- Settings[n].edits,
  Procs <- Settings[n].procs, ProcOf <- Settings[n].slots,
  StorageLimited <- Settings[n].limited, MaxFaults <- Settings[n].faults

Names == DOMAIN Settings
SlotSymmetry == Permutations({s1, s2}) \* interchangeable where they occur

vars == <<setting, status, claimedBy, lapsed, overdue, used, rpc, cpc, wpc,
          job, got, saved, reap, sweep, inputs, images, net, delivered,
          leaked, gifted, littered, faults>>
Init == \E n \in Names : setting = n /\ Service(n)!Init
Next == \E n \in Names : setting = n /\ setting' = n /\ Service(n)!Next
Spec == Init /\ [][Next]_vars

(* The properties of ImageTasks, in every setting.                         *)
Settlement == \* exactly what was not delivered is given back, once
  \A n \in Names :
    setting = n => /\ Service(n)!TypeOK
                   /\ Service(n)!NeverOverRefunded
                   /\ Service(n)!NeverOverCharged
                   /\ Service(n)!OneSettler
Files == \* input images last as long as they are needed, and the stored
         \* images are exactly those of successful tasks
  \A n \in Names :
    setting = n => /\ Service(n)!InputsAvailable /\ Service(n)!NoStrayInputs
                   /\ Service(n)!SuccessHasImages /\ Service(n)!NoStrayImages
Counters == \* the counter in the key file respects the quota and is what the
            \* charges and refunds add up to
  \A n \in Names :
    setting = n => /\ Service(n)!QuotaRespected
                   /\ Service(n)!CounterMatchesLedger
ContractSteps == \* too slow for the largest setting
  [][\A n \in {"apart", "contend"} : setting = n => Service(n)!ContractStep]_vars
=============================================================================
