----------------------------- MODULE RegisterRun -----------------------------
(***************************************************************************)
(* The register executor (register-executor/services): callers start runs, *)
(* a run's thread hands workers to a thread pool and counts what they      *)
(* return, a worker registers an account, saves it through the Go API,     *)
(* has it refreshed and deletes what cannot be used; anyone may stop the   *)
(* run.  A step is what one thread does between two calls to the API, to a *)
(* mail or proxy service, or under the service's lock.                     *)
(*                                                                         *)
(* Faults: a call to the API fails or its reply is lost, register.json     *)
(* cannot be written, the process is killed.                               *)
(***************************************************************************)
EXTENDS Integers, FiniteSets

CONSTANTS Callers,   \* the requests that start runs: manual, refill, repair
          Refill,    \* the caller that is the auto refill watcher
          Repair,    \* the caller that starts a repair of abnormal accounts
          Configs,   \* configurations and loads to consider
          MaxRuns, MaxWorkers, MaxStops, MaxFaults \* bounds

ASSUME RegisterAssumption ==
  /\ Refill \in Callers /\ Repair \in Callers
  /\ MaxRuns \in Nat /\ MaxWorkers \in Nat
  /\ MaxStops \in Nat /\ MaxFaults \in Nat
  /\ \A c \in Configs :
       /\ c.mode \in {"total", "available"}
       /\ c.threads \in Nat \ {0}      \* workers at a time
       /\ c.total \in Nat \ {0}        \* workers of a run in mode "total"
       /\ c.target \in Nat \ {0}       \* accounts that end the other mode
       /\ c.callers \subseteq Callers  \* who starts runs,
       /\ c.runs \in 0 .. MaxRuns      \* how many begin, and
       /\ c.workers \in c.total .. MaxWorkers \* workers of a run

Runs == 1 .. MaxRuns
Workers == Runs \X (1 .. MaxWorkers)
NoRun == 0

VARIABLES
  config,    \* the configuration of the runs
  up,        \* the process is alive
  enabled, saved,   \* config["enabled"]: in memory, in register.json
  runner,    \* the run of self._runner
  stopEvent, \* the run whose event self._stop_event is
  active,    \* openai_register.active_run_id
  run,       \* per run: its thread and what the thread counts
  stop,      \* the runs whose stop event is set
  work,      \* per worker: how far it is, or how it ended
  acct,      \* per worker: its account in the pool
  caller,    \* per caller: where it is in a start
  stops, faults,
  (* History. *)
  stranded,  \* a start or a run broke off while enabled was set
  excused    \* workers that broke off with their account in the pool

vars == <<config, up, enabled, saved, runner, stopEvent, active, run, stop,
          work, acct, caller, stops, faults, stranded, excused>>
switch == <<enabled, saved>>
history == <<stranded, excused>>

Busy == {"proxy", "signup", "saving", "checking", "refreshing", "verifying",
         "dropping", "removing"}
Over == {"ok", "failed", "stopped", "canceled"}

TypeOK ==
  /\ config \in Configs /\ up \in BOOLEAN /\ enabled \in BOOLEAN
  /\ saved \in BOOLEAN /\ runner \in {NoRun} \cup Runs
  /\ stopEvent \in {NoRun} \cup Runs /\ active \in {NoRun} \cup Runs
  /\ run \in [Runs -> [place : {"none", "head", "filling", "asking",
                                "collecting", "ending", "broken", "repairing",
                                "closing", "leaving", "dead"},
                       auto : BOOLEAN, submitted : 0 .. MaxWorkers,
                       futures : SUBSET (1 .. MaxWorkers),
                       shut : {"no", "stopped", "stalled"},
                       done : 0 .. MaxWorkers, success : 0 .. MaxWorkers,
                       fail : 0 .. MaxWorkers]]
  /\ stop \subseteq Runs
  /\ work \in [Workers -> {"none", "queued"} \cup Busy \cup Over]
  /\ acct \in [Workers -> {"none", "raw", "usable"}]
  /\ caller \in [Callers -> {"idle", "starting", "measuring"}]
  /\ stops \in 0 .. MaxStops /\ faults \in 0 .. MaxFaults
  /\ stranded \in BOOLEAN /\ excused \subseteq Workers

Unborn == [place |-> "none", auto |-> FALSE, submitted |-> 0, futures |-> {},
           shut |-> "no", done |-> 0, success |-> 0, fail |-> 0]

Init ==
  /\ config \in Configs /\ up = TRUE /\ enabled = FALSE /\ saved = FALSE
  /\ runner = NoRun /\ stopEvent = NoRun /\ active = NoRun
  /\ run = [r \in Runs |-> Unborn] /\ stop = {}
  /\ work = [w \in Workers |-> "none"] /\ acct = [w \in Workers |-> "none"]
  /\ caller = [c \in Callers |-> "idle"]
  /\ stops = 0 /\ faults = 0 /\ stranded = FALSE /\ excused = {}

Fault == faults < MaxFaults /\ faults' = faults + 1
Unsaved == Fault /\ saved' \in {saved, FALSE} \* register.json kept or lost
Usable == {w \in Workers : acct[w] = "usable"}

-----------------------------------------------------------------------------
(* Starting and stopping.                                                  *)

IsAlive(r) == r # NoRun /\ run[r].place \notin {"none", "dead"}

(* A start that meets a living thread only switches enabled on again.      *)
JoinRun(c) ==
  /\ IsAlive(runner)
  /\ enabled' = (enabled \/ stopEvent = NoRun \/ stopEvent \notin stop)
  /\ \/ saved' = enabled' /\ UNCHANGED faults
     \/ Unsaved
  /\ stranded' = (stranded \/ (enabled' /\ run[runner].place = "leaving"))
  /\ caller' = [caller EXCEPT ![c] = "idle"]
  /\ UNCHANGED <<config, up, runner, stopEvent, active, run, stop, work,
                 acct, stops, excused>>

Look(c) == \* _auto_refill_loop reads the configuration
  /\ up /\ c = Refill /\ c \in config.callers /\ caller[c] = "idle"
  /\ ~enabled
  /\ caller' = [caller EXCEPT ![c] = "starting"]
  /\ UNCHANGED <<config, switch, up, runner, stopEvent, active, run, stop,
                 work, acct, stops, faults, history>>

LookAgain(c) == \* and whether a run is alive
  /\ up /\ caller[c] = "starting" /\ IsAlive(runner)
  /\ caller' = [caller EXCEPT ![c] = "idle"]
  /\ UNCHANGED <<config, switch, up, runner, stopEvent, active, run, stop,
                 work, acct, stops, faults, history>>

Ready(c) == /\ up /\ c \in config.callers
            /\ caller[c] = IF c = Refill THEN "starting" ELSE "idle"

FirstCheck(c) ==
  /\ Ready(c)
  /\ \/ JoinRun(c)
     \/ /\ ~IsAlive(runner)
        /\ caller' = [caller EXCEPT ![c] = "measuring"]
        /\ UNCHANGED <<config, switch, up, runner, stopEvent, active, run,
                       stop, work, acct, stops, faults, history>>

MetricsFail(c) ==
  /\ up /\ caller[c] = "measuring" /\ Fault
  /\ caller' = [caller EXCEPT ![c] = "idle"]
  /\ UNCHANGED <<config, switch, up, runner, stopEvent, active, run, stop,
                 work, acct, stops, history>>

(* The new run, begun under the lock.  MaxRuns bounds the job ids.          *)
Launched(r, c) ==
  LET place == IF c = Repair THEN "repairing" ELSE "head" IN
  /\ r <= config.runs /\ run[r].place = "none"
  /\ \A q \in Runs : q < r => run[q].place # "none"
  /\ enabled' = TRUE /\ stopEvent' = r
  /\ \/ /\ saved' = TRUE /\ runner' = r /\ stranded' = FALSE
        /\ run' = [run EXCEPT ![r] =
                       [run[r] EXCEPT !.place = place, !.auto = (c = Refill)]]
        /\ active' = IF place = "head" THEN r ELSE active
        /\ UNCHANGED faults
     \/ /\ Unsaved /\ stranded' = TRUE
        /\ run' = [run EXCEPT ![r].place = "dead"]
        /\ UNCHANGED <<runner, active>>

Begin(c) ==
  /\ \E r \in Runs : Launched(r, c)
  /\ caller' = [caller EXCEPT ![c] = "idle"]
  /\ UNCHANGED <<config, up, stop, work, acct, stops, excused>>

(* Mutant: what the first check found is relied on.                        *)
LaunchUnchecked(c) == up /\ caller[c] = "measuring" /\ Begin(c)

Launch(c) ==
  /\ up /\ caller[c] = "measuring"
  /\ JoinRun(c) \/ (~IsAlive(runner) /\ Begin(c))

Stop ==
  /\ up /\ stops < MaxStops /\ stops' = stops + 1
  /\ enabled' = FALSE /\ stranded' = FALSE
  /\ stop' = stop \cup ({stopEvent} \ {NoRun})
  /\ \/ saved' = FALSE /\ UNCHANGED faults
     \/ Unsaved
  /\ UNCHANGED <<config, up, runner, stopEvent, active, run, work, acct,
                 caller, excused>>

-----------------------------------------------------------------------------
(* The thread of a run: _run.                                              *)

At(r, place) == up /\ run[r].place = place
Goto(r, place) == run' = [run EXCEPT ![r].place = place]
Of(r, places) == {i \in run[r].futures : work[<<r, i>>] \in places}

Cancel(r) == \* _cancel_pending_futures
  work' = [w \in Workers |->
             IF w[1] = r /\ work[w] = "queued" THEN "canceled" ELSE work[w]]

(* Mutant: the canceled workers are not counted.                           *)
ShutDownUncounted(r, why) ==
  /\ active' = IF active = r THEN NoRun ELSE active
  /\ stop' = stop \cup {r}
  /\ Cancel(r)
  /\ run' = [run EXCEPT ![r] =
       [run[r] EXCEPT !.shut = why, !.futures = @ \ Of(r, {"queued"}),
                      !.place = IF run[r].futures = Of(r, {"queued"})
                                THEN "ending" ELSE "filling"]]

(* _invalidate_running_workers.                                            *)
ShutDown(r, why) ==
  LET canceled == Cardinality(Of(r, {"queued"})) IN
  /\ active' = IF active = r THEN NoRun ELSE active
  /\ stop' = stop \cup {r}
  /\ Cancel(r)
  /\ run' = [run EXCEPT ![r] =
       [run[r] EXCEPT !.shut = why, !.futures = @ \ Of(r, {"queued"}),
                      !.done = @ + canceled,
                      !.fail = @ + IF why = "stalled" THEN canceled ELSE 0,
                      !.place = IF run[r].futures = Of(r, {"queued"})
                                THEN "ending" ELSE "filling"]]

Head(r) ==
  /\ At(r, "head")
  /\ \/ /\ r \in stop /\ run[r].shut = "no" /\ ShutDown(r, "stopped")
     \/ /\ r \in stop /\ run[r].shut # "no"
        /\ Goto(r, IF run[r].futures = {} THEN "ending" ELSE "filling")
        /\ UNCHANGED <<active, stop, work>>
     \/ \* no progress for task_stall_timeout_seconds
        /\ r \notin stop /\ Of(r, Busy) # {} /\ ShutDown(r, "stalled")
     \/ /\ r \notin stop /\ Goto(r, "filling")
        /\ UNCHANGED <<active, stop, work>>
  /\ UNCHANGED <<config, switch, up, runner, stopEvent, acct, caller, stops,
                 faults, history>>

(* enabled and the stop event are read, then the API is asked.  What ends  *)
(* the filling saves the configuration with the statistics (_bump).        *)
Fill(r) ==
  /\ At(r, "filling")
  /\ IF enabled /\ r \notin stop
       THEN Goto(r, "asking") /\ UNCHANGED saved
       ELSE Goto(r, "collecting") /\ saved' = enabled
  /\ UNCHANGED <<config, enabled, up, runner, stopEvent, active, stop, work,
                 acct, caller, stops, faults, history>>

InTotal(r) == config.mode = "total" \/ run[r].auto
TargetReached(r) ==
  IF InTotal(r) THEN run[r].submitted >= config.total
                    ELSE Cardinality(Usable) >= config.target

Submit(r) ==
  /\ At(r, "asking") /\ ~TargetReached(r)
  /\ Cardinality(run[r].futures) < config.threads
  /\ run[r].submitted < config.workers
  /\ LET i == run[r].submitted + 1 IN
       /\ run' = [run EXCEPT ![r] =
            [run[r] EXCEPT !.submitted = i, !.futures = @ \cup {i},
                           !.place = "filling"]]
       /\ work' = [work EXCEPT ![<<r, i>>] = "queued"]
  /\ UNCHANGED <<config, switch, up, runner, stopEvent, active, stop, acct,
                 caller, stops, faults, history>>

Enough(r) == \* the target is reached, or every thread has its worker
  /\ At(r, "asking")
  /\ \/ TargetReached(r) \/ Cardinality(run[r].futures) = config.threads
     \/ run[r].submitted = config.workers
  /\ Goto(r, "collecting") /\ saved' = enabled
  /\ UNCHANGED <<config, enabled, up, runner, stopEvent, active, stop, work,
                 acct, caller, stops, faults, history>>

(* The metrics or register.json fail: the exception leaves the loop.       *)
Break(r) ==
  /\ At(r, "filling") \/ At(r, "asking")
  /\ Unsaved /\ Goto(r, "broken")
  /\ work' = [w \in Workers |->
                IF w[1] = r /\ work[w] = "queued" THEN "canceled" ELSE work[w]]
  /\ UNCHANGED <<config, enabled, up, runner, stopEvent, active, stop, acct,
                 caller, stops, history>>

(* Mutant: finished workers stay among the futures.                        *)
CountedAgain(r, finished) ==
  [run EXCEPT ![r] =
    [run[r] EXCEPT !.place = "head", !.done = @ + Cardinality(finished)]]

Counted(r, finished) ==
  LET n(result) == Cardinality({i \in finished : work[<<r, i>>] = result})
  IN [run EXCEPT ![r] =
       [run[r] EXCEPT !.place = "head", !.futures = @ \ finished,
                      !.done = @ + Cardinality(finished), !.success = @ + n("ok"),
                      !.fail = @ + n("failed") + IF run[r].shut = "stalled"
                                                 THEN n("stopped") ELSE 0]]

Collect(r) ==
  /\ At(r, "collecting")
  /\ run' = IF run[r].futures # {} THEN Counted(r, Of(r, Over))
            ELSE [run EXCEPT ![r].place =
                    IF ~enabled \/ InTotal(r) \/ r \in stop
                    THEN "ending" ELSE "head"]
  /\ UNCHANGED <<config, switch, up, runner, stopEvent, active, stop, work,
                 acct, caller, stops, faults, history>>

(* executor.shutdown(wait=True) and clear_active_run_id.                   *)
(* Mutant: the pool is not waited for.                                     *)
AwaitNothing(r) == TRUE

AwaitWorkers(r) == \A w \in Workers : w[1] = r => work[w] \notin Busy

End(r) ==
  /\ At(r, "ending") \/ At(r, "broken")
  /\ AwaitWorkers(r)
  /\ active' = IF active = r THEN NoRun ELSE active
  /\ Goto(r, IF At(r, "ending") THEN "closing" ELSE "dead")
  /\ stranded' = (stranded \/ (enabled /\ At(r, "broken")))
  /\ UNCHANGED <<config, switch, up, runner, stopEvent, stop, work, acct,
                 caller, stops, faults, excused>>

(* Mutant: enabled stays set.                                              *)
CloseEnabled(r) ==
  /\ At(r, "closing")
  /\ stopEvent' = IF stopEvent = r THEN NoRun ELSE stopEvent
  /\ Goto(r, "leaving")
  /\ UNCHANGED <<config, switch, up, runner, active, stop, work, acct,
                 caller, stops, faults, history>>

Close(r) == \* the last block under the lock, unless the report before it fails
  /\ At(r, "closing")
  /\ \/ /\ enabled' = FALSE /\ stranded' = FALSE
        /\ stopEvent' = IF stopEvent = r THEN NoRun ELSE stopEvent
        /\ \/ saved' = FALSE /\ Goto(r, "leaving") /\ UNCHANGED faults
           \/ Fault /\ Goto(r, "dead") /\ saved' \in {enabled, FALSE}
     \/ /\ Unsaved /\ Goto(r, "dead") /\ stranded' = enabled
        /\ UNCHANGED <<enabled, stopEvent>>
  /\ UNCHANGED <<config, up, runner, active, stop, work, acct, caller, stops,
                 excused>>

Leave(r) == \* the thread is alive until it has logged its result
  /\ At(r, "leaving") /\ Goto(r, "dead")
  /\ UNCHANGED <<config, switch, up, runner, stopEvent, active, stop, work,
                 acct, caller, stops, faults, history>>

(* _run_repair_abnormal: unusable accounts are refreshed or deleted, one   *)
(* after the other until the run is stopped.                               *)
RepairOne(r) ==
  /\ At(r, "repairing") /\ r \notin stop
  /\ \E w \in Workers :
       /\ acct[w] = "raw"
       /\ \/ acct' = [acct EXCEPT ![w] = "usable"] /\ UNCHANGED faults
          \/ acct' = [acct EXCEPT ![w] = "none"] /\ UNCHANGED faults
          \/ Fault /\ UNCHANGED acct
  /\ UNCHANGED <<config, switch, up, runner, stopEvent, active, run, stop,
                 work, caller, stops, history>>

RepairEnds(r) ==
  /\ At(r, "repairing") /\ Goto(r, "closing")
  /\ UNCHANGED <<config, switch, up, runner, stopEvent, active, stop, work,
                 acct, caller, stops, faults, history>>

-----------------------------------------------------------------------------
(* A worker of a run: openai_register.worker.                              *)

Is(w, place) == up /\ work[w] = place
Becomes(w, place) == work' = [work EXCEPT ![w] = place]
Stopped(w) == w[1] \in stop
Invalid(w) == active # w[1]
Kept(w) == excused' = excused \cup {w}

others == <<config, switch, up, runner, stopEvent, active, run, stop, caller,
            stops, stranded>>

Accept(w) ==
  /\ Is(w, "queued")
  /\ Becomes(w, IF Invalid(w) THEN "stopped" ELSE "proxy")
  /\ UNCHANGED <<others, acct, faults, excused>>

(* Mutant: waiting for a proxy, a worker does not look at the stop event.  *)
GetProxyForSure(w) ==
  /\ Is(w, "proxy") /\ ~Stopped(w) /\ ~Invalid(w) /\ Becomes(w, "signup")
  /\ UNCHANGED <<others, acct, faults, excused>>

(* It gets a proxy, or there is none before the deadline.                  *)
GetProxy(w) ==
  /\ Is(w, "proxy")
  /\ \/ Becomes(w, IF Stopped(w) \/ Invalid(w) THEN "stopped" ELSE "signup")
     \/ Becomes(w, "failed")
  /\ UNCHANGED <<others, acct, faults, excused>>

SignUp(w) == \* PlatformRegistrar.register, which ends at the deadline
  /\ Is(w, "signup")
  /\ \/ Becomes(w, IF Stopped(w) \/ Invalid(w) THEN "stopped" ELSE "saving")
     \/ Becomes(w, "failed")
  /\ UNCHANGED <<others, acct, faults, excused>>

Save(w) == \* add_account_items
  /\ Is(w, "saving")
  /\ \/ /\ acct' = [acct EXCEPT ![w] = "raw"] /\ Becomes(w, "checking")
        /\ UNCHANGED <<faults, excused>>
     \/ /\ Fault /\ Becomes(w, "failed") /\ UNCHANGED <<acct, excused>>
     \/ /\ Fault /\ Becomes(w, "failed") /\ Kept(w) \* the reply is lost
        /\ acct' = [acct EXCEPT ![w] = "raw"]
  /\ UNCHANGED others

(* The deadline is noticed by an exception that leaves the account.        *)
Check(w) ==
  /\ Is(w, "checking")
  /\ \/ Becomes(w, IF Stopped(w) \/ Invalid(w) THEN "dropping"
                                             ELSE "refreshing")
        /\ UNCHANGED excused
     \/ ~Stopped(w) /\ Becomes(w, "failed") /\ Kept(w)
  /\ UNCHANGED <<others, acct, faults>>

(* refresh_accounts: the account is usable, or is not, or the API has      *)
(* removed it.                                                             *)
Refresh(w) ==
  /\ Is(w, "refreshing")
  /\ \E a \in {"none", "raw", "usable"} :
       /\ acct' = [acct EXCEPT ![w] = a]
       /\ \/ Becomes(w, IF Invalid(w) THEN "dropping" ELSE "verifying")
          \/ Becomes(w, "removing") \* errors, or no answer
  /\ UNCHANGED <<others, faults, excused>>

(* Mutants: an account that was refreshed counts as usable; a run that was *)
(* stopped meanwhile keeps it.                                             *)
VerifyNothing(w) ==
  /\ Is(w, "verifying") /\ Becomes(w, IF Invalid(w) THEN "dropping" ELSE "ok")
  /\ UNCHANGED <<others, acct, faults, excused>>
VerifyStopped(w) ==
  /\ Is(w, "verifying")
  /\ Becomes(w, IF acct[w] # "usable" THEN "removing"
                ELSE IF Invalid(w) THEN "stopped" ELSE "ok")
  /\ UNCHANGED <<others, acct, faults, excused>>

Verify(w) == \* the account is read back
  /\ Is(w, "verifying")
  /\ \/ /\ Becomes(w, IF acct[w] # "usable" THEN "removing"
                      ELSE IF Invalid(w) THEN "dropping" ELSE "ok")
        /\ UNCHANGED <<faults, excused>>
     \/ Fault /\ Becomes(w, "failed") /\ Kept(w)
  /\ UNCHANGED <<others, acct>>

Delete(w) == \* _delete_saved_account_or_raise
  /\ Is(w, "dropping") \/ Is(w, "removing")
  /\ \/ /\ acct' = [acct EXCEPT ![w] = "none"]
        /\ Becomes(w, IF Is(w, "dropping") THEN "stopped" ELSE "failed")
        /\ UNCHANGED <<faults, excused>>
     \/ /\ Fault /\ Becomes(w, "failed") /\ Kept(w) \* or the reply is lost
        /\ acct' \in {acct, [acct EXCEPT ![w] = "none"]}
  /\ UNCHANGED others

-----------------------------------------------------------------------------
(* The process is killed; at its next start an enabled run starts anew.    *)

Kill ==
  /\ up /\ Fault /\ up' = FALSE
  /\ run' = [r \in Runs |-> IF run[r].place = "none" THEN run[r]
                            ELSE [run[r] EXCEPT !.place = "dead"]]
  /\ work' = [w \in Workers |-> IF work[w] \in Busy \cup {"queued"}
                                THEN "canceled" ELSE work[w]]
  /\ excused' = excused \cup
       {w \in Workers : work[w] \in Busy /\ acct[w] # "none"}
  /\ runner' = NoRun /\ stopEvent' = NoRun /\ active' = NoRun
  /\ enabled' = FALSE /\ stop' = {} /\ stranded' = FALSE
  /\ caller' = [c \in Callers |-> "idle"]
  /\ UNCHANGED <<config, saved, acct, stops>>

Manual == CHOOSE c \in Callers : c \notin {Refill, Repair}

Restart == \* _load, _auto_start_loaded_config
  /\ ~up /\ up' = TRUE
  /\ \/ /\ ~saved
        /\ UNCHANGED <<enabled, saved, runner, stopEvent, active, run,
                       faults, stranded>>
     \/ saved /\ UNCHANGED faults /\ \E r \in Runs : Launched(r, Manual)
     \/ /\ saved /\ Fault /\ saved' = FALSE \* the start fails
        /\ UNCHANGED <<enabled, runner, stopEvent, active, run, stranded>>
  /\ UNCHANGED <<config, stop, work, acct, caller, stops, excused>>

Call(c) ==
  Look(c) \/ LookAgain(c) \/ FirstCheck(c) \/ MetricsFail(c) \/ Launch(c)
Thread(r) ==
  \/ Head(r) \/ Fill(r) \/ Submit(r) \/ Enough(r) \/ Break(r) \/ Collect(r)
  \/ End(r) \/ Close(r) \/ Leave(r) \/ RepairOne(r) \/ RepairEnds(r)
Worker(w) ==
  \/ Accept(w) \/ GetProxy(w) \/ SignUp(w) \/ Save(w) \/ Check(w)
  \/ Refresh(w) \/ Verify(w) \/ Delete(w)

Next ==
  \/ \E c \in Callers : Call(c)
  \/ \E r \in Runs : Thread(r)
  \/ \E w \in Workers : Worker(w)
  \/ Stop \/ Kill \/ Restart

Spec == Init /\ [][Next]_vars

-----------------------------------------------------------------------------
(* Whatever starts meet, one run is at work at a time: no other run's      *)
(* thread is alive, and workers are those of the current run.              *)
OneRun ==
  /\ \A r \in Runs : IsAlive(r) => r = runner
  /\ \A w \in Workers : work[w] \in Busy => w[1] = runner /\ IsAlive(runner)

(* Every worker a run has submitted is counted as done exactly once,       *)
(* canceled or not, and at the end the successes and failures are those of *)
(* the workers (failures include what a stall has cut short).              *)
Results(r, results) ==
  Cardinality({i \in 1 .. run[r].submitted : work[<<r, i>>] \in results})
WorkersCounted ==
  \A r \in Runs :
    /\ run[r].place \notin {"broken", "dead"} =>
         run[r].done + Cardinality(run[r].futures) = run[r].submitted
    /\ run[r].place \in {"closing", "leaving"} =>
         /\ run[r].success = Results(r, {"ok"})
         /\ run[r].fail = Results(r, IF run[r].shut = "stalled"
                                     THEN {"failed", "stopped", "canceled"}
                                     ELSE {"failed"})

(* README.md: no unusable result is kept.  A worker that reports no        *)
(* success has no account in the pool, unless a call failed, the process   *)
(* was killed or its deadline passed in the steps that settle the account. *)
LeftoversExplained ==
  \A w \in Workers :
    /\ work[w] \in Over \ {"ok"} /\ acct[w] # "none" => w \in excused
    /\ work[w] = "ok" => acct[w] = "usable"

(* The configuration says enabled only while a run is alive, unless a      *)
(* start or a run broke off or a start met a thread that was leaving (the  *)
(* refill watcher then waits for a run that does not exist).               *)
EnabledMeansRunning == up /\ enabled => IsAlive(runner) \/ stranded

(* What a run leaves behind, accounts and switch, has a reason             *)
(* (_register_one, _run, start).                                           *)
StateExplained == TypeOK /\ LeftoversExplained /\ EnabledMeansRunning

(* A run that is told to stop ends.                                        *)
StopEnds == \A r \in Runs : r \in stop ~> run[r].place = "dead"

-----------------------------------------------------------------------------
(* Threads are scheduled and every call they make ends by its timeout.     *)
Progress(r) ==
  \/ Head(r) \/ Fill(r) \/ Submit(r) \/ Enough(r) \/ Collect(r) \/ End(r)
  \/ Close(r) \/ Leave(r) \/ RepairEnds(r)
FairSpec ==
  /\ Spec
  /\ \A r \in Runs : WF_vars(Progress(r))
  /\ \A w \in Workers : WF_vars(Worker(w))

=============================================================================
