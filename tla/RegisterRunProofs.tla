------------------------- MODULE RegisterRunProofs -------------------------
(***************************************************************************)
(* For any callers, configurations, numbers of runs and workers, stops and *)
(* faults: one run is at work at a time, every worker it submits is        *)
(* counted once, and what it leaves behind has a reason.                   *)
(*                                                                         *)
(* The counters of a run are bounded because they count workers: each is   *)
(* the number of those taken out of the futures that ended in a certain    *)
(* way (Counts).  That no stall finds workers already stopped, and that a  *)
(* new run finds none of the old ones, needs the active run id (Alone).    *)
(***************************************************************************)
EXTENDS RegisterRun, FiniteSetTheorems, TLAPS

Loop == {"head", "filling", "asking", "collecting"}
Working == Loop \cup {"ending", "broken"}
Places == Loop \cup {"none", "ending", "broken", "repairing", "closing",
                     "leaving", "dead"}

RunRecord ==
  [place : Places, auto : BOOLEAN, submitted : 0 .. MaxWorkers,
   futures : SUBSET (1 .. MaxWorkers), shut : {"no", "stopped", "stalled"},
   done : Nat, success : Nat, fail : Nat]

(* TypeOK with counters that may be any number.                            *)
Types ==
  /\ config \in Configs /\ up \in BOOLEAN /\ enabled \in BOOLEAN
  /\ saved \in BOOLEAN /\ runner \in {NoRun} \cup Runs
  /\ stopEvent \in {NoRun} \cup Runs /\ active \in {NoRun} \cup Runs
  /\ run \in [Runs -> RunRecord] /\ stop \subseteq Runs
  /\ work \in [Workers -> {"none", "queued"} \cup Busy \cup Over]
  /\ acct \in [Workers -> {"none", "raw", "usable"}]
  /\ caller \in [Callers -> {"idle", "starting", "measuring"}]
  /\ stops \in 0 .. MaxStops /\ faults \in 0 .. MaxFaults
  /\ stranded \in BOOLEAN /\ excused \subseteq Workers

(* The workers of a run that it has taken out of its futures.              *)
Taken(r) == (1 .. run[r].submitted) \ run[r].futures
TakenAs(r, results) == {i \in Taken(r) : work[<<r, i>>] \in results}
Failing(r) == IF run[r].shut = "stalled"
              THEN {"failed", "stopped", "canceled"} ELSE {"failed"}

CountsOf(r) ==
  /\ run[r].futures \subseteq 1 .. run[r].submitted
  /\ \A i \in Taken(r) : work[<<r, i>>] \in Over
  /\ run[r].done = Cardinality(Taken(r))
  /\ run[r].success = Cardinality(TakenAs(r, {"ok"}))
  /\ run[r].fail = Cardinality(TakenAs(r, Failing(r)))

Counts == \A r \in Runs : CountsOf(r)

(* Where the thread of a run is says what its workers and futures may be.  *)
Phase ==
  /\ \A r \in Runs :
       /\ run[r].place \in {"none", "repairing"} => run[r].submitted = 0
       /\ run[r].place \in {"none", "repairing"} => run[r].shut = "no"
       /\ run[r].place \in {"ending", "closing", "leaving"}
            => run[r].futures = {}
       /\ run[r].place \in Loop /\ r \notin stop
            => run[r].shut = "no" /\ active = r
  /\ \A w \in Workers :
       /\ w[2] > run[w[1]].submitted => work[w] = "none"
       /\ work[w] = "queued" => run[w[1]].place \in Loop
       /\ work[w] \in Busy => run[w[1]].place \in Working
       /\ run[w[1]].place \in Loop /\ w[1] \notin stop
            => work[w] \notin {"dropping", "stopped", "canceled"}
       /\ run[w[1]].place \in Loop /\ w[2] \in run[w[1]].futures
            => work[w] # "canceled"

Alone ==
  /\ \A r \in Runs : IsAlive(r) => r = runner /\ up
  /\ active # NoRun => active = runner /\ run[active].place \in Working

(* An account exists only from its worker's Save on.                       *)
Settled ==
  /\ LeftoversExplained
  /\ \A w \in Workers :
       work[w] \in {"none", "queued", "proxy", "signup", "saving"}
         => acct[w] = "none"

Switch ==
  /\ EnabledMeansRunning /\ (~up => ~enabled)
  /\ \A r \in Runs : run[r].place = "leaving" /\ enabled => stranded

IInv == Types /\ Counts /\ Phase /\ Alone /\ Settled /\ Switch

LEMMA RunUpdate ==
  ASSUME NEW r \in Runs, run \in [Runs -> RunRecord], NEW rec \in RunRecord,
         run' = [run EXCEPT ![r] = rec]
  PROVE  /\ run' \in [Runs -> RunRecord] /\ run'[r] = rec
         /\ \A q \in Runs : q # r => run'[q] = run[q]
  OBVIOUS

(* Moving a thread changes nothing else of its run.                        *)
LEMMA GotoEffect ==
  ASSUME NEW r \in Runs, run \in [Runs -> RunRecord], NEW place \in Places,
         Goto(r, place)
  PROVE  /\ run' \in [Runs -> RunRecord]
         /\ run'[r] = [run[r] EXCEPT !.place = place]
         /\ \A q \in Runs : q # r => run'[q] = run[q]
<1>1. [run[r] EXCEPT !.place = place] \in RunRecord
  BY DEF RunRecord
<1>. QED
  BY <1>1 DEF Goto

LEMMA QueuedType ==
  ASSUME NEW r \in Runs, run[r] \in RunRecord, NEW places
  PROVE  /\ Of(r, places) \subseteq run[r].futures
         /\ run[r].futures \subseteq 1 .. MaxWorkers
         /\ IsFiniteSet(run[r].futures) /\ IsFiniteSet(Of(r, places))
         /\ Cardinality(Of(r, places)) \in Nat
<1>1. /\ Of(r, places) \subseteq run[r].futures
      /\ run[r].futures \subseteq 1 .. MaxWorkers
  BY DEF Of, RunRecord
<1>2. IsFiniteSet(1 .. MaxWorkers)
  BY FS_Interval, RegisterAssumption
<1>. QED
  BY <1>1, <1>2, FS_Subset, FS_CardinalityType

(* What _invalidate_running_workers does to the run and to its workers.    *)
LEMMA ShutDownEffect ==
  ASSUME Types, NEW r \in Runs, NEW why \in {"stopped", "stalled"},
         ShutDown(r, why)
  PROVE  /\ run' \in [Runs -> RunRecord]
         /\ \A q \in Runs : q # r => run'[q] = run[q]
         /\ run'[r].place \in {"ending", "filling"}
         /\ run'[r].place = "ending" => run'[r].futures = {}
         /\ run'[r].auto = run[r].auto /\ run'[r].submitted = run[r].submitted
         /\ run'[r].futures = run[r].futures \ Of(r, {"queued"})
         /\ run'[r].shut = why /\ run'[r].success = run[r].success
         /\ run'[r].done = run[r].done + Cardinality(Of(r, {"queued"}))
         /\ run'[r].fail = run[r].fail + IF why = "stalled"
              THEN Cardinality(Of(r, {"queued"})) ELSE 0
         /\ active' \in {active, NoRun} /\ stop' = stop \cup {r}
         /\ work' \in [Workers -> {"none", "queued"} \cup Busy \cup Over]
         /\ \A w \in Workers :
              \/ w[1] = r /\ work[w] = "queued" /\ work'[w] = "canceled"
              \/ ~(w[1] = r /\ work[w] = "queued") /\ work'[w] = work[w]
<1> DEFINE Q == Of(r, {"queued"})
           c == Cardinality(Q)
           s == run[r]
           rec == [s EXCEPT !.shut = why, !.futures = @ \ Q, !.done = @ + c,
                     !.fail = @ + IF why = "stalled" THEN c ELSE 0,
                     !.place = IF s.futures = Q THEN "ending" ELSE "filling"]
<1>1. s \in RunRecord /\ c \in Nat
  BY QueuedType DEF Types
<1>2. run' = [run EXCEPT ![r] = rec]
  <2>1. run' = [run EXCEPT ![r] =
                  [s EXCEPT !.shut = why, !.futures = s.futures \ Q, !.done = s.done + c,
                     !.fail = s.fail + IF why = "stalled" THEN c ELSE 0,
                     !.place = IF s.futures = Q THEN "ending" ELSE "filling"]]
    BY DEF ShutDown
  <2> QED  BY <2>1
<1>3. /\ rec.place = IF s.futures = Q THEN "ending" ELSE "filling"
      /\ rec.auto = s.auto /\ rec.submitted = s.submitted
      /\ rec.futures = s.futures \ Q /\ rec.shut = why
      /\ rec.success = s.success /\ rec.done = s.done + c
      /\ rec.fail = s.fail + IF why = "stalled" THEN c ELSE 0
  BY <1>1 DEF RunRecord
<1>4. rec \in RunRecord
  <2>1. /\ s.futures \ Q \in SUBSET (1 .. MaxWorkers) /\ s.done + c \in Nat
        /\ s.fail + (IF why = "stalled" THEN c ELSE 0) \in Nat
        /\ (IF s.futures = Q THEN "ending" ELSE "filling") \in Places
    BY <1>1 DEF RunRecord, Places, Loop
  <2>. HIDE DEF Q, c
  <2>. QED
    BY <1>1, <2>1 DEF RunRecord
<1>5. run' \in [Runs -> RunRecord] /\ run'[r] = rec
      /\ \A q \in Runs : q # r => run'[q] = run[q]
  BY <1>2, <1>4, RunUpdate DEF Types
<1>6. /\ active' \in {active, NoRun} /\ stop' = stop \cup {r}
      /\ work' \in [Workers -> {"none", "queued"} \cup Busy \cup Over]
      /\ \A w \in Workers :
              \/ w[1] = r /\ work[w] = "queued" /\ work'[w] = "canceled"
              \/ ~(w[1] = r /\ work[w] = "queued") /\ work'[w] = work[w]
  BY DEF ShutDown, Cancel, Types, Over
<1>. HIDE DEF rec, c
<1>7. rec.place = "ending" => rec.futures = {}
  BY <1>3
<1>. QED
  BY <1>3, <1>5, <1>6, <1>7 DEF c

LEMMA SubmitEffect ==
  ASSUME Types, NEW r \in Runs, Submit(r)
  PROVE  /\ run' \in [Runs -> RunRecord]
         /\ \A q \in Runs : q # r => run'[q] = run[q]
         /\ run[r].place = "asking" /\ run'[r].place = "filling"
         /\ run'[r].auto = run[r].auto /\ run'[r].shut = run[r].shut
         /\ run'[r].done = run[r].done /\ run'[r].success = run[r].success
         /\ run'[r].fail = run[r].fail
         /\ run[r].submitted + 1 \in 1 .. MaxWorkers
         /\ run'[r].submitted = run[r].submitted + 1
         /\ run'[r].futures = run[r].futures \cup {run[r].submitted + 1}
         /\ work' = [work EXCEPT ![<<r, run[r].submitted + 1>>] = "queued"]
<1> DEFINE s == run[r]
           i == s.submitted + 1
           rec == [s EXCEPT !.submitted = i, !.futures = @ \cup {i},
                     !.place = "filling"]
<1>1. s \in RunRecord
  BY DEF Types
<1>2. run' = [run EXCEPT ![r] = rec]
  <2>1. run' = [run EXCEPT ![r] =
                  [s EXCEPT !.submitted = i, !.futures = s.futures \cup {i},
                     !.place = "filling"]]
    BY DEF Submit
  <2> QED  BY <2>1
<1>3. i \in 1 .. MaxWorkers
  <2>1. config.workers \in config.total .. MaxWorkers
    BY RegisterAssumption DEF Types
  <2>2. s.submitted < config.workers
    BY DEF Submit
  <2>. QED
    BY <1>1, <2>1, <2>2, RegisterAssumption DEF RunRecord, Types
<1>4. /\ rec \in RunRecord /\ rec.place = "filling" /\ rec.auto = s.auto
      /\ rec.shut = s.shut /\ rec.done = s.done /\ rec.success = s.success
      /\ rec.fail = s.fail /\ rec.submitted = i
      /\ rec.futures = s.futures \cup {i}
  <2>1. /\ i \in 0 .. MaxWorkers /\ "filling" \in Places
        /\ s.futures \cup {i} \in SUBSET (1 .. MaxWorkers)
    BY <1>1, <1>3 DEF RunRecord, Places, Loop
  <2>. HIDE DEF i
  <2>. QED
    BY <1>1, <2>1 DEF RunRecord
<1>5. run' \in [Runs -> RunRecord] /\ run'[r] = rec
      /\ \A q \in Runs : q # r => run'[q] = run[q]
  BY <1>2, <1>4, RunUpdate DEF Types
<1>6. s.place = "asking" /\ work' = [work EXCEPT ![<<r, i>>] = "queued"]
  BY DEF Submit, At
<1>. HIDE DEF rec
<1>. QED
  BY <1>3, <1>4, <1>5, <1>6

(* A number of results among the finished workers.                         *)
Among(r, result) == Cardinality({i \in Of(r, Over) : work[<<r, i>>] = result})

LEMMA CollectEffect ==
  ASSUME Types, NEW r \in Runs, Collect(r), run[r].futures # {}
  PROVE  /\ run' \in [Runs -> RunRecord]
         /\ \A q \in Runs : q # r => run'[q] = run[q]
         /\ run[r].place = "collecting" /\ run'[r].place = "head"
         /\ run'[r].auto = run[r].auto /\ run'[r].shut = run[r].shut
         /\ run'[r].submitted = run[r].submitted
         /\ run'[r].futures = run[r].futures \ Of(r, Over)
         /\ run'[r].done = run[r].done + Cardinality(Of(r, Over))
         /\ run'[r].success = run[r].success + Among(r, "ok")
         /\ run'[r].fail = run[r].fail + Among(r, "failed")
              + IF run[r].shut = "stalled" THEN Among(r, "stopped") ELSE 0
<1> DEFINE s == run[r]
           F == Of(r, Over)
           n == Cardinality(F)
           ok == Among(r, "ok")
           bad == Among(r, "failed") + IF s.shut = "stalled"
                                       THEN Among(r, "stopped") ELSE 0
           rec == [s EXCEPT !.place = "head", !.futures = @ \ F, !.done = @ + n,
                     !.success = @ + ok, !.fail = @ + bad]
<1>1. s \in RunRecord
  BY DEF Types
<1>2. IsFiniteSet(F) /\ n \in Nat
  BY <1>1, QueuedType
<1>3. ASSUME NEW result PROVE Among(r, result) \in Nat
  BY <1>2, FS_Subset, FS_CardinalityType DEF Among
<1>4. ok \in Nat /\ bad \in Nat
  BY <1>3
<1>5. run' = [run EXCEPT ![r] = rec]
  <2>1. run' = Counted(r, F)
    BY DEF Collect
  <2>2. Counted(r, F) =
          [run EXCEPT ![r] =
            [run[r] EXCEPT !.place = "head", !.futures = @ \ F,
               !.done = @ + n, !.success = @ + ok,
               !.fail = @ + Among(r, "failed") +
                 IF run[r].shut = "stalled" THEN Among(r, "stopped") ELSE 0]]
    BY DEF Counted, Among
  <2>3. s.fail + Among(r, "failed") +
          (IF s.shut = "stalled" THEN Among(r, "stopped") ELSE 0)
          = s.fail + bad
    BY <1>1, <1>3 DEF RunRecord
  <2>. HIDE DEF F, n, ok, bad
  <2>. QED
    BY <2>1, <2>2, <2>3 DEF Types
<1>6. /\ rec \in RunRecord /\ rec.place = "head" /\ rec.auto = s.auto
      /\ rec.shut = s.shut /\ rec.submitted = s.submitted
      /\ rec.futures = s.futures \ F /\ rec.done = s.done + n
      /\ rec.success = s.success + ok /\ rec.fail = s.fail + bad
  <2>1. /\ "head" \in Places /\ s.futures \ F \in SUBSET (1 .. MaxWorkers)
        /\ s.done + n \in Nat /\ s.success + ok \in Nat
        /\ s.fail + bad \in Nat
    BY <1>1, <1>2, <1>4 DEF RunRecord, Places, Loop
  <2>. HIDE DEF F, n, ok, bad
  <2>. QED
    BY <1>1, <2>1 DEF RunRecord
<1>7. run' \in [Runs -> RunRecord] /\ run'[r] = rec
      /\ \A q \in Runs : q # r => run'[q] = run[q]
  BY <1>5, <1>6, RunUpdate DEF Types
<1>8. s.place = "collecting"
  BY DEF Collect, At
<1>9. s.fail + bad = s.fail + Among(r, "failed") +
        IF s.shut = "stalled" THEN Among(r, "stopped") ELSE 0
  BY <1>1, <1>3 DEF RunRecord
<1>. HIDE DEF rec, ok, bad
<1>. QED
  BY <1>6, <1>7, <1>8, <1>9 DEF ok


LEMMA LaunchEffect ==
  ASSUME Types, NEW r \in Runs, NEW c, Launched(r, c)
  PROVE  /\ run' \in [Runs -> RunRecord]
         /\ \A q \in Runs : q # r => run'[q] = run[q]
         /\ run[r].place = "none"
         /\ run'[r].submitted = run[r].submitted
         /\ run'[r].futures = run[r].futures /\ run'[r].shut = run[r].shut
         /\ run'[r].done = run[r].done /\ run'[r].success = run[r].success
         /\ run'[r].fail = run[r].fail
         /\ enabled' = TRUE /\ stopEvent' = r
         /\ \/ /\ run'[r].place \in {"head", "repairing"} /\ runner' = r
               /\ saved' = TRUE /\ stranded' = FALSE /\ UNCHANGED faults
               /\ active' = IF run'[r].place = "head" THEN r ELSE active
            \/ /\ run'[r].place = "dead" /\ runner' = runner
               /\ saved' \in {saved, FALSE} /\ stranded' = TRUE
               /\ active' = active /\ faults' = faults + 1
               /\ faults < MaxFaults
<1> DEFINE s == run[r]
           place == IF c = Repair THEN "repairing" ELSE "head"
           alive == [s EXCEPT !.place = place, !.auto = (c = Refill)]
           dead == [s EXCEPT !.place = "dead"]
<1>1. s \in RunRecord
  BY DEF Types
<1>2. /\ alive \in RunRecord /\ alive.place = place
      /\ alive.submitted = s.submitted /\ alive.futures = s.futures
      /\ alive.shut = s.shut /\ alive.done = s.done
      /\ alive.success = s.success /\ alive.fail = s.fail
  <2>1. place \in Places /\ (c = Refill) \in BOOLEAN
    BY DEF Places, Loop
  <2>. HIDE DEF place
  <2>. QED
    BY <1>1, <2>1 DEF RunRecord
<1>3. /\ dead \in RunRecord /\ dead.place = "dead"
      /\ dead.submitted = s.submitted /\ dead.futures = s.futures
      /\ dead.shut = s.shut /\ dead.done = s.done
      /\ dead.success = s.success /\ dead.fail = s.fail
  <2>1. "dead" \in Places
    BY DEF Places, Loop
  <2>. QED
    BY <1>1, <2>1 DEF RunRecord
<1>4. /\ s.place = "none" /\ enabled' = TRUE /\ stopEvent' = r
      /\ \/ /\ saved' = TRUE /\ runner' = r /\ stranded' = FALSE
            /\ run' = [run EXCEPT ![r] = alive] /\ UNCHANGED faults
            /\ active' = IF place = "head" THEN r ELSE active
         \/ /\ saved' \in {saved, FALSE} /\ stranded' = TRUE
            /\ run' = [run EXCEPT ![r] = dead]
            /\ UNCHANGED <<runner, active>>
            /\ faults' = faults + 1 /\ faults < MaxFaults
  BY DEF Launched, Unsaved, Fault, Types
<1>5. place \in {"head", "repairing"}
  OBVIOUS
<1>. HIDE DEF alive, dead, place
<1>6. CASE run' = [run EXCEPT ![r] = alive]
  <2>1. run' \in [Runs -> RunRecord] /\ run'[r] = alive
        /\ \A q \in Runs : q # r => run'[q] = run[q]
    BY <1>2, <1>6, RunUpdate DEF Types
  <2>2. run'[r].place # "dead"
    BY <1>2, <1>5, <2>1
  <2>3. run' = [run EXCEPT ![r] = dead] => run'[r] = dead
    BY DEF Types
  <2>. QED
    BY <1>2, <1>3, <1>4, <1>5, <2>1, <2>2, <2>3
<1>7. CASE run' = [run EXCEPT ![r] = dead]
  <2>1. run' \in [Runs -> RunRecord] /\ run'[r] = dead
        /\ \A q \in Runs : q # r => run'[q] = run[q]
    BY <1>3, <1>7, RunUpdate DEF Types
  <2>2. run' = [run EXCEPT ![r] = alive] => run'[r] = alive
    BY DEF Types
  <2>. QED
    BY <1>2, <1>3, <1>4, <1>5, <2>1, <2>2
<1>. QED
  BY <1>4, <1>6, <1>7

(* A worker's step concerns that worker alone.                             *)
LEMMA WorkerEffect ==
  ASSUME Types, NEW w \in Workers, Worker(w)
  PROVE  /\ UNCHANGED others
         /\ work[w] \in {"queued"} \cup Busy
         /\ \E s \in Busy \cup (Over \ {"canceled"}) :
              /\ work' = [work EXCEPT ![w] = s]
              /\ s \in {"dropping", "stopped"}
                   => Stopped(w) \/ Invalid(w) \/ work[w] = "dropping"
         /\ \E a \in {"none", "raw", "usable"} : acct' = [acct EXCEPT ![w] = a]
         /\ excused' \in {excused, excused \cup {w}}
         /\ faults' = faults \/ Fault
<1>0. acct = [acct EXCEPT ![w] = acct[w]]
      /\ acct[w] \in {"none", "raw", "usable"}
  BY DEF Types
<1>1. CASE Accept(w) \/ GetProxy(w) \/ SignUp(w)
  BY <1>0, <1>1 DEF Accept, GetProxy, SignUp, Is, Becomes, Busy, Over
<1>2. CASE Save(w)
  BY <1>0, <1>2 DEF Save, Is, Becomes, Busy, Over, Kept
<1>3. CASE Check(w)
  BY <1>0, <1>3 DEF Check, Is, Becomes, Busy, Over, Kept
<1>4. CASE Refresh(w)
  BY <1>0, <1>4 DEF Refresh, Is, Becomes, Busy, Over
<1>5. CASE Verify(w)
  BY <1>0, <1>5 DEF Verify, Is, Becomes, Busy, Over, Kept
<1>6. CASE Delete(w)
  BY <1>0, <1>6 DEF Delete, Is, Becomes, Busy, Over, Kept
<1>. QED
  BY <1>1, <1>2, <1>3, <1>4, <1>5, <1>6 DEF Worker

(* A kill ends every run and every worker at work.                         *)
LEMMA KillEffect ==
  ASSUME Types, Kill
  PROVE  /\ run' \in [Runs -> RunRecord]
         /\ \A r \in Runs :
              /\ run'[r].place = IF run[r].place = "none" THEN "none"
                                 ELSE "dead"
              /\ run'[r].submitted = run[r].submitted
              /\ run'[r].futures = run[r].futures
              /\ run'[r].shut = run[r].shut /\ run'[r].done = run[r].done
              /\ run'[r].success = run[r].success
              /\ run'[r].fail = run[r].fail
<1>1. ASSUME NEW r \in Runs
      PROVE LET d == [run[r] EXCEPT !.place = "dead"] IN
            /\ d \in RunRecord /\ d.place = "dead"
            /\ d.submitted = run[r].submitted /\ d.futures = run[r].futures
            /\ d.shut = run[r].shut /\ d.done = run[r].done
            /\ d.success = run[r].success /\ d.fail = run[r].fail
  <2>1. "dead" \in Places /\ run[r] \in RunRecord
    BY DEF Places, Loop, Types
  <2>. QED
    BY <2>1 DEF RunRecord
<1>2. run' = [r \in Runs |-> IF run[r].place = "none" THEN run[r]
                             ELSE [run[r] EXCEPT !.place = "dead"]]
  BY DEF Kill
<1>3. \A r \in Runs : run[r] \in RunRecord
  BY DEF Types
<1>. QED
  BY <1>1, <1>2, <1>3

-----------------------------------------------------------------------------
LEMMA TypesStep == Types /\ [Next]_vars => Types'
<1> SUFFICES ASSUME Types, [Next]_vars PROVE Types'
  OBVIOUS
<1>a. MaxFaults \in Nat /\ MaxStops \in Nat
  BY RegisterAssumption
<1>b. /\ faults \in 0 .. MaxFaults /\ stops \in 0 .. MaxStops
      /\ saved \in BOOLEAN
  BY DEF Types
<1>c. faults < MaxFaults /\ faults' = faults + 1 => faults' \in 0 .. MaxFaults
  BY <1>a, <1>b
<1>0. /\ run \in [Runs -> RunRecord] /\ faults \in 0 .. MaxFaults
      /\ stopEvent \in {NoRun} \cup Runs /\ stop \subseteq Runs
      /\ Fault => faults' \in 0 .. MaxFaults
      /\ Unsaved => faults' \in 0 .. MaxFaults /\ saved' \in BOOLEAN
  BY <1>b, <1>c DEF Types, Fault, Unsaved
<1>1. CASE UNCHANGED vars
  BY <1>1 DEF vars, Types
<1>2. ASSUME NEW c \in Callers, Call(c) PROVE Types'
  <2>0. ASSUME NEW s \in {"idle", "starting", "measuring"},
               caller' = [caller EXCEPT ![c] = s]
        PROVE caller' \in [Callers -> {"idle", "starting", "measuring"}]
    BY <2>0 DEF Types
  <2>1. CASE JoinRun(c)
    <3>1. /\ enabled' \in BOOLEAN /\ saved' \in BOOLEAN
          /\ stranded' \in BOOLEAN /\ faults' \in 0 .. MaxFaults
      BY <1>0, <2>1 DEF JoinRun, Types
    <3>. QED
      BY <2>0, <2>1, <3>1 DEF JoinRun, Types
  <2>2. CASE Look(c) \/ LookAgain(c)
    BY <2>0, <2>2 DEF Look, LookAgain, switch, history, Types
  <2>3. CASE FirstCheck(c) /\ ~JoinRun(c)
    BY <2>0, <2>3 DEF FirstCheck, switch, history, Types
  <2>4. CASE MetricsFail(c)
    BY <1>0, <2>0, <2>4 DEF MetricsFail, switch, history, Types
  <2>5. CASE Begin(c)
    <3>1. PICK r \in Runs : Launched(r, c)
      BY <2>5 DEF Begin
    <3>2. /\ run' \in [Runs -> RunRecord] /\ enabled' \in BOOLEAN
          /\ saved' \in BOOLEAN /\ stranded' \in BOOLEAN
          /\ faults' \in 0 .. MaxFaults /\ stopEvent' \in {NoRun} \cup Runs
          /\ runner' \in {NoRun} \cup Runs /\ active' \in {NoRun} \cup Runs
      BY <1>b, <1>c, <3>1, LaunchEffect DEF Types
    <3>. QED
      BY <2>0, <2>5, <3>2 DEF Begin, Types
  <2>. QED
    BY <1>2, <2>1, <2>2, <2>3, <2>4, <2>5 DEF Call, FirstCheck, Launch
<1>3. ASSUME NEW r \in Runs, Thread(r) PROVE Types'
  <2>0. ASSUME NEW p \in Places, Goto(r, p) PROVE run' \in [Runs -> RunRecord]
    BY <1>0, <2>0, GotoEffect
  <2>1. active \in {NoRun} \cup Runs
    BY DEF Types
  <2>2. CASE Head(r)
    <3>1. ASSUME NEW why \in {"stopped", "stalled"}, ShutDown(r, why)
          PROVE Types'
      BY <1>0, <2>1, <2>2, <3>1, ShutDownEffect
         DEF Head, switch, history, Types
    <3>2. ASSUME NEW p \in Places, Goto(r, p), UNCHANGED <<active, stop, work>>
          PROVE Types'
      BY <2>0, <2>2, <3>2 DEF Head, switch, history, Types
    <3>3. {"ending", "filling"} \subseteq Places
      BY DEF Places, Loop
    <3>. QED
      BY <2>2, <3>1, <3>2, <3>3 DEF Head
  <2>3. CASE Fill(r)
    <3>1. "asking" \in Places /\ "collecting" \in Places
      BY DEF Places, Loop
    <3>. QED
      BY <2>0, <2>3, <3>1 DEF Fill, history, Types
  <2>4. CASE Submit(r)
    <3>1. /\ run' \in [Runs -> RunRecord]
          /\ work' \in [Workers -> {"none", "queued"} \cup Busy \cup Over]
      BY <2>4, SubmitEffect DEF Types
    <3>. QED
      BY <2>4, <3>1 DEF Submit, switch, history, Types
  <2>5. CASE Enough(r)
    <3>1. "collecting" \in Places
      BY DEF Places, Loop
    <3>. QED
      BY <2>0, <2>5, <3>1 DEF Enough, history, Types
  <2>6. CASE Break(r)
    <3>1. "broken" \in Places
      BY DEF Places, Loop
    <3>2. work' \in [Workers -> {"none", "queued"} \cup Busy \cup Over]
      BY <2>6 DEF Break, Types, Over
    <3>. QED
      BY <1>0, <2>0, <2>6, <3>1, <3>2 DEF Break, history, Types
  <2>7. CASE Collect(r)
    <3>1. run' \in [Runs -> RunRecord]
      <4>1. CASE run[r].futures = {}
        <5>1. PICK p \in Places : Goto(r, p)
          BY <2>7, <4>1 DEF Collect, Goto, Places, Loop
        <5>. QED
          BY <2>0, <5>1
      <4>. QED
        BY <2>7, <4>1, CollectEffect
    <3>. QED
      BY <2>7, <3>1 DEF Collect, switch, history, Types
  <2>8. CASE End(r)
    <3>1. {"closing", "dead"} \subseteq Places
      BY DEF Places, Loop
    <3>2. run' \in [Runs -> RunRecord]
      BY <2>0, <2>8, <3>1 DEF End
    <3>3. active' \in {NoRun} \cup Runs /\ stranded' \in BOOLEAN
      BY <2>1, <2>8 DEF End, Types
    <3>. QED
      BY <2>8, <3>2, <3>3 DEF End, switch, Types
  <2>9. CASE Close(r)
    <3>1. {"leaving", "dead"} \subseteq Places
      BY DEF Places, Loop
    <3>2. run' \in [Runs -> RunRecord]
      BY <2>0, <2>9, <3>1 DEF Close
    <3>3. /\ enabled' \in BOOLEAN /\ stranded' \in BOOLEAN
          /\ stopEvent' \in {NoRun} \cup Runs
          /\ saved' \in BOOLEAN /\ faults' \in 0 .. MaxFaults
      BY <1>0, <2>9 DEF Close, Types
    <3>. QED
      BY <2>9, <3>2, <3>3 DEF Close, Types
  <2>10. CASE Leave(r) \/ RepairEnds(r)
    <3>1. "closing" \in Places /\ "dead" \in Places
      BY DEF Places, Loop
    <3>2. run' \in [Runs -> RunRecord]
      BY <2>0, <2>10, <3>1 DEF Leave, RepairEnds
    <3>. QED
      BY <2>10, <3>2 DEF Leave, RepairEnds, switch, history, Types
  <2>11. CASE RepairOne(r)
    <3>1. /\ acct' \in [Workers -> {"none", "raw", "usable"}]
          /\ faults' \in 0 .. MaxFaults
      BY <1>0, <2>11 DEF RepairOne, Types
    <3>. QED
      BY <2>11, <3>1 DEF RepairOne, switch, history, Types
  <2>. QED
    BY <1>3, <2>2, <2>3, <2>4, <2>5, <2>6, <2>7, <2>8, <2>9, <2>10, <2>11
       DEF Thread
<1>4. ASSUME NEW w \in Workers, Worker(w) PROVE Types'
  <2>1. /\ work' \in [Workers -> {"none", "queued"} \cup Busy \cup Over]
        /\ acct' \in [Workers -> {"none", "raw", "usable"}]
        /\ excused' \subseteq Workers /\ faults' \in 0 .. MaxFaults
    BY <1>0, <1>4, WorkerEffect DEF Types
  <2>2. UNCHANGED others
    BY <1>4, WorkerEffect
  <2>. QED
    BY <2>1, <2>2 DEF others, switch, Types
<1>5. CASE Stop
  <2>1. saved' \in BOOLEAN /\ faults' \in 0 .. MaxFaults
    BY <1>b, <1>0, <1>5 DEF Stop
  <2>2. stop' \subseteq Runs
    BY <1>0, <1>5 DEF Stop
  <2>3. stops' \in 0 .. MaxStops
    BY <1>a, <1>b, <1>5 DEF Stop
  <2>. QED
    BY <1>5, <2>1, <2>2, <2>3 DEF Stop, Types
<1>6. CASE Kill
  <2>1. run' \in [Runs -> RunRecord]
    BY <1>6, KillEffect
  <2>2. /\ work' \in [Workers -> {"none", "queued"} \cup Busy \cup Over]
        /\ excused' \subseteq Workers
        /\ caller' \in [Callers -> {"idle", "starting", "measuring"}]
    BY <1>6 DEF Kill, Types, Over
  <2>. QED
    BY <1>0, <1>6, <2>1, <2>2 DEF Kill, Types
<1>7. CASE Restart
  <2>1. CASE \E r \in Runs : Launched(r, Manual)
    <3>1. PICK r \in Runs : Launched(r, Manual)
      BY <2>1
    <3>2. /\ run' \in [Runs -> RunRecord] /\ enabled' \in BOOLEAN
          /\ saved' \in BOOLEAN /\ stranded' \in BOOLEAN
          /\ stopEvent' \in {NoRun} \cup Runs
          /\ runner' \in {NoRun} \cup Runs /\ active' \in {NoRun} \cup Runs
          /\ faults' \in 0 .. MaxFaults
      BY <1>b, <1>c, <3>1, LaunchEffect DEF Types
    <3>. QED
      BY <1>7, <3>2 DEF Restart, Types
  <2>2. CASE ~\E r \in Runs : Launched(r, Manual)
    BY <1>0, <1>7, <2>2 DEF Restart, Types
  <2>. QED
    BY <2>1, <2>2
<1>. QED
  BY <1>1, <1>2, <1>3, <1>4, <1>5, <1>6, <1>7 DEF Next

-----------------------------------------------------------------------------
(* The counters of a run hold as long as the run and the workers they      *)
(* count stay as they are.                                                 *)
LEMMA CountsKept ==
  ASSUME NEW r \in Runs, CountsOf(r),
         run'[r].submitted = run[r].submitted,
         run'[r].futures = run[r].futures, run'[r].shut = run[r].shut,
         run'[r].done = run[r].done, run'[r].success = run[r].success,
         run'[r].fail = run[r].fail,
         \A i \in Taken(r) : work'[<<r, i>>] = work[<<r, i>>]
  PROVE  CountsOf(r)'
<1>1. Taken(r)' = Taken(r) /\ Failing(r)' = Failing(r)
  BY DEF Taken, Failing
<1>2. ASSUME NEW results
      PROVE {i \in Taken(r) : work'[<<r, i>>] \in results}
              = {i \in Taken(r) : work[<<r, i>>] \in results}
  OBVIOUS
<1>3. /\ TakenAs(r, {"ok"})' = TakenAs(r, {"ok"})
      /\ TakenAs(r, Failing(r))' = TakenAs(r, Failing(r))
  BY <1>1, <1>2 DEF TakenAs
<1>. QED
  BY <1>1, <1>3 DEF CountsOf

LEMMA CountUpTo == ASSUME NEW n \in Nat
                   PROVE IsFiniteSet(1 .. n) /\ Cardinality(1 .. n) = n
<1>1. /\ IsFiniteSet(1 .. n)
      /\ Cardinality(1 .. n) = IF 1 > n THEN 0 ELSE n - 1 + 1
  BY FS_Interval
<1>2. (IF 1 > n THEN 0 ELSE n - 1 + 1) = n
  OBVIOUS
<1>. QED
  BY <1>1, <1>2

LEMMA TakenType ==
  ASSUME NEW r \in Runs, run[r] \in RunRecord
  PROVE  /\ IsFiniteSet(Taken(r)) /\ Taken(r) \subseteq 1 .. MaxWorkers
         /\ Cardinality(Taken(r)) \in Nat
         /\ \A results : /\ IsFiniteSet(TakenAs(r, results))
                         /\ Cardinality(TakenAs(r, results)) \in Nat
<1>1. run[r].submitted \in 0 .. MaxWorkers /\ MaxWorkers \in Nat
  BY RegisterAssumption DEF RunRecord
<1>2. Taken(r) \subseteq 1 .. MaxWorkers
  BY <1>1 DEF Taken
<1>3. IsFiniteSet(1 .. MaxWorkers)
  BY <1>1, FS_Interval
<1>4. IsFiniteSet(Taken(r)) /\ Cardinality(Taken(r)) \in Nat
  BY <1>2, <1>3, FS_Subset, FS_CardinalityType
<1>5. ASSUME NEW results PROVE /\ IsFiniteSet(TakenAs(r, results))
                               /\ Cardinality(TakenAs(r, results)) \in Nat
  <2>1. TakenAs(r, results) \subseteq Taken(r)
    BY DEF TakenAs
  <2>. QED
    BY <1>4, <2>1, FS_Subset, FS_CardinalityType
<1>. QED
  BY <1>2, <1>4, <1>5

(* Taking finished workers out of the futures, or canceled ones, adds them *)
(* to those that are counted.                                              *)
LEMMA DisjointCount ==
  ASSUME NEW A, NEW B, IsFiniteSet(A), IsFiniteSet(B), A \cap B = {}
  PROVE  /\ IsFiniteSet(A \cup B)
         /\ Cardinality(A \cup B) = Cardinality(A) + Cardinality(B)
<1>1. Cardinality(A) \in Nat /\ Cardinality(B) \in Nat
  BY FS_CardinalityType
<1>2. /\ IsFiniteSet(A \cup B)
      /\ Cardinality(A \cup B) =
           Cardinality(A) + Cardinality(B) - Cardinality(A \cap B)
  BY FS_Union, Zenon
<1>3. Cardinality(A \cap B) = 0
  BY FS_EmptySet
<1>. QED
  BY <1>1, <1>2, <1>3

LEMMA ShutDownCounts ==
  ASSUME Types, Phase, NEW r \in Runs, CountsOf(r),
         run[r].place = "head",
         NEW why \in {"stopped", "stalled"}, ShutDown(r, why),
         run[r].shut = "no", why = "stalled" => r \notin stop
  PROVE  CountsOf(r)'
<1> DEFINE Q == Of(r, {"queued"})
           all == {"failed", "stopped", "canceled"}
           fails == IF why = "stalled" THEN all ELSE {"failed"}
<1>0. run[r] \in RunRecord /\ Q \subseteq run[r].futures
  BY QueuedType DEF Types
<1>1. IsFiniteSet(Q) /\ IsFiniteSet(Taken(r))
  BY <1>0, QueuedType, TakenType
<1>2. /\ Taken(r)' = Taken(r) \cup Q /\ Taken(r) \cap Q = {}
      /\ run'[r].futures \subseteq 1 .. run'[r].submitted
  BY <1>0, ShutDownEffect DEF CountsOf, Taken
<1>2a. \A i \in Taken(r) \cup Q : <<r, i>> \in Workers
  <2>1. Taken(r) \subseteq 1 .. MaxWorkers /\ Q \subseteq 1 .. MaxWorkers
    BY <1>0, TakenType DEF RunRecord
  <2>. QED
    BY <2>1 DEF Workers
<1>3. /\ \A i \in Q : work'[<<r, i>>] = "canceled"
      /\ \A i \in Taken(r) : work'[<<r, i>>] = work[<<r, i>>]
  <2>1. \A i \in Q : work[<<r, i>>] = "queued"
    BY DEF Of
  <2>2. \A i \in Taken(r) : work[<<r, i>>] # "queued"
    BY DEF CountsOf, Over
  <2>3. \A w \in Workers :
          \/ w[1] = r /\ work[w] = "queued" /\ work'[w] = "canceled"
          \/ ~(w[1] = r /\ work[w] = "queued") /\ work'[w] = work[w]
    BY ShutDownEffect
  <2>4. ASSUME NEW i \in Q PROVE work'[<<r, i>>] = "canceled"
    BY <1>2a, <2>1, <2>3
  <2>5. ASSUME NEW i \in Taken(r) PROVE work'[<<r, i>>] = work[<<r, i>>]
    BY <1>2a, <2>2, <2>3
  <2>. QED
    BY <2>4, <2>5
<1>4. \A i \in Taken(r)' : work'[<<r, i>>] \in Over
  BY <1>2, <1>3 DEF CountsOf, Over
<1>5. run'[r].done = Cardinality(Taken(r)')
  <2>1. Cardinality(Taken(r) \cup Q) = Cardinality(Taken(r)) + Cardinality(Q)
    BY <1>1, <1>2, DisjointCount
  <2>2. run'[r].done = run[r].done + Cardinality(Q)
    BY ShutDownEffect
  <2>. QED
    BY <1>2, <2>1, <2>2 DEF CountsOf
<1>6. run'[r].success = Cardinality(TakenAs(r, {"ok"})')
  <2>1. TakenAs(r, {"ok"})' = TakenAs(r, {"ok"})
    BY <1>2, <1>3 DEF TakenAs
  <2>. QED
    BY <2>1, ShutDownEffect DEF CountsOf
<1>7. run[r].fail = Cardinality(TakenAs(r, {"failed"}))
  BY DEF CountsOf, Failing
<1>8. Failing(r)' = fails
  BY ShutDownEffect DEF Failing
<1>9. run'[r].fail = Cardinality({i \in Taken(r)' : work'[<<r, i>>] \in fails})
  <2>1. CASE why = "stopped"
    <3>1. {i \in Taken(r)' : work'[<<r, i>>] \in fails} = TakenAs(r, {"failed"})
      BY <1>2, <1>3, <2>1 DEF TakenAs
    <3>2. run'[r].fail = run[r].fail + 0
      BY <2>1, ShutDownEffect
    <3>. QED
      <4>1. run[r].fail \in Nat
        BY <1>0 DEF RunRecord
      <4>2. run'[r].fail = run[r].fail
        BY <3>2, <4>1
      <4>. QED
        BY <1>7, <3>1, <4>2, Zenon
  <2>2. CASE why = "stalled"
    <3>1. \A i \in Taken(r) : work[<<r, i>>] \notin {"stopped", "canceled"}
      <4>1. ASSUME NEW w \in Workers, w[1] = r
            PROVE work[w] \notin {"stopped", "canceled"}
        BY <2>2, <4>1 DEF Phase, Loop
      <4>. QED
        BY <1>2a, <4>1
    <3>2. {i \in Taken(r)' : work'[<<r, i>>] \in fails}
            = TakenAs(r, {"failed"}) \cup Q
      BY <1>2, <1>3, <2>2, <3>1 DEF TakenAs
    <3>3. TakenAs(r, {"failed"}) \cap Q = {}
      BY <1>2 DEF TakenAs
    <3>4. IsFiniteSet(TakenAs(r, {"failed"}))
      BY <1>0, TakenType
    <3>5. run'[r].fail = run[r].fail + Cardinality(Q)
      BY <2>2, ShutDownEffect
    <3>. QED
      BY <1>1, <1>7, <3>2, <3>3, <3>4, <3>5, DisjointCount
  <2>. QED
    BY <2>1, <2>2
<1>. QED
  BY <1>2, <1>4, <1>5, <1>6, <1>8, <1>9 DEF CountsOf, TakenAs

LEMMA CollectCounts ==
  ASSUME Types, Phase, NEW r \in Runs, CountsOf(r), Collect(r),
         run[r].futures # {}, work' = work
  PROVE  CountsOf(r)'
<1> DEFINE F == Of(r, Over)
           Fin(results) == {i \in F : work[<<r, i>>] \in results}
<1>0. run[r] \in RunRecord /\ F \subseteq run[r].futures
  BY QueuedType DEF Types
<1>1. /\ IsFiniteSet(F) /\ IsFiniteSet(Taken(r))
      /\ \A result : IsFiniteSet({i \in F : work[<<r, i>>] = result})
      /\ \A result : Among(r, result) \in Nat
  <2>1. IsFiniteSet(F) /\ IsFiniteSet(Taken(r))
    BY <1>0, QueuedType, TakenType
  <2>2. ASSUME NEW result
        PROVE /\ IsFiniteSet({i \in F : work[<<r, i>>] = result})
              /\ Among(r, result) \in Nat
    <3>1. {i \in F : work[<<r, i>>] = result} \in SUBSET F
      OBVIOUS
    <3>. QED
      BY <2>1, <3>1, FS_Subset, FS_CardinalityType DEF Among
  <2>. QED
    BY <2>1, <2>2
<1>2. /\ Taken(r)' = Taken(r) \cup F /\ Taken(r) \cap F = {}
      /\ run'[r].futures \subseteq 1 .. run'[r].submitted
  BY <1>0, CollectEffect DEF CountsOf, Taken
<1>3. \A i \in Taken(r)' : work[<<r, i>>] \in Over
  BY <1>2 DEF CountsOf, Of
<1>4. run'[r].done = Cardinality(Taken(r)')
  <2>1. Cardinality(Taken(r) \cup F) = Cardinality(Taken(r)) + Cardinality(F)
    BY <1>1, <1>2, DisjointCount
  <2>2. run'[r].done = run[r].done + Cardinality(F)
    BY CollectEffect
  <2>. QED
    BY <1>2, <2>1, <2>2 DEF CountsOf
<1>5. ASSUME NEW results
      PROVE TakenAs(r, results)' = TakenAs(r, results) \cup Fin(results)
            /\ TakenAs(r, results) \cap Fin(results) = {}
            /\ IsFiniteSet(TakenAs(r, results))
  BY <1>0, <1>2, TakenType DEF TakenAs
<1>6. run'[r].success = Cardinality(TakenAs(r, {"ok"})')
  <2>1. Fin({"ok"}) = {i \in F : work[<<r, i>>] = "ok"}
    OBVIOUS
  <2>2. IsFiniteSet(Fin({"ok"})) /\ Cardinality(Fin({"ok"})) = Among(r, "ok")
    BY <1>1, <2>1 DEF Among
  <2>3. Cardinality(TakenAs(r, {"ok"}) \cup Fin({"ok"}))
          = Cardinality(TakenAs(r, {"ok"})) + Cardinality(Fin({"ok"}))
    BY <1>5, <2>2, DisjointCount
  <2>4. run'[r].success = run[r].success + Among(r, "ok")
    BY CollectEffect
  <2>5. run[r].success = Cardinality(TakenAs(r, {"ok"}))
    BY DEF CountsOf
  <2>6. TakenAs(r, {"ok"})' = TakenAs(r, {"ok"}) \cup Fin({"ok"})
    BY <1>5
  <2>. QED
    BY <2>2, <2>3, <2>4, <2>5, <2>6
<1>7. Cardinality(Fin({"failed"})) = Among(r, "failed")
      /\ IsFiniteSet(Fin({"failed"}))
  <2>1. Fin({"failed"}) = {i \in F : work[<<r, i>>] = "failed"}
    OBVIOUS
  <2>. QED
    BY <1>1, <2>1 DEF Among
<1>8. run'[r].fail = Cardinality(TakenAs(r, Failing(r))')
  <2>1. CASE run[r].shut # "stalled"
    <3>1. Failing(r)' = {"failed"} /\ Failing(r) = {"failed"}
      BY <2>1, CollectEffect DEF Failing
    <3>2. TakenAs(r, Failing(r))' =
            TakenAs(r, {"failed"}) \cup Fin({"failed"})
      BY <1>2, <3>1 DEF TakenAs
    <3>3. run'[r].fail = run[r].fail + Among(r, "failed")
      BY <1>0, <1>1, <2>1, CollectEffect DEF RunRecord
    <3>4. run[r].fail = Cardinality(TakenAs(r, {"failed"}))
      BY <3>1 DEF CountsOf
    <3>5. Cardinality(TakenAs(r, {"failed"}) \cup Fin({"failed"}))
            = Cardinality(TakenAs(r, {"failed"})) + Among(r, "failed")
      <4>1. /\ IsFiniteSet(TakenAs(r, {"failed"}))
            /\ TakenAs(r, {"failed"}) \cap Fin({"failed"}) = {}
        BY <1>5
      <4>. HIDE DEF Fin
      <4>. QED
        BY <1>7, <4>1, DisjointCount
    <3>. QED
      BY <3>2, <3>3, <3>4, <3>5
  <2>2. CASE run[r].shut = "stalled"
    <3> DEFINE all == {"failed", "stopped", "canceled"}
               stopped == {i \in F : work[<<r, i>>] = "stopped"}
    <3>1. Failing(r)' = all /\ Failing(r) = all
      BY <2>2, CollectEffect DEF Failing
    <3>2. \A i \in F : work[<<r, i>>] # "canceled"
      <4>1. run[r].place \in Loop
        BY CollectEffect DEF Loop
      <4>2. \A i \in F : <<r, i>> \in Workers
        BY <1>0 DEF Workers, RunRecord
      <4>. QED
        BY <1>0, <4>1, <4>2 DEF Phase
    <3>3. Fin(all) = Fin({"failed"}) \cup stopped
          /\ Fin({"failed"}) \cap stopped = {}
      BY <3>2
    <3>4. /\ IsFiniteSet(Fin(all))
          /\ Cardinality(Fin(all)) = Among(r, "failed") + Among(r, "stopped")
      <4>1. IsFiniteSet(stopped) /\ Cardinality(stopped) = Among(r, "stopped")
        BY <1>1 DEF Among
      <4>. HIDE DEF stopped, Fin
      <4>. QED
        BY <1>7, <3>3, <4>1, DisjointCount
    <3>5. TakenAs(r, Failing(r))' = TakenAs(r, all) \cup Fin(all)
      BY <1>2, <3>1 DEF TakenAs
    <3>6. run'[r].fail =
            run[r].fail + Among(r, "failed") + Among(r, "stopped")
      BY <2>2, CollectEffect
    <3>7. run[r].fail = Cardinality(TakenAs(r, all)) /\ run[r].fail \in Nat
      BY <1>0, <3>1 DEF CountsOf, RunRecord
    <3>8. Cardinality(TakenAs(r, all) \cup Fin(all))
            = Cardinality(TakenAs(r, all)) + Cardinality(Fin(all))
      BY ZenonT(60), <1>5, <3>4, DisjointCount
    <3>. QED
      BY <1>1, <3>4, <3>5, <3>6, <3>7, <3>8
  <2>. QED
    BY <2>1, <2>2
<1>. QED
  BY <1>2, <1>3, <1>4, <1>6, <1>8 DEF CountsOf

LEMMA SubmitCounts ==
  ASSUME Types, NEW r \in Runs, CountsOf(r), Submit(r) PROVE CountsOf(r)'
<1> DEFINE i == run[r].submitted + 1
<1>1. run[r].submitted \in Nat /\ run[r].futures \subseteq 1 .. run[r].submitted
  BY DEF Types, RunRecord, CountsOf
<1>2. Taken(r)' = Taken(r) /\ run'[r].futures \subseteq 1 .. run'[r].submitted
  <2>1. /\ run'[r].submitted = i
        /\ run'[r].futures = run[r].futures \cup {i}
    BY SubmitEffect
  <2>2. 1 .. i = (1 .. run[r].submitted) \cup {i}
        /\ i \notin 1 .. run[r].submitted
    BY <1>1
  <2>. HIDE DEF i
  <2>. QED
    BY <1>1, <2>1, <2>2 DEF Taken
<1>3. \A j \in Taken(r) : j # i
  BY <1>1 DEF Taken
<1>4. \A j \in Taken(r) : work'[<<r, j>>] = work[<<r, j>>]
  <2>1. work' = [work EXCEPT ![<<r, i>>] = "queued"]
    BY SubmitEffect
  <2>2. \A j \in Taken(r) : <<r, j>> \in Workers /\ <<r, j>> # <<r, i>>
    BY <1>3, TakenType DEF Types, Workers
  <2>. QED
    BY <2>1, <2>2 DEF Types
<1>5. Failing(r)' = Failing(r)
  BY SubmitEffect DEF Failing
<1>6. /\ TakenAs(r, {"ok"})' = TakenAs(r, {"ok"})
      /\ TakenAs(r, Failing(r))' = TakenAs(r, Failing(r))
  BY <1>2, <1>4, <1>5 DEF TakenAs
<1>. QED
  BY ZenonT(60), <1>2, <1>4, <1>6, SubmitEffect DEF CountsOf


LEMMA GotoFields ==
  ASSUME Types, NEW r \in Runs, NEW place \in Places, Goto(r, place)
  PROVE  /\ \A q \in Runs : q # r => run'[q] = run[q]
         /\ run'[r].place = place /\ run'[r].auto = run[r].auto
         /\ run'[r].submitted = run[r].submitted
         /\ run'[r].futures = run[r].futures /\ run'[r].shut = run[r].shut
         /\ run'[r].done = run[r].done /\ run'[r].success = run[r].success
         /\ run'[r].fail = run[r].fail
<1>1. run[r] \in RunRecord
  BY DEF Types
<1>2. LET n == [run[r] EXCEPT !.place = place] IN
      /\ n.place = place /\ n.auto = run[r].auto
      /\ n.submitted = run[r].submitted
      /\ n.futures = run[r].futures /\ n.shut = run[r].shut
      /\ n.done = run[r].done /\ n.success = run[r].success
      /\ n.fail = run[r].fail
  BY <1>1 DEF RunRecord
<1>3. /\ run'[r] = [run[r] EXCEPT !.place = place]
      /\ \A q \in Runs : q # r => run'[q] = run[q]
  BY GotoEffect DEF Types
<1>. QED
  BY <1>2, <1>3

(* What the threads have in common: a step concerns one living run.  It    *)
(* shuts down, submits, collects, or moves on, and then cancels what is    *)
(* queued if it breaks off.                                                *)
Moves(r, from, to) ==
  run[r].place \in from /\ \E p \in to \cap Places : Goto(r, p)

LEMMA ThreadEffect ==
  ASSUME Types, NEW r \in Runs, Thread(r)
  PROVE  /\ up /\ UNCHANGED <<config, up, runner, caller, stops>>
         /\ \/ /\ \E why \in {"stopped", "stalled"} :
                    ShutDown(r, why) /\ (why = "stalled" => r \notin stop)
               /\ run[r].place = "head" /\ (r \in stop => run[r].shut = "no")
               /\ UNCHANGED <<switch, acct, history>>
            \/ Submit(r)
            \/ /\ Collect(r) /\ run[r].futures # {}
               /\ UNCHANGED <<switch, stop, active, work, acct, history>>
            \/ Break(r)
            \/ Close(r)
            \/ RepairOne(r)
            \/ End(r) /\ AwaitWorkers(r)
            \/ /\ \/ Moves(r, Loop, Loop)
                  \/ Moves(r, Loop, {"ending"}) /\ run[r].futures = {}
                  \/ Moves(r, {"leaving"}, {"dead"})
                  \/ Moves(r, {"repairing"}, {"closing"})
               /\ UNCHANGED <<enabled, stop, active, work, acct, history>>
<1> USE DEF At, Moves, Loop, Places
<1>1. CASE Head(r)
  BY <1>1 DEF Head, switch, history
<1>2. CASE Fill(r) \/ Enough(r)
  BY <1>2 DEF Fill, Enough, history
<1>3. CASE Submit(r)
  BY <1>3 DEF Submit
<1>4. CASE Break(r)
  BY <1>4 DEF Break
<1>5. CASE Collect(r)
  <2>1. CASE run[r].futures # {}
    BY <1>5, <2>1 DEF Collect, switch, history
  <2>2. CASE run[r].futures = {}
    BY <1>5, <2>2 DEF Collect, switch, history, Goto
  <2>. QED
    BY <2>1, <2>2
<1>6. CASE End(r)
  BY <1>6 DEF End
<1>7. CASE Close(r)
  BY <1>7 DEF Close
<1>8. CASE Leave(r) \/ RepairEnds(r)
  BY <1>8 DEF Leave, RepairEnds, switch, history
<1>9. CASE RepairOne(r)
  BY <1>9 DEF RepairOne
<1>. QED
  BY <1>1, <1>2, <1>3, <1>4, <1>5, <1>6, <1>7, <1>8, <1>9 DEF Thread


LEMMA CallEffect ==
  ASSUME NEW c \in Callers, Call(c)
  PROVE  /\ UNCHANGED <<config, up, stop, work, acct, stops, excused>>
         /\ \/ JoinRun(c)
            \/ ~IsAlive(runner) /\ up /\ Begin(c)
            \/ UNCHANGED <<switch, runner, stopEvent, active, run, stranded>>
<1>1. CASE JoinRun(c)
  BY <1>1 DEF JoinRun
<1>2. CASE ~JoinRun(c)
  BY <1>2 DEF Call, Look, LookAgain, FirstCheck, MetricsFail, Launch, Begin,
     switch, history
<1>. QED
  BY <1>1, <1>2

(* The steps that leave runs, workers and the active run id alone.         *)
Aside ==
  /\ UNCHANGED <<run, runner, active, work>>
  /\ stop \subseteq stop' /\ (up => up')

(* Every step is one of these.                                             *)
LEMMA Cases ==
  ASSUME Types, Alone, [Next]_vars
  PROVE  \/ Aside
         \/ /\ \E r \in Runs : \E c : Launched(r, c)
            /\ UNCHANGED <<stop, work>> /\ up'
            /\ \A r \in Runs : ~IsAlive(r)
         \/ \E r \in Runs : Thread(r)
         \/ \E w \in Workers : Worker(w)
         \/ Kill
<1>1. CASE UNCHANGED vars
  BY <1>1 DEF vars, Aside
<1>2. ASSUME NEW c \in Callers, Call(c)
      PROVE \/ Aside
            \/ /\ \E r \in Runs : \E d : Launched(r, d)
               /\ UNCHANGED <<stop, work>> /\ up'
               /\ \A r \in Runs : ~IsAlive(r)
  <2>1. CASE JoinRun(c)
    BY <2>1 DEF JoinRun, Aside
  <2>2. CASE ~IsAlive(runner) /\ up /\ Begin(c)
    <3>1. \A r \in Runs : ~IsAlive(r)
      BY <2>2 DEF Alone
    <3>. QED
      BY <2>2, <3>1 DEF Begin
  <2>3. CASE UNCHANGED <<switch, runner, stopEvent, active, run, stranded>>
    BY <1>2, <2>3, CallEffect DEF Aside
  <2>. QED
    BY <1>2, <2>1, <2>2, <2>3, CallEffect
<1>3. CASE Stop
  BY <1>3 DEF Stop, Aside
<1>4. CASE Restart
  <2>1. ~up /\ up' /\ UNCHANGED <<stop, work>>
    BY <1>4 DEF Restart
  <2>2. \A r \in Runs : ~IsAlive(r)
    BY <2>1 DEF Alone
  <2>. QED
    BY <1>4, <2>1, <2>2 DEF Restart, Aside
<1>. QED
  BY <1>1, <1>2, <1>3, <1>4 DEF Next


LEMMA CountsStep ==
  ASSUME Types, Counts, Phase, Alone, [Next]_vars PROVE Counts'
<1> SUFFICES ASSUME NEW q \in Runs PROVE CountsOf(q)'
  BY DEF Counts
<1>0. CountsOf(q) /\ run[q] \in RunRecord
  BY DEF Counts, Types
<1>1. \A i \in Taken(q) : <<q, i>> \in Workers /\ work[<<q, i>>] \in Over
  BY <1>0, TakenType DEF CountsOf, Workers
<1>2. CASE Aside
  BY <1>0, <1>2, CountsKept DEF Aside
<1>3. ASSUME NEW r \in Runs, NEW c, Launched(r, c), work' = work
      PROVE CountsOf(q)'
  BY <1>0, <1>3, CountsKept, LaunchEffect
<1>4. ASSUME NEW w \in Workers, Worker(w) PROVE CountsOf(q)'
  <2>1. /\ run' = run /\ work[w] \notin Over
        /\ \E s : work' = [work EXCEPT ![w] = s]
    BY <1>4, WorkerEffect DEF others, Busy, Over
  <2>2. \A i \in Taken(q) : work'[<<q, i>>] = work[<<q, i>>]
    BY <1>1, <2>1 DEF Types
  <2>. QED
    BY <1>0, <2>1, <2>2, CountsKept
<1>5. CASE Kill
  <2>1. \A i \in Taken(q) : work'[<<q, i>>] = work[<<q, i>>]
    BY <1>1, <1>5 DEF Kill, Over, Busy
  <2>. QED
    BY <1>0, <1>5, <2>1, CountsKept, KillEffect
<1>6. ASSUME NEW r \in Runs, Thread(r) PROVE CountsOf(q)'
  <2>1. ASSUME NEW why \in {"stopped", "stalled"}, ShutDown(r, why),
               why = "stalled" => r \notin stop,
               run[r].place = "head", r \in stop => run[r].shut = "no"
        PROVE CountsOf(q)'
    <3>1. CASE q = r
      <4>1. run[r].shut = "no"
        BY <2>1 DEF Phase, Loop
      <4>. QED
        BY <1>0, <2>1, <3>1, <4>1, ShutDownCounts
    <3>2. CASE q # r
      <4>1. \A i \in Taken(q) : work'[<<q, i>>] = work[<<q, i>>]
        <5>1. \A w \in Workers :
                \/ w[1] = r /\ work[w] = "queued" /\ work'[w] = "canceled"
                \/ ~(w[1] = r /\ work[w] = "queued") /\ work'[w] = work[w]
          BY <2>1, ShutDownEffect
        <5>. QED
          BY <1>1, <3>2, <5>1
      <4>2. run'[q] = run[q]
        BY <2>1, <3>2, ShutDownEffect
      <4>. QED
        BY <1>0, <4>1, <4>2, CountsKept
    <3>. QED
      BY <3>1, <3>2
  <2>2. CASE Submit(r)
    <3>1. CASE q = r
      BY <1>0, <2>2, <3>1, SubmitCounts
    <3>2. CASE q # r
      <4>1. /\ work' = [work EXCEPT ![<<r, run[r].submitted + 1>>] = "queued"]
            /\ run'[q] = run[q]
        BY <2>2, <3>2, SubmitEffect
      <4>2. \A i \in Taken(q) : work'[<<q, i>>] = work[<<q, i>>]
        BY <1>1, <3>2, <4>1 DEF Types
      <4>. QED
        BY <1>0, <4>1, <4>2, CountsKept
    <3>. QED
      BY <3>1, <3>2
  <2>3. CASE Collect(r) /\ run[r].futures # {} /\ work' = work
    <3>1. CASE q = r
      BY <1>0, <2>3, <3>1, CollectCounts
    <3>2. CASE q # r
      BY <1>0, <2>3, <3>2, CollectEffect, CountsKept
    <3>. QED
      BY <3>1, <3>2
  <2>4. ASSUME NEW p \in Places, Goto(r, p),
               \A i \in Taken(q) : work'[<<q, i>>] = work[<<q, i>>]
        PROVE CountsOf(q)'
    <3>1. CASE q = r
      BY <1>0, <2>4, <3>1, GotoFields, CountsKept
    <3>2. CASE q # r
      BY <1>0, <2>4, <3>2, GotoFields, CountsKept
    <3>. QED
      BY <3>1, <3>2
  <2>5. CASE Break(r)
    <3>1. \A i \in Taken(q) : work'[<<q, i>>] = work[<<q, i>>]
      BY <1>1, <2>5 DEF Break, Over
    <3>2. "broken" \in Places
      BY DEF Places
    <3>. QED
      BY <2>4, <2>5, <3>1, <3>2 DEF Break
  <2>6. CASE Close(r) \/ End(r)
    <3>1. {"leaving", "dead", "closing"} \subseteq Places
      BY DEF Places
    <3>. QED
      BY <2>4, <2>6, <3>1 DEF Close, End
  <2>7. CASE RepairOne(r)
    BY <1>0, <2>7, CountsKept DEF RepairOne
  <2>8. ASSUME NEW from, NEW to, Moves(r, from, to), work' = work
        PROVE CountsOf(q)'
    BY <2>4, <2>8 DEF Moves
  <2>. QED
    BY <1>6, <2>1, <2>2, <2>3, <2>5, <2>6, <2>7, <2>8, ThreadEffect
<1>. QED
  BY <1>2, <1>3, <1>4, <1>5, <1>6, Cases

LEMMA AloneStep ==
  ASSUME Types, Alone, [Next]_vars PROVE Alone'
<1> USE DEF IsAlive
<1>0. /\ NoRun \notin Runs /\ runner \in {NoRun} \cup Runs
      /\ active \in {NoRun} \cup Runs
      /\ \A r \in Runs : IsAlive(r) => r = runner /\ up
      /\ active # NoRun => /\ active = runner
                           /\ run[active].place \in Working
  BY DEF NoRun, Runs, Types, Alone
<1>1. CASE Aside
  BY <1>0, <1>1 DEF Aside, Alone
<1>2. ASSUME NEW r \in Runs, NEW c, Launched(r, c), up',
             \A q \in Runs : ~IsAlive(q)
      PROVE Alone'
  <2>1. active = NoRun
    BY <1>0, <1>2 DEF Working, Loop
  <2>2. \A q \in Runs : q # r => ~IsAlive(q)'
    BY <1>2, LaunchEffect
  <2>3. CASE run'[r].place \in {"head", "repairing"}
    <3>1. runner' = r /\ active' = IF run'[r].place = "head" THEN r ELSE active
      BY <1>2, <2>3, LaunchEffect
    <3>. QED
      BY <1>0, <1>2, <2>1, <2>2, <2>3, <3>1 DEF Alone, Working, Loop
  <2>4. CASE run'[r].place = "dead"
    <3>1. active' = active
      BY <1>2, <2>4, LaunchEffect
    <3>. QED
      BY <1>0, <1>2, <2>1, <2>2, <2>4, <3>1 DEF Alone
  <2>. QED
    BY <1>2, <2>3, <2>4, LaunchEffect
<1>3. ASSUME NEW w \in Workers, Worker(w) PROVE Alone'
  BY <1>0, <1>3, WorkerEffect DEF others, Alone
<1>4. CASE Kill
  BY <1>4, KillEffect, <1>0 DEF Kill, Alone
<1>5. ASSUME NEW r \in Runs, Thread(r) PROVE Alone'
  <2>0. /\ up /\ up' = up /\ runner' = runner
    BY <1>5, ThreadEffect
  <2>1. ASSUME run[r].place \in Places \ {"none", "dead"},
               \A q \in Runs : q # r => run'[q] = run[q],
               \/ active' = NoRun
               \/ active' = active /\ (active = r => run'[r].place \in Working)
        PROVE Alone'
    <3>1. r = runner
      BY <1>0, <2>1, <1>0
    <3>2. \A q \in Runs : IsAlive(q)' => q = runner
      BY <1>0, <2>1, <3>1
    <3>. QED
      BY <1>0, <2>0, <2>1, <3>1, <3>2 DEF Alone
  <2>2. run[r].place \in Places
    BY DEF Types, RunRecord
  <2>3. ASSUME NEW why \in {"stopped", "stalled"}, ShutDown(r, why),
               run[r].place = "head"
        PROVE Alone'
    <3>1. /\ \A q \in Runs : q # r => run'[q] = run[q]
          /\ run'[r].place \in Working /\ active' \in {active, NoRun}
      BY <2>3, ShutDownEffect DEF Working, Loop
    <3>. QED
      BY <2>1, <2>2, <2>3, <3>1
  <2>4. CASE Submit(r)
    BY <2>1, <2>2, <2>4, SubmitEffect DEF Working, Loop, Submit
  <2>5. CASE Collect(r) /\ run[r].futures # {}
    BY <2>1, <2>2, <2>5, CollectEffect DEF Working, Loop, Collect
  <2>6. ASSUME NEW p \in Places, Goto(r, p),
               run[r].place \notin {"none", "dead"},
               \/ active' = NoRun
               \/ active' = active /\ (active = r => p \in Working)
        PROVE Alone'
    BY <2>1, <2>2, <2>6, GotoFields
  <2>7. CASE Break(r)
    BY <2>6, <2>7 DEF Break, At, Places, Working
  <2>8. CASE Close(r)
    <3>1. run[r].place = "closing" /\ active' = active
      BY <2>8 DEF Close, At
    <3>2. active # r
      BY <1>0, <3>1 DEF Working, Loop
    <3>3. {"leaving", "dead"} \subseteq Places
      BY DEF Places
    <3>. QED
      BY <2>6, <2>8, <3>1, <3>2, <3>3 DEF Close
  <2>9. CASE RepairOne(r)
    BY <1>0, <2>9 DEF RepairOne, Alone
  <2>10. CASE End(r)
    <3>1. {"closing", "dead"} \subseteq Places
      BY DEF Places
    <3>2. /\ run[r].place \in {"ending", "broken"}
          /\ active' = IF active = r THEN NoRun ELSE active
      BY <2>10 DEF End, At
    <3>3. active' = NoRun \/ (active' = active /\ active # r)
      BY <3>2
    <3>. QED
      BY <2>6, <2>10, <3>1, <3>2, <3>3 DEF End
  <2>11. ASSUME NEW from, NEW to, Moves(r, from, to), active' = active,
                \/ to \subseteq Working /\ from \subseteq Loop
                \/ from \subseteq {"leaving", "repairing"}
         PROVE Alone'
    <3>1. PICK p \in Places : Goto(r, p) /\ p \in to
      BY <2>11 DEF Moves
    <3>2. active = r => p \in Working
      BY <1>0, <2>11, <3>1 DEF Moves, Working, Loop
    <3>3. run[r].place \notin {"none", "dead"}
      BY <2>11 DEF Moves, Loop
    <3>. QED
      BY <2>6, <2>11, <3>1, <3>2, <3>3
  <2>. QED
    BY <1>5, <2>3, <2>4, <2>5, <2>7, <2>8, <2>9, <2>10, <2>11, ThreadEffect
       DEF Working
<1>. QED
  BY <1>1, <1>2, <1>3, <1>4, <1>5, Cases


(* What Phase says of one run and of one worker.                           *)
PhaseOf(r) ==
  /\ run[r].place \in {"none", "repairing"} => run[r].submitted = 0
  /\ run[r].place \in {"none", "repairing"} => run[r].shut = "no"
  /\ run[r].place \in {"ending", "closing", "leaving"} => run[r].futures = {}
  /\ run[r].place \in Loop /\ r \notin stop
       => run[r].shut = "no" /\ active = r

WorkOf(r, w) ==
  /\ w[2] > run[r].submitted => work[w] = "none"
  /\ work[w] = "queued" => run[r].place \in Loop
  /\ work[w] \in Busy => run[r].place \in Working
  /\ run[r].place \in Loop /\ r \notin stop
       => work[w] \notin {"dropping", "stopped", "canceled"}
  /\ run[r].place \in Loop /\ w[2] \in run[r].futures => work[w] # "canceled"

LEMMA PhaseParts ==
  Phase <=> /\ \A r \in Runs : PhaseOf(r)
            /\ \A r \in Runs : \A w \in Workers : w[1] = r => WorkOf(r, w)
<1>1. \A w \in Workers : w[1] \in Runs
  BY DEF Workers
<1>. QED
  BY <1>1 DEF Phase, PhaseOf, WorkOf

(* Queued and busy workers are those of the futures.                       *)
LEMMA QueuedInFutures ==
  ASSUME Types, Counts, Phase, NEW w \in Workers,
         work[w] \in {"queued"} \cup Busy
  PROVE  w[1] \in Runs /\ w[2] \in run[w[1]].futures
<1>1. /\ w[1] \in Runs /\ w[2] \in 1 .. MaxWorkers /\ w = <<w[1], w[2]>>
      /\ MaxWorkers \in Nat
  BY RegisterAssumption DEF Workers
<1>2. run[w[1]].submitted \in Nat
  BY <1>1 DEF Types, RunRecord
<1>3. w[2] <= run[w[1]].submitted
  BY <1>1, <1>2 DEF Phase, Busy
<1>4. w[2] \notin Taken(w[1])
  BY <1>1 DEF Counts, CountsOf, Over, Busy
<1>. QED
  BY <1>1, <1>2, <1>3, <1>4 DEF Taken

LEMMA PhaseStep ==
  ASSUME Types, Counts, Phase, Alone, [Next]_vars PROVE Phase'
<1> USE DEF PhaseOf, WorkOf
<1>0. /\ \A r \in Runs : PhaseOf(r)
      /\ \A r \in Runs : \A w \in Workers : w[1] = r => WorkOf(r, w)
      /\ \A w \in Workers : w[1] \in Runs
  BY PhaseParts DEF Workers
<1>1. SUFFICES /\ \A r \in Runs : PhaseOf(r)'
               /\ \A r \in Runs : \A w \in Workers :
                    w[1] = r => WorkOf(r, w)'
  BY <1>0 DEF Phase
<1>2. CASE Aside
  BY <1>0, <1>2 DEF Aside
<1>3. ASSUME NEW r \in Runs, NEW c, Launched(r, c), stop' = stop, work' = work,
             \A q \in Runs : ~IsAlive(q)
      PROVE /\ \A q \in Runs : PhaseOf(q)'
            /\ \A q \in Runs : \A w \in Workers : w[1] = q => WorkOf(q, w)'
  <2>1. ASSUME NEW q \in Runs, q # r
        PROVE /\ PhaseOf(q)'
              /\ \A w \in Workers : w[1] = q => WorkOf(q, w)'
    <3>1. run'[q] = run[q]
      BY <1>3, <2>1, LaunchEffect
    <3>2. q # NoRun
      BY DEF Runs, NoRun
    <3>3. run[q].place \in {"none", "dead"}
      BY <1>3, <3>2 DEF IsAlive
    <3>. QED
      BY <1>0, <1>3, <3>1, <3>3 DEF Loop
  <2>2. PhaseOf(r)'
    BY <1>0, <1>3, LaunchEffect DEF Loop
  <2>3. ASSUME NEW w \in Workers, w[1] = r PROVE WorkOf(r, w)'
    <3>0. run[r].place = "none"
      BY <1>3, LaunchEffect
    <3>1. run[r].submitted = 0 /\ w[2] > 0
      BY <1>0, <3>0, RegisterAssumption DEF Workers
    <3>2. work[w] = "none"
      BY <1>0, <2>3, <3>1
    <3>. QED
      BY <1>3, <3>2 DEF Busy
  <2>. QED
    BY <2>1, <2>2, <2>3
<1>4. ASSUME NEW v \in Workers, Worker(v)
      PROVE /\ \A q \in Runs : PhaseOf(q)'
            /\ \A q \in Runs : \A w \in Workers : w[1] = q => WorkOf(q, w)'
  <2>1. /\ UNCHANGED <<run, stop, active>> /\ work[v] \in {"queued"} \cup Busy
        /\ \E s \in Busy \cup (Over \ {"canceled"}) :
              /\ work' = [work EXCEPT ![v] = s]
              /\ s \in {"dropping", "stopped"}
                   => Stopped(v) \/ Invalid(v) \/ work[v] = "dropping"
    BY <1>4, WorkerEffect DEF others
  <2>2. ASSUME NEW w \in Workers, w # v
        PROVE WorkOf(w[1], w)'
    BY <1>0, <2>1, <2>2 DEF Types
  <2>3. WorkOf(v[1], v)'
    <3>1. PICK s \in Busy \cup (Over \ {"canceled"}) :
              /\ work' = [work EXCEPT ![v] = s]
              /\ s \in {"dropping", "stopped"}
                   => Stopped(v) \/ Invalid(v) \/ work[v] = "dropping"
      BY <2>1
    <3>2. work'[v] = s /\ s \notin {"none", "queued", "canceled"}
      BY <3>1 DEF Types, Busy, Over
    <3>3. run[v[1]].place \in Working /\ ~(v[2] > run[v[1]].submitted)
      BY <1>0, <2>1 DEF Working, Busy
    <3>4. run[v[1]].place \in Loop /\ v[1] \notin stop
            => s \notin {"dropping", "stopped"}
      BY <1>0, <3>1 DEF Stopped, Invalid
    <3>. QED
      BY <2>1, <3>2, <3>3, <3>4
  <2>. QED
    BY <1>0, <2>1, <2>2, <2>3
<1>5. CASE Kill
  <2>1. \A r \in Runs : PhaseOf(r)'
    BY <1>0, <1>5, KillEffect DEF Loop
  <2>2. ASSUME NEW w \in Workers PROVE WorkOf(w[1], w)'
    <3>1. work'[w] = IF work[w] \in Busy \cup {"queued"} THEN "canceled"
                     ELSE work[w]
      BY <1>5 DEF Kill
    <3>2. /\ run'[w[1]].place \in {"none", "dead"}
          /\ run'[w[1]].submitted = run[w[1]].submitted
      BY <1>0, <1>5, KillEffect
    <3>. QED
      BY <1>0, <3>1, <3>2 DEF Loop, Busy
  <2>. QED
    BY <2>1, <2>2
<1>6. ASSUME NEW r \in Runs, Thread(r)
      PROVE /\ \A q \in Runs : PhaseOf(q)'
            /\ \A q \in Runs : \A w \in Workers : w[1] = q => WorkOf(q, w)'
  <2> DEFINE Goal == /\ \A q \in Runs : PhaseOf(q)'
                     /\ \A q \in Runs : \A w \in Workers :
                          w[1] = q => WorkOf(q, w)'
  (* The other runs are not alive: their threads and workers rest.         *)
  <2>1. ASSUME run[r].place \notin {"none", "dead"},
               \A q \in Runs : q # r => run'[q] = run[q],
               \A w \in Workers : w[1] # r => work'[w] = work[w],
               stop \subseteq stop', PhaseOf(r)',
               \A w \in Workers : w[1] = r => WorkOf(r, w)'
        PROVE Goal
    <3>1. ASSUME NEW q \in Runs, q # r
          PROVE /\ PhaseOf(q)'
                /\ \A w \in Workers : w[1] = q => WorkOf(q, w)'
      <4>1. run[q].place \notin Loop
        BY <2>1, <3>1 DEF Alone, IsAlive, Loop, Runs, NoRun
      <4>. QED
        BY <1>0, <2>1, <3>1, <4>1
    <3>. QED
      BY <2>1, <3>1
  <2>2. ASSUME NEW why \in {"stopped", "stalled"}, ShutDown(r, why),
               run[r].place = "head"
        PROVE Goal
    <3>1. /\ run'[r].place \in {"ending", "filling"} /\ r \in stop'
          /\ stop \subseteq stop'
          /\ run'[r].place = "ending" => run'[r].futures = {}
          /\ run'[r].submitted = run[r].submitted
          /\ run'[r].futures = run[r].futures \ Of(r, {"queued"})
          /\ \A w \in Workers :
               \/ w[1] = r /\ work[w] = "queued" /\ work'[w] = "canceled"
               \/ ~(w[1] = r /\ work[w] = "queued") /\ work'[w] = work[w]
          /\ \A q \in Runs : q # r => run'[q] = run[q]
      BY <2>2, ShutDownEffect
    <3>2. PhaseOf(r)'
      BY <3>1 DEF Loop
    <3>3. ASSUME NEW w \in Workers, w[1] = r PROVE WorkOf(r, w)'
      <4>1. CASE work[w] = "queued"
        <5>1. work'[w] = "canceled" /\ w = <<r, w[2]>>
          BY <3>1, <3>3, <4>1 DEF Workers
        <5>2. w[2] \notin run'[r].futures
          BY <3>1, <4>1, <5>1 DEF Of
        <5>. QED
          BY <1>0, <3>1, <3>3, <4>1, <5>1, <5>2 DEF Busy
      <4>2. CASE work[w] # "queued"
        <5>1. work'[w] = work[w] /\ run'[r].place \in Working
          BY <3>1, <4>2 DEF Working, Loop
        <5>2. run[r].place \in Loop
          BY <2>2 DEF Loop
        <5>. QED
          BY <1>0, <3>1, <3>3, <4>2, <5>1, <5>2
      <4>. QED
        BY <4>1, <4>2
    <3>. QED
      BY <2>1, <2>2, <3>1, <3>2, <3>3
  <2>3. CASE Submit(r)
    <3> DEFINE i == run[r].submitted + 1
    <3>1. /\ \A q \in Runs : q # r => run'[q] = run[q]
          /\ run[r].place = "asking" /\ run'[r].place = "filling"
          /\ run'[r].shut = run[r].shut /\ i \in 1 .. MaxWorkers
          /\ run'[r].submitted = i
          /\ run'[r].futures = run[r].futures \cup {i}
          /\ work' = [work EXCEPT ![<<r, i>>] = "queued"]
          /\ UNCHANGED <<stop, active>>
      BY <2>3, SubmitEffect DEF Submit
    <3>2. PhaseOf(r)'
      BY <1>0, <3>1 DEF Loop
    <3>3. ASSUME NEW w \in Workers, w[1] = r PROVE WorkOf(r, w)'
      <4>0. w = <<r, w[2]>> /\ w[2] \in Nat /\ run[r].submitted \in Nat
        BY <3>3 DEF Workers, Types, RunRecord
      <4>1. CASE w[2] = i
        <5>1. work'[w] = "queued"
          BY <3>1, <4>0, <4>1 DEF Types
        <5>. QED
          BY <3>1, <4>0, <4>1, <5>1 DEF Loop, Busy
      <4>2. CASE w[2] # i
        <5>1. work'[w] = work[w]
          BY <3>1, <4>0, <4>2 DEF Types
        <5>2. w[2] > i => w[2] > run[r].submitted
          BY <4>0
        <5>. QED
          BY <1>0, <3>1, <3>3, <4>2, <5>1, <5>2 DEF Loop, Working
      <4>. QED
        BY <4>1, <4>2
    <3>4. \A w \in Workers : w[1] # r => work'[w] = work[w]
      BY <3>1 DEF Types
    <3>. QED
      BY <2>1, <3>1, <3>2, <3>3, <3>4
  <2>4. CASE Collect(r) /\ run[r].futures # {}
             /\ UNCHANGED <<stop, active, work>>
    <3>1. /\ \A q \in Runs : q # r => run'[q] = run[q]
          /\ run[r].place = "collecting" /\ run'[r].place = "head"
          /\ run'[r].shut = run[r].shut
          /\ run'[r].submitted = run[r].submitted
          /\ run'[r].futures \subseteq run[r].futures
      BY <2>4, CollectEffect
    <3>2. PhaseOf(r)'
      BY <1>0, <2>4, <3>1 DEF Loop
    <3>3. ASSUME NEW w \in Workers, w[1] = r PROVE WorkOf(r, w)'
      BY <1>0, <2>4, <3>1, <3>3 DEF Loop, Working
    <3>. QED
      BY <2>1, <2>4, <3>1, <3>2, <3>3
  <2>5. ASSUME NEW p \in Places, Goto(r, p), UNCHANGED <<stop, work>>,
               run[r].place \notin {"none", "dead"},
               p \notin {"none", "repairing"},
               p \in {"ending", "closing", "leaving"} => run[r].futures = {},
               p \in Loop => run[r].place \in Loop /\ active' = active,
               \/ p \in Loop
               \/ p = "ending"
               \/ run[r].place \notin Loop /\ \A w \in Workers :
                    w[1] = r => work[w] \notin Busy
        PROVE Goal
    <3>1. /\ \A q \in Runs : q # r => run'[q] = run[q]
          /\ run'[r].place = p /\ run'[r].shut = run[r].shut
          /\ run'[r].submitted = run[r].submitted
          /\ run'[r].futures = run[r].futures
      BY <2>5, GotoFields
    <3>2. PhaseOf(r)'
      BY <1>0, <2>5, <3>1
    <3>3. ASSUME NEW w \in Workers, w[1] = r PROVE WorkOf(r, w)'
      <4>1. work[w] = "queued" => p \in Loop
        <5>1. CASE p = "ending"
          BY <2>5, <3>3, <5>1, QueuedInFutures
        <5>. QED
          BY <1>0, <2>5, <3>3, <5>1
      <4>2. work[w] \in Busy => p \in Working
        BY <2>5, <3>3 DEF Working
      <4>. QED
        BY <1>0, <2>5, <3>1, <3>3, <4>1, <4>2
    <3>. QED
      BY <2>1, <2>5, <3>1, <3>2, <3>3
  <2>6. CASE Break(r)
    <3>1. /\ \A q \in Runs : q # r => run'[q] = run[q]
          /\ run[r].place \in Loop /\ run'[r].place = "broken"
          /\ run'[r].submitted = run[r].submitted
      <4>1. "broken" \in Places
        BY DEF Places
      <4>. QED
        BY <2>6, <4>1, GotoFields DEF Break, At, Loop
    <3>2. /\ stop' = stop
          /\ \A w \in Workers :
               work'[w] = IF w[1] = r /\ work[w] = "queued" THEN "canceled"
                          ELSE work[w]
      BY <2>6 DEF Break
    <3>3. PhaseOf(r)'
      BY <3>1 DEF Loop
    <3>4. ASSUME NEW w \in Workers, w[1] = r PROVE WorkOf(r, w)'
      BY <1>0, <3>1, <3>2, <3>4 DEF Loop, Working, Busy
    <3>. QED
      BY <2>1, <3>1, <3>2, <3>3, <3>4 DEF Loop
  <2>7. CASE Close(r)
    <3>1. /\ run[r].place = "closing" /\ UNCHANGED <<stop, work>>
          /\ \E p \in {"leaving", "dead"} : Goto(r, p)
      BY <2>7 DEF Close, At
    <3>2. \A w \in Workers : w[1] = r => work[w] \notin Busy
      BY <1>0, <3>1 DEF Working, Loop
    <3>3. {"leaving", "dead"} \subseteq Places /\ run[r].futures = {}
      BY <1>0, <3>1 DEF Places
    <3>. QED
      BY <2>5, <3>1, <3>2, <3>3 DEF Loop
  <2>8. CASE RepairOne(r)
    BY <1>0, <2>8 DEF RepairOne
  <2>9. CASE End(r) /\ AwaitWorkers(r)
    <3>1. /\ UNCHANGED <<stop, work>>
          /\ \/ run[r].place = "ending" /\ Goto(r, "closing")
             \/ run[r].place = "broken" /\ Goto(r, "dead")
      BY <2>9 DEF End, At
    <3>2. \A w \in Workers : w[1] = r => work[w] \notin Busy
      BY <2>9 DEF AwaitWorkers
    <3>3. {"closing", "dead"} \subseteq Places
      BY DEF Places
    <3>. QED
      BY <1>0, <2>5, <3>1, <3>2, <3>3 DEF Loop
  <2>10. CASE Moves(r, Loop, Loop) /\ UNCHANGED <<stop, active, work>>
    BY <2>5, <2>10 DEF Moves, Loop
  <2>11. CASE /\ Moves(r, Loop, {"ending"}) /\ run[r].futures = {}
              /\ UNCHANGED <<stop, active, work>>
    BY <2>5, <2>11 DEF Moves, Loop
  <2>12. CASE /\ UNCHANGED <<stop, active, work>>
              /\ \/ Moves(r, {"leaving"}, {"dead"})
                 \/ Moves(r, {"repairing"}, {"closing"})
    <3>1. \A w \in Workers : w[1] = r => work[w] \notin Busy
      BY <1>0, <2>12 DEF Moves, Working, Loop
    <3>2. run[r].place = "repairing" => run[r].futures = {}
      <4>1. run[r].futures \subseteq 1 .. run[r].submitted
        BY DEF Counts, CountsOf
      <4>. QED
        BY <1>0, <4>1
    <3>. QED
      BY <2>5, <2>12, <3>1, <3>2 DEF Moves, Loop
  <2>. QED
    BY <1>6, <2>2, <2>3, <2>4, <2>6, <2>7, <2>8, <2>9, <2>10, <2>11, <2>12,
       ThreadEffect
<1>. QED
  BY <1>2, <1>3, <1>4, <1>5, <1>6, Cases


(* What Settled says of one worker.                                        *)
SettledOf(w) ==
  /\ work[w] \in Over \ {"ok"} /\ acct[w] # "none" => w \in excused
  /\ work[w] = "ok" => acct[w] = "usable"
  /\ work[w] \in {"none", "queued", "proxy", "signup", "saving"}
       => acct[w] = "none"

LEMMA SettledStep ==
  ASSUME Types, Phase, Settled, [Next]_vars PROVE Settled'
<1> USE DEF SettledOf
<1>0. \A w \in Workers : SettledOf(w)
  BY DEF Settled, LeftoversExplained
<1>1. SUFFICES ASSUME NEW w \in Workers PROVE SettledOf(w)'
  BY DEF Settled, LeftoversExplained
<1>2. ASSUME work'[w] = work[w], acct'[w] = acct[w], excused \subseteq excused'
      PROVE SettledOf(w)'
  BY <1>0, <1>2
<1>3. ASSUME work[w] = "queued", work'[w] = "canceled", acct'[w] = acct[w]
      PROVE SettledOf(w)'
  BY <1>0, <1>3
<1>4. CASE UNCHANGED vars \/ Stop \/ Restart
  BY <1>2, <1>4 DEF vars, Stop, Restart
<1>5. ASSUME NEW c \in Callers, Call(c) PROVE SettledOf(w)'
  BY <1>2, <1>5, CallEffect
<1>6. CASE Kill
  BY <1>0, <1>6 DEF Kill, Over, Busy
<1>7. ASSUME NEW v \in Workers, Worker(v), v # w PROVE SettledOf(w)'
  BY <1>2, <1>7, WorkerEffect DEF Types
<1>8. ASSUME Worker(w) PROVE SettledOf(w)'
  <2>0. /\ acct[w] \in {"none", "raw", "usable"}
        /\ \A s : work' = [work EXCEPT ![w] = s] => work'[w] = s
        /\ \A a : acct' = [acct EXCEPT ![w] = a] => acct'[w] = a
    BY DEF Types
  <2> USE DEF Is, Becomes, Over, Kept
  <2>1. CASE Accept(w) \/ GetProxy(w) \/ SignUp(w)
    <3>1. work[w] \in {"queued", "proxy", "signup"} /\ acct'[w] = acct[w]
      BY <2>1 DEF Accept, GetProxy, SignUp
    <3>. QED
      BY <1>0, <2>0, <2>1, <3>1 DEF Accept, GetProxy, SignUp
  <2>2. CASE Save(w)
    BY <1>0, <2>0, <2>2 DEF Save
  <2>3. CASE Check(w)
    BY <1>0, <2>0, <2>3 DEF Check
  <2>4. CASE Refresh(w)
    BY <1>0, <2>0, <2>4 DEF Refresh
  <2>5. CASE Verify(w)
    BY <1>0, <2>0, <2>5 DEF Verify
  <2>6. CASE Delete(w)
    BY <1>0, <2>0, <2>6 DEF Delete
  <2>. QED
    BY <1>8, <2>1, <2>2, <2>3, <2>4, <2>5, <2>6 DEF Worker
<1>9. ASSUME NEW r \in Runs, Thread(r) PROVE SettledOf(w)'
  <2>1. CASE RepairOne(r)
    <3>1. /\ work' = work /\ excused' = excused
          /\ \/ acct'[w] = acct[w]
             \/ acct[w] = "raw"
      BY <2>1 DEF RepairOne, history, Types
    <3>. QED
      BY <1>0, <3>1
  <2>2. CASE Submit(r)
    <3> DEFINE i == run[r].submitted + 1
    <3>1. /\ acct' = acct /\ excused' = excused
          /\ work' = [work EXCEPT ![<<r, i>>] = "queued"]
      BY <2>2, SubmitEffect DEF Submit, history
    <3>2. CASE w = <<r, i>>
      <4>1. work[w] = "none" /\ work'[w] = "queued"
        <5>1. w[2] > run[w[1]].submitted
          BY <3>2 DEF Types, RunRecord
        <5>. QED
          BY <3>1, <3>2, <5>1 DEF Phase, Types
      <4>. QED
        BY <1>0, <3>1, <4>1 DEF Over
    <3>3. CASE w # <<r, i>>
      BY <1>2, <3>1, <3>3 DEF Types
    <3>. QED
      BY <3>2, <3>3
  <2>3. ASSUME NEW why \in {"stopped", "stalled"}, ShutDown(r, why),
               UNCHANGED <<acct, excused>>
        PROVE SettledOf(w)'
    <3>1. \/ work[w] = "queued" /\ work'[w] = "canceled"
          \/ work'[w] = work[w]
      BY <2>3, ShutDownEffect
    <3>. QED
      BY <1>2, <1>3, <2>3, <3>1
  <2>4. CASE Break(r)
    BY <1>2, <1>3, <2>4 DEF Break, history
  <2>5. CASE Close(r) \/ End(r)
    BY <1>2, <2>5 DEF Close, End
  <2>6. CASE UNCHANGED <<work, acct, history>>
    BY <1>2, <2>6 DEF history
  <2>. QED
    BY <1>9, <2>1, <2>2, <2>3, <2>4, <2>5, <2>6, ThreadEffect DEF history
<1>. QED
  BY <1>4, <1>5, <1>6, <1>7, <1>8, <1>9 DEF Next

LEMMA SwitchStep ==
  ASSUME Types, Alone, Alone', Switch, [Next]_vars PROVE Switch'
<1>0. /\ up /\ enabled => IsAlive(runner) \/ stranded
      /\ ~up => ~enabled
      /\ \A r \in Runs : run[r].place = "leaving" /\ enabled => stranded
      /\ \A r \in Runs : IsAlive(r) => r = runner /\ up
      /\ enabled \in BOOLEAN /\ stranded \in BOOLEAN
      /\ runner \in {NoRun} \cup Runs /\ NoRun \notin Runs
  BY DEF Switch, EnabledMeansRunning, Alone, Types, NoRun, Runs
<1>1. ASSUME ~enabled' PROVE Switch'
  BY <1>1 DEF Switch, EnabledMeansRunning
<1>2. ASSUME stranded', up' PROVE Switch'
  BY <1>2 DEF Switch, EnabledMeansRunning
<1>3. ASSUME UNCHANGED <<enabled, stranded, up, run, runner>> PROVE Switch'
  BY <1>0, <1>3 DEF Switch, EnabledMeansRunning, IsAlive
<1>4. CASE UNCHANGED vars
  BY <1>3, <1>4 DEF vars
<1>5. CASE Stop \/ Kill
  BY <1>1, <1>5 DEF Stop, Kill
<1>6. ASSUME NEW r \in Runs, NEW c, Launched(r, c), up',
             \A q \in Runs : ~IsAlive(q)
      PROVE Switch'
  <2>1. CASE run'[r].place \in {"head", "repairing"}
    <3>1. runner' = r /\ IsAlive(runner)'
      BY <1>0, <1>6, <2>1, LaunchEffect DEF IsAlive
    <3>2. \A q \in Runs : run'[q].place # "leaving"
      BY <1>0, <1>6, <2>1, LaunchEffect DEF IsAlive
    <3>. QED
      BY <1>6, <3>1, <3>2 DEF Switch, EnabledMeansRunning
  <2>. QED
    BY <1>2, <1>6, <2>1, LaunchEffect
<1>7. ASSUME NEW c \in Callers, Call(c) PROVE Switch'
  <2>1. CASE JoinRun(c)
    <3>1. /\ IsAlive(runner) /\ UNCHANGED <<up, run, runner>>
          /\ stranded' =
               (stranded \/ (enabled' /\ run[runner].place = "leaving"))
      BY <2>1 DEF JoinRun
    <3>2. \A r \in Runs : run[r].place = "leaving" => r = runner
      BY <1>0 DEF IsAlive
    <3>3. up
      BY <1>0, <3>1 DEF IsAlive
    <3>4. stranded' \in BOOLEAN /\ enabled' \in BOOLEAN
      BY <2>1, <1>0 DEF JoinRun
    <3>. QED
      BY <3>1, <3>2, <3>3, <3>4 DEF Switch, EnabledMeansRunning, IsAlive
  <2>2. CASE ~IsAlive(runner) /\ up /\ Begin(c)
    <3>1. up' /\ \A q \in Runs : ~IsAlive(q)
      BY <1>0, <2>2 DEF Begin
    <3>. QED
      BY <1>6, <2>2, <3>1 DEF Begin
  <2>3. CASE UNCHANGED <<switch, runner, stopEvent, active, run, stranded>>
    BY <1>3, <1>7, <2>3, CallEffect DEF switch
  <2>. QED
    BY <1>7, <2>1, <2>2, <2>3, CallEffect
<1>8. CASE Restart
  <2>1. up' /\ ~up /\ ~enabled /\ \A q \in Runs : ~IsAlive(q)
    BY <1>0, <1>8 DEF Restart
  <2>2. CASE \E r \in Runs : Launched(r, Manual)
    BY <1>6, <2>1, <2>2
  <2>3. CASE enabled' = enabled
    BY <1>1, <2>1, <2>3
  <2>. QED
    BY <1>8, <2>2, <2>3 DEF Restart
<1>9. ASSUME NEW w \in Workers, Worker(w) PROVE Switch'
  BY <1>3, <1>9, WorkerEffect DEF others, switch
<1>10. ASSUME NEW r \in Runs, Thread(r) PROVE Switch'
  <2>0. up /\ up' = up /\ runner' = runner
    BY <1>10, ThreadEffect
  (* A thread that stays alive, without leaving, keeps the promise.        *)
  <2>1. ASSUME run[r].place \notin {"none", "dead"},
               run'[r].place \notin {"none", "dead", "leaving"},
               \A q \in Runs : q # r => run'[q] = run[q]
        PROVE Switch'
    <3>1. r = runner /\ r # NoRun
      BY <1>0, <2>1 DEF IsAlive
    <3>2. IsAlive(runner)'
      BY <2>0, <2>1, <3>1 DEF IsAlive
    <3>3. \A q \in Runs : run'[q].place # "leaving"
      BY <1>0, <2>1, <3>1 DEF IsAlive
    <3>. QED
      BY <2>0, <3>2, <3>3 DEF Switch, EnabledMeansRunning
  <2>2. ASSUME NEW why \in {"stopped", "stalled"}, ShutDown(r, why),
               run[r].place = "head"
        PROVE Switch'
    BY <2>1, <2>2, ShutDownEffect
  <2>3. CASE Submit(r)
    BY <2>1, <2>3, SubmitEffect
  <2>4. CASE Collect(r) /\ run[r].futures # {}
    BY <2>1, <2>4, CollectEffect
  <2>5. ASSUME NEW p \in Places, Goto(r, p),
               run[r].place \notin {"none", "dead"},
               p \notin {"none", "dead", "leaving"}
        PROVE Switch'
    BY <2>1, <2>5, GotoFields
  <2>6. CASE Break(r)
    BY <2>5, <2>6 DEF Break, At, Places
  <2>7. CASE Close(r)
    <3>1. enabled' = FALSE \/ (enabled' = enabled /\ stranded' = enabled)
      BY <2>7 DEF Close
    <3>2. enabled \in BOOLEAN
      BY <1>0
    <3>. QED
      BY <1>1, <1>2, <2>0, <3>1, <3>2
  <2>8. CASE RepairOne(r)
    BY <1>3, <2>8 DEF RepairOne, switch, history
  <2>9. CASE End(r)
    <3>1. CASE run[r].place = "ending"
      BY <2>5, <2>9, <3>1 DEF End, At, Places
    <3>2. CASE run[r].place # "ending"
      <4>1. /\ run[r].place = "broken" /\ enabled' = enabled
            /\ stranded' = (stranded \/ enabled)
        BY <2>9, <3>2 DEF End, At, switch
      <4>. QED
        BY <1>0, <1>1, <1>2, <2>0, <4>1
    <3>. QED
      BY <3>1, <3>2
  <2>10. CASE Moves(r, Loop, Loop) \/ Moves(r, Loop, {"ending"})
              \/ Moves(r, {"repairing"}, {"closing"})
    BY <2>5, <2>10 DEF Moves, Loop
  <2>11. CASE Moves(r, {"leaving"}, {"dead"})
              /\ UNCHANGED <<enabled, history>>
    <3>1. run[r].place = "leaving"
      BY <2>11 DEF Moves
    <3>. QED
      BY <1>0, <1>1, <1>2, <2>0, <2>11, <3>1 DEF history
  <2>. QED
    BY <1>10, <2>2, <2>3, <2>4, <2>6, <2>7, <2>8, <2>9, <2>10, <2>11,
       ThreadEffect
<1>. QED
  BY <1>4, <1>5, <1>7, <1>8, <1>9, <1>10 DEF Next

-----------------------------------------------------------------------------
LEMMA InitIInv == Init => IInv
<1> SUFFICES ASSUME Init PROVE IInv
  OBVIOUS
<1>0. Unborn \in RunRecord /\ Unborn.submitted = 0 /\ Unborn.place = "none"
  BY RegisterAssumption DEF Unborn, RunRecord, Places
<1>1. Types
  <2>1. /\ 0 \in 0 .. MaxStops /\ 0 \in 0 .. MaxFaults
        /\ \A S : {} \subseteq S
    BY RegisterAssumption
  <2>. QED
    BY <1>0, <2>1 DEF Init, Types
<1>2. \A r \in Runs : run[r] = Unborn
  BY DEF Init
<1>3. Counts
  <2> SUFFICES ASSUME NEW r \in Runs PROVE CountsOf(r)
    BY DEF Counts
  <2>1. Taken(r) = {}
    BY <1>2 DEF Taken, Unborn
  <2>2. TakenAs(r, {"ok"}) = {} /\ TakenAs(r, Failing(r)) = {}
    BY <2>1 DEF TakenAs
  <2>. QED
    BY <1>2, <2>1, <2>2, FS_EmptySet DEF CountsOf, Unborn
<1>4. Phase
  <2>1. \A w \in Workers : w[1] \in Runs
    BY DEF Workers
  <2>. QED
    BY <1>2, <2>1 DEF Init, Phase, Unborn, Loop, Working, Busy
<1>5. Alone /\ Settled /\ Switch
  BY <1>2 DEF Init, Alone, Settled, Switch, LeftoversExplained,
     EnabledMeansRunning, IsAlive, Unborn, Over
<1>. QED
  BY <1>1, <1>3, <1>4, <1>5 DEF IInv

LEMMA Inductive == Spec => []IInv
<1>1. IInv /\ [Next]_vars => IInv'
  BY TypesStep, CountsStep, PhaseStep, AloneStep, SettledStep, SwitchStep
     DEF IInv
<1>. QED
  BY InitIInv, <1>1, PTL DEF Spec

(* Whatever starts meet, one run is at work at a time, and only its own    *)
(* workers are busy (start, _run).                                         *)
THEOREM OneRunAtATime == Spec => []OneRun
<1>1. IInv => OneRun
  <2> SUFFICES ASSUME IInv PROVE OneRun
    OBVIOUS
  <2>1. ASSUME NEW w \in Workers, work[w] \in Busy
        PROVE w[1] = runner /\ IsAlive(runner)
    <3>1. w[1] \in Runs /\ w[1] # NoRun
      BY DEF Workers, Runs, NoRun
    <3>2. IsAlive(w[1])
      BY <2>1, <3>1 DEF IInv, Phase, IsAlive, Working, Loop
    <3>. QED
      BY <3>1, <3>2 DEF IInv, Alone
  <2>. QED
    BY <2>1 DEF IInv, Alone, OneRun
<1>. QED
  BY Inductive, <1>1, PTL

(* Every worker a run has submitted is counted as done once, canceled or   *)
(* not, and the successes and failures it reports in the end are those of  *)
(* its workers (_run, _cancel_pending_futures).                            *)
THEOREM EveryWorkerCounted == Spec => []WorkersCounted
<1>1. IInv => WorkersCounted
  <2> SUFFICES ASSUME IInv, NEW r \in Runs
               PROVE /\ run[r].done + Cardinality(run[r].futures)
                          = run[r].submitted
                     /\ run[r].place \in {"closing", "leaving"} =>
                          /\ run[r].success = Results(r, {"ok"})
                          /\ run[r].fail =
                               Results(r, IF run[r].shut = "stalled"
                                          THEN {"failed", "stopped", "canceled"}
                                          ELSE {"failed"})
    BY DEF WorkersCounted
  <2>0. run[r] \in RunRecord /\ CountsOf(r)
    BY DEF IInv, Types, Counts
  <2>1. run[r].done + Cardinality(run[r].futures) = run[r].submitted
    <3> DEFINE n == run[r].submitted
    <3>1. n \in Nat /\ run[r].futures \subseteq 1 .. n
      <4>1. n \in 0 .. MaxWorkers
        BY <2>0 DEF RunRecord
      <4>2. n \in Nat
        BY <4>1, RegisterAssumption
      <4>. QED
        BY <2>0, <4>2 DEF CountsOf
    <3>6. run[r].done = Cardinality((1 .. n) \ run[r].futures)
      BY <2>0 DEF CountsOf, Taken
    <3>. HIDE DEF n
    <3>2. IsFiniteSet(1 .. n) /\ Cardinality(1 .. n) = n
      BY <3>1, CountUpTo
    <3>3. Cardinality((1 .. n) \ run[r].futures)
            = Cardinality(1 .. n) - Cardinality((1 .. n) \cap run[r].futures)
      BY <3>2, FS_Difference
    <3>4. (1 .. n) \cap run[r].futures = run[r].futures
      BY <3>1
    <3>5. Cardinality(run[r].futures) \in Nat
      BY <3>1, <3>2, FS_Subset, FS_CardinalityType
    <3>7. Cardinality((1 .. n) \ run[r].futures)
            = n - Cardinality(run[r].futures)
      BY <3>2, <3>3, <3>4, Zenon
    <3>8. run[r].done + Cardinality(run[r].futures) = n
      BY <3>1, <3>5, <3>6, <3>7
    <3>. QED
      BY <3>8 DEF n
  <2>2. ASSUME run[r].place \in {"closing", "leaving"}, NEW results
        PROVE Results(r, results) = Cardinality(TakenAs(r, results))
    BY <2>2 DEF IInv, Phase, Results, TakenAs, Taken
  <2>. QED
    BY <2>0, <2>1, <2>2 DEF CountsOf, Failing
<1>. QED
  BY Inductive, <1>1, PTL

(* Accounts and switch that a run leaves behind have a reason, and the     *)
(* variables keep their types: its counters never exceed its workers       *)
(* (_register_one, _run, start).                                           *)
THEOREM LeftoversHaveReasons == Spec => []StateExplained
<1>1. IInv => TypeOK
  <2> SUFFICES ASSUME IInv PROVE TypeOK
    OBVIOUS
  <2>1. ASSUME NEW r \in Runs
        PROVE /\ run[r].done <= MaxWorkers /\ run[r].success <= MaxWorkers
              /\ run[r].fail <= MaxWorkers
    <3>0. run[r] \in RunRecord /\ CountsOf(r) /\ MaxWorkers \in Nat
      BY RegisterAssumption DEF IInv, Types, Counts
    <3>1. /\ IsFiniteSet(1 .. MaxWorkers)
          /\ Cardinality(1 .. MaxWorkers) = MaxWorkers
      BY <3>0, CountUpTo
    <3>2. ASSUME NEW S \in SUBSET (1 .. MaxWorkers)
          PROVE Cardinality(S) <= MaxWorkers
      BY <3>1, FS_Subset
    <3>3. Taken(r) \subseteq 1 .. MaxWorkers
      BY <3>0, TakenType
    <3>4. \A results : TakenAs(r, results) \subseteq 1 .. MaxWorkers
      BY <3>3 DEF TakenAs
    <3>. QED
      BY <3>0, <3>2, <3>3, <3>4 DEF CountsOf
  <2>2. \A r \in Runs : run[r] \in
          [place : {"none", "head", "filling", "asking", "collecting",
                    "ending", "broken", "repairing", "closing", "leaving",
                    "dead"},
           auto : BOOLEAN, submitted : 0 .. MaxWorkers,
           futures : SUBSET (1 .. MaxWorkers),
           shut : {"no", "stopped", "stalled"},
           done : 0 .. MaxWorkers, success : 0 .. MaxWorkers,
           fail : 0 .. MaxWorkers]
    BY <2>1, RegisterAssumption DEF IInv, Types, RunRecord, Places, Loop
  <2>. QED
    BY <2>2 DEF IInv, Types, TypeOK
<1>2. IInv => LeftoversExplained /\ EnabledMeansRunning
  BY DEF IInv, Settled, Switch
<1>. QED
  BY Inductive, <1>1, <1>2, PTL DEF StateExplained

=============================================================================
