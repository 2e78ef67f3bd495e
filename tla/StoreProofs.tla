----------------------------- MODULE StoreProofs -----------------------------
(***************************************************************************)
(* The JSON files below data/, and the quota counters of a key, which one  *)
(* of them keeps.                                                          *)
(*                                                                         *)
(* JSONStore.                                                              *)
(* For any number of processes, entries and faults.  lockJSONFile          *)
(* excludes: LockHeld is inductive with the types, and gives               *)
(* MutualExclusion, because two writers inside the locked part would both  *)
(* own the one lock file.  So a writer inside it is alone with the files,  *)
(* and what it relies on at each of its steps (Writing) is enough for what *)
(* updateJSONFile promises its callers, after a nil as after an error,     *)
(* until one of the Harms happens.                                         *)
(*                                                                         *)
(* Quota.                                                                  *)
(* For every number of requests, amounts, allowances and days: the         *)
(* counters of a key cover what was charged in the current day, month and  *)
(* in all, and no charge exceeds an allowance, up to the refunds of        *)
(* requests charged before the window began; nor do they ever count more   *)
(* than what was charged in the current window.                            *)
(***************************************************************************)
EXTENDS JSONStore, Quota, FiniteSetTheorems, TLAPS

-----------------------------------------------------------------------------
(* The store.                                                              *)

(* A Save has a value from the request to the return.                      *)
SaveHasValue ==
  \A p \in Procs : pc[p] # "idle" /\ new[p] = None => snap[p] # None

IInv == TypeOK /\ SaveHasValue /\ LockHeld

(* What a writer inside the locked part relies on, line by line of         *)
(* updateJSONFile and overwriteJSONFileSynced: the acknowledged entries    *)
(* are in the file, or while it is overwritten in place in what will be    *)
(* written and in the copy it can go back to;                              *)
Adds(p) == {new[p]} \ {None}

Keeps(p) ==
  LET s == pc[p] IN
  /\ s \notin Overwriting => acked \subseteq Read(file)
  /\ s \in {"tmp", "ready", "fallback", "saved", "bare", "trunc", "cut"}
       => acked \cup Adds(p) \subseteq val[p]
  /\ s = "ready" => tmp = val[p]
  /\ s \in {"saved", "trunc", "restore"} => acked \subseteq Read(bak)
  /\ s \in {"renamed", "ok"} => Adds(p) \subseteq Read(file)

(* and nothing but those entries and its own is in any of the three.       *)
AddsOnly(p) ==
  /\ Read(file) \subseteq
       IF pc[p] \in Overwriting \cup {"renamed", "ok"}
       THEN acked \cup Adds(p) ELSE acked
  /\ pc[p] # "held" => val[p] \subseteq acked \cup Adds(p)
  /\ pc[p] \in {"saved", "trunc", "restore"} => Read(bak) \subseteq acked

Writing(p) == Keeps(p) /\ (crashes = 0 => AddsOnly(p))

Quiet == \A p \in Procs : pc[p] \notin Critical

FileInv ==
  harm = {} =>
    /\ Quiet => /\ acked \subseteq Read(file)
                /\ crashes = 0 => Read(file) \subseteq acked
    /\ \A p \in Procs : pc[p] \in Critical => Writing(p)

DataInv == IInv /\ LockReleased /\ FileInv

LEMMA InitIInv == Init => IInv
<1> SUFFICES ASSUME Init PROVE IInv
  OBVIOUS
<1>0. 0 \in 0 .. MaxCrashes /\ 0 \in 0 .. MaxErrors /\ 0 \in 0 .. MaxSlow
  BY StoreAssumption
<1>1. TypeOK
  BY <1>0 DEF Init, TypeOK, Files, Contents, PCs
<1>2. SaveHasValue /\ LockHeld
  BY DEF Init, SaveHasValue, LockHeld, Critical
<1>. QED
  BY <1>1, <1>2 DEF IInv

(* What is read from a file of the right type is a set of entries.         *)
LEMMA ReadType == ASSUME NEW f \in Files PROVE Read(f) \in Contents
  BY DEF Files, Contents, Read

(* Each step keeps the types of the files, of the lock and of the locals.  *)
LEMMA TypeStep == IInv /\ [Next]_vars => TypeOK'
<1> SUFFICES ASSUME TypeOK, SaveHasValue, [Next]_vars PROVE TypeOK'
  BY DEF IInv
<1> USE StoreAssumption
<1>0. {} \in Contents
  BY DEF Contents
<1>1. CASE UNCHANGED vars
  BY <1>1 DEF TypeOK, vars
<1>2. CASE LockAges
  <2>1. lock \in [by : Procs, stale : BOOLEAN]
    BY <1>2 DEF TypeOK, LockAges
  <2>2. lock' \in [by : Procs, stale : BOOLEAN]
    BY <1>2, <2>1 DEF LockAges
  <2>3. slow' \in 0 .. MaxSlow
    BY <1>2 DEF TypeOK, LockAges
  <2>. QED
    BY <1>2, <2>2, <2>3 DEF TypeOK, LockAges, Disk, Mine
<1>3. ASSUME NEW p \in Procs, Step(p) PROVE TypeOK'
  <2>0. pc[p] \in PCs
    BY DEF TypeOK
  <2>1. CASE Load(p)
    BY <2>1, <1>0, ReadType DEF TypeOK, Load, Fault, Disk, Lock
  <2>2. CASE Update(p)
    BY <2>2 DEF TypeOK, Update, Goto, Disk, Lock, Bounds, PCs
  <2>3. CASE Save(p)
    BY <2>3 DEF TypeOK, Save, Goto, Disk, Lock, Bounds, PCs
  <2>4. CASE Acquire(p)
    BY <2>4 DEF TypeOK, Acquire, Goto, Disk, Mine, Bounds, PCs, Critical
  <2>5. CASE SeeStale(p)
    BY <2>5 DEF TypeOK, SeeStale, Goto, Disk, Lock, Mine, Bounds, PCs
  <2>6. CASE Steal(p)
    <3>0. errors' \in 0 .. MaxErrors
      BY <2>6 DEF TypeOK, Steal, Fault
    <3>1. harm' \subseteq Harms
      BY <2>6 DEF TypeOK, Steal, Harms
    <3>2. lock' \in {None, lock} /\ orphaned' \in BOOLEAN
      BY <2>6 DEF TypeOK, Steal, Lock
    <3>. QED
      BY <2>6, <3>0, <3>1, <3>2 DEF TypeOK, Steal, Goto, Disk, Mine, PCs
  <2>7. CASE GiveUp(p)
    BY <2>7 DEF TypeOK, GiveUp, Fault, Goto, Disk, Lock, PCs
  <2>8. CASE OpenTmp(p)
    <3>1. /\ UNCHANGED <<file, bak, Lock, snap, new, acked, crashes, slow>>
          /\ tmp' = Torn /\ pc' = [pc EXCEPT ![p] = "tmp"]
          /\ harm' \in {harm, harm \cup {"outdated"}, harm \cup {"unread"}}
      BY <2>8 DEF OpenTmp, Goto
    <3>2. \E c \in Contents : val' = [val EXCEPT ![p] = c]
      <4>1. CASE new[p] = None
        <5>1. snap[p] \in Contents
          BY <2>8, <4>1 DEF OpenTmp, SaveHasValue, TypeOK
        <5>. QED
          BY <2>8, <4>1, <5>1 DEF OpenTmp
      <4>2. CASE new[p] # None
        <5>1. {new[p]} \in Contents /\ Read(file) \cup {new[p]} \in Contents
          BY <4>2, ReadType DEF TypeOK, Contents
        <5>. QED
          BY <2>8, <4>2, <5>1 DEF OpenTmp
      <4>. QED
        BY <4>1, <4>2
    <3>3. errors' \in 0 .. MaxErrors
      BY <2>8 DEF TypeOK, OpenTmp, Fault
    <3>. QED
      BY <3>1, <3>2, <3>3 DEF TypeOK, Lock, Files, PCs, Critical, Harms
  <2>9. CASE WriteTmp(p)
    BY <2>9 DEF TypeOK, WriteTmp, Fault, Goto, Lock, Mine, Files, PCs, Critical
  <2>10. CASE Rename(p)
    BY <2>10 DEF TypeOK, Rename, Fault, Goto, Lock, Mine, Files, PCs, Critical
  <2>11. CASE Backup(p)
    BY <2>11 DEF TypeOK, Backup, Fault, Goto, Lock, Mine, Files, PCs, Critical
  <2>12. CASE Truncate(p)
    BY <2>12 DEF TypeOK, Truncate, Fault, Goto, Lock, Mine, Files, PCs, Critical
  <2>13. CASE Overwrite(p)
    <3>0. val[p] \in Files /\ file \in Files /\ Absent \in Files
      BY DEF TypeOK, Files
    <3>1. file' \in Files /\ bak' \in Files
      BY <2>13, <3>0 DEF TypeOK, Overwrite
    <3>2. errors' \in 0 .. MaxErrors
      BY <2>13 DEF TypeOK, Overwrite, Fault
    <3>3. harm' \in {harm, harm \cup {"torn"}}
      BY <2>13 DEF Overwrite
    <3>4. harm' \subseteq Harms
      BY <3>3 DEF TypeOK, Harms
    <3>. QED
      BY <2>13, <3>1, <3>2, <3>4 DEF TypeOK, Overwrite, Goto, Lock, Mine, PCs,
         Critical
  <2>14. CASE Restore(p)
    <3>1. file' \in Files
      BY <2>14 DEF TypeOK, Restore, Files
    <3>2. errors' \in 0 .. MaxErrors
      BY <2>14 DEF TypeOK, Restore, Fault
    <3>3. harm' \in {harm, harm \cup {"torn"}}
      BY <2>14 DEF Restore
    <3>4. harm' \subseteq Harms
      BY <3>3 DEF TypeOK, Harms
    <3>. QED
      BY <2>14, <3>1, <3>2, <3>4 DEF TypeOK, Restore, Goto, Lock, Mine, PCs,
         Critical
  <2>15. CASE RemoveTmp(p)
    BY <2>15 DEF TypeOK, RemoveTmp, Fault, Goto, Lock, Mine, Files, PCs,
       Critical
  <2>16. CASE Unlock(p)
    <3>1. lock' \in {None, lock} /\ orphaned' \in BOOLEAN
      BY <2>16 DEF Unlock
    <3>2. errors' \in 0 .. MaxErrors
      BY <2>16 DEF TypeOK, Unlock, Fault
    <3>. QED
      BY <2>16, <3>1, <3>2, <1>0 DEF TypeOK, Unlock, Return, Goto, Disk, PCs
  <2>17. CASE Crash(p)
    <3>1. orphaned' \in BOOLEAN
      BY <2>17 DEF TypeOK, Crash
    <3>2. crashes' \in 0 .. MaxCrashes /\ harm' \subseteq Harms
      BY <2>17 DEF TypeOK, Crash, Harms
    <3>. QED
      BY <2>17, <3>1, <3>2, <1>0 DEF TypeOK, Crash, Goto, Disk, PCs
  <2>. QED
    BY <1>3, <2>1, <2>2, <2>3, <2>4, <2>5, <2>6, <2>7, <2>8, <2>9, <2>10,
       <2>11, <2>12, <2>13, <2>14, <2>15, <2>16, <2>17 DEF Step
<1>. QED
  BY <1>1, <1>2, <1>3 DEF Next

(* An Update has an entry to add, and a Save begins only with a value, that *)
(* no step of its process takes away before it returns.                    *)
LEMMA SaveStep == IInv /\ [Next]_vars => SaveHasValue'
<1> SUFFICES ASSUME TypeOK, SaveHasValue, [Next]_vars PROVE SaveHasValue'
  BY DEF IInv
<1>0. pc \in [Procs -> PCs] /\ snap \in [Procs -> {None} \cup Contents]
      /\ new \in [Procs -> Entries \cup {None}] /\ None \notin Entries
  BY StoreAssumption DEF TypeOK
<1>1. CASE UNCHANGED vars \/ LockAges
  BY <1>1 DEF SaveHasValue, vars, LockAges, Mine
<1>2. ASSUME NEW p \in Procs, Step(p) PROVE SaveHasValue'
  <2>1. CASE Load(p)
    BY <1>0, <2>1 DEF Load, SaveHasValue
  <2>2. CASE Update(p) \/ Save(p)
    BY <1>0, <2>2 DEF Update, Save, Goto, SaveHasValue
  <2>3. CASE GiveUp(p) \/ Unlock(p) \/ Crash(p)
    BY <1>0, <2>3 DEF GiveUp, Unlock, Return, Crash, Goto, SaveHasValue
  <2>4. CASE Acquire(p) \/ SeeStale(p) \/ Steal(p) \/ OpenTmp(p)
    BY <1>0, <2>4 DEF Acquire, SeeStale, Steal, OpenTmp, Goto, Mine,
       SaveHasValue
  <2>5. CASE WriteTmp(p) \/ Rename(p) \/ Backup(p) \/ Truncate(p)
    BY <1>0, <2>5 DEF WriteTmp, Rename, Backup, Truncate, Goto, Mine,
       SaveHasValue
  <2>6. CASE Overwrite(p) \/ Restore(p) \/ RemoveTmp(p)
    BY <1>0, <2>6 DEF Overwrite, Restore, RemoveTmp, Goto, Mine, SaveHasValue
  <2>. QED
    BY <1>2, <2>1, <2>2, <2>3, <2>4, <2>5, <2>6 DEF Step
<1>. QED
  BY <1>1, <1>2 DEF Next

(* Only Acquire enters the locked part, with a lock file it has created;   *)
(* only Steal and Unlock remove one, and Steal's victim has left or is     *)
(* counted in harm.                                                        *)
LEMMA LockHeldStep == IInv /\ [Next]_vars => LockHeld'
<1> SUFFICES ASSUME IInv, [Next]_vars PROVE LockHeld'
  OBVIOUS
<1> USE StoreAssumption DEF IInv, LockHeld
<1>0. TypeOK /\ pc \in [Procs -> PCs]
      /\ lock \in {None} \cup [by : Procs, stale : BOOLEAN]
  BY DEF TypeOK
<1>1. CASE UNCHANGED vars
  BY <1>1 DEF vars
<1>2. CASE LockAges
  BY <1>2, <1>0 DEF LockAges, Mine
<1>3. ASSUME NEW p \in Procs, Step(p) PROVE LockHeld'
  <2>1. CASE Acquire(p)
    <3>1. /\ lock = None /\ lock' = [by |-> p, stale |-> FALSE]
          /\ pc' = [pc EXCEPT ![p] = "held"] /\ harm' = harm
      BY <2>1 DEF Acquire, Goto
    <3>2. [by |-> p, stale |-> FALSE] \in [by : Procs, stale : BOOLEAN]
      OBVIOUS
    <3>3. lock' # None /\ lock'.by = p
      BY <3>1, <3>2
    <3>4. "usurped" \notin harm =>
            \A q \in Procs : pc'[q] \in Critical => q = p
      BY <3>1, <1>0
    <3>. QED
      BY <3>1, <3>3, <3>4
  <2>2. CASE Steal(p)
    BY <2>2, <1>0 DEF Steal, Goto, Lock, Critical
  <2>3. CASE Unlock(p)
    BY <2>3, <1>0 DEF Unlock, Return, Goto, Critical
  <2>4. CASE Crash(p)
    BY <2>4, <1>0 DEF Crash, Goto, Critical
  <2>5. ASSUME UNCHANGED lock, "usurped" \in harm => "usurped" \in harm',
               \E s : Goto(p, s) /\ (s \in Critical => pc[p] \in Critical)
        PROVE LockHeld'
    BY <2>5, <1>0 DEF Goto
  <2>6. CASE Load(p)
    BY <2>6, <1>0 DEF Load, Lock
  <2>7. CASE Update(p) \/ Save(p) \/ SeeStale(p) \/ GiveUp(p)
    BY <2>5, <2>7 DEF Update, Save, SeeStale, GiveUp, Critical, Lock
  <2>8. CASE OpenTmp(p)
    BY <2>5, <2>8 DEF OpenTmp, Critical, Lock
  <2>9. CASE WriteTmp(p) \/ Rename(p) \/ Backup(p) \/ Truncate(p)
    BY <2>5, <2>9 DEF WriteTmp, Rename, Backup, Truncate, Critical, Lock
  <2>10. CASE Overwrite(p) \/ Restore(p) \/ RemoveTmp(p)
    BY <2>5, <2>10 DEF Overwrite, Restore, RemoveTmp, Critical, Lock
  <2>. QED
    BY <1>3, <2>1, <2>2, <2>3, <2>4, <2>6, <2>7, <2>8, <2>9, <2>10 DEF Step
<1>. QED
  BY <1>1, <1>2, <1>3 DEF Next

LEMMA Inductive == Spec => []IInv
<1>1. IInv /\ [Next]_vars => IInv'
  BY TypeStep, SaveStep, LockHeldStep DEF IInv
<1>. QED
  BY InitIInv, <1>1, PTL DEF Spec

(* The variables of the store keep their types, for any number of          *)
(* processes, entries and faults.                                          *)
THEOREM StoreTypes == Spec => []TypeOK
<1>1. IInv => TypeOK
  BY DEF IInv
<1>. QED
  BY Inductive, <1>1, PTL

(* Two processes are inside the locked part of lockJSONFile at once only   *)
(* after a waiter removed the lock file of a live writer.                  *)
THEOREM LockExcludes == Spec => []MutualExclusion
<1>1. IInv => MutualExclusion
  BY DEF IInv, LockHeld, MutualExclusion
<1>. QED
  BY Inductive, <1>1, PTL

-----------------------------------------------------------------------------
LEMMA ReadContents == ASSUME NEW c \in Contents PROVE Read(c) = c
  BY StoreAssumption DEF Contents, Read

LEMMA ReadTorn == Read(Torn) = {} /\ Read(Absent) = {}
  BY DEF Read

(* What went wrong stays on record, and the dead stay dead.                *)
LEMMA HarmGrows == ASSUME TypeOK, [Next]_vars
                   PROVE harm \subseteq harm' /\ (crashes' = 0 => crashes = 0)
<1>1. CASE UNCHANGED vars
  BY <1>1 DEF vars
<1>2. CASE LockAges
  BY <1>2 DEF LockAges
<1>3. ASSUME NEW p \in Procs, Step(p)
      PROVE harm \subseteq harm' /\ (crashes' = 0 => crashes = 0)
  <2>1. CASE Load(p) \/ Update(p) \/ Save(p) \/ Acquire(p) \/ SeeStale(p)
             \/ Steal(p) \/ GiveUp(p)
    BY <2>1 DEF Load, Update, Save, Acquire, SeeStale, Steal, GiveUp, Bounds
  <2>2. CASE OpenTmp(p) \/ WriteTmp(p) \/ Rename(p) \/ Backup(p)
             \/ Truncate(p) \/ Overwrite(p) \/ Restore(p) \/ RemoveTmp(p)
    BY <2>2 DEF OpenTmp, WriteTmp, Rename, Backup, Truncate, Overwrite,
       Restore, RemoveTmp, Bounds
  <2>3. CASE Unlock(p)
    BY <2>3 DEF Unlock, Return
  <2>4. CASE Crash(p)
    BY <2>4 DEF Crash, TypeOK
  <2>. QED
    BY <1>3, <2>1, <2>2, <2>3, <2>4 DEF Step
<1>. QED
  BY <1>1, <1>2, <1>3 DEF Next

(* Only a crash or a failed removal leaves a lock file behind.             *)
LEMMA ReleasedStep == IInv /\ LockReleased /\ [Next]_vars => LockReleased'
<1> SUFFICES ASSUME IInv, LockReleased, [Next]_vars, lock' # None,
                    "usurped" \notin harm'
             PROVE pc'[lock'.by] \in Critical \/ orphaned'
  BY DEF LockReleased
<1>0. /\ pc \in [Procs -> PCs]
      /\ lock \in {None} \cup [by : Procs, stale : BOOLEAN]
      /\ lock # None => pc[lock.by] \in Critical \/ orphaned
  BY HarmGrows DEF IInv, TypeOK, LockReleased
<1>1. CASE UNCHANGED vars
  BY <1>0, <1>1 DEF vars
<1>2. CASE LockAges
  <2>1. lock \in [by : Procs, stale : BOOLEAN] /\ lock'.by = lock.by
    BY <1>0, <1>2 DEF LockAges
  <2>. QED
    BY <1>0, <1>2, <2>1 DEF LockAges, Mine
<1>3. ASSUME NEW p \in Procs, Step(p)
      PROVE pc'[lock'.by] \in Critical \/ orphaned'
  <2>1. CASE Acquire(p)
    BY <1>0, <2>1 DEF Acquire, Goto, Critical
  <2>2. CASE Unlock(p)
    BY <2>2 DEF Unlock
  <2>3. CASE Crash(p)
    BY <1>0, <2>3 DEF Crash, Goto
  <2>4. ASSUME UNCHANGED Lock,
               \E s : Goto(p, s) /\ (pc[p] \in Critical => s \in Critical)
        PROVE pc'[lock'.by] \in Critical \/ orphaned'
    BY <1>0, <2>4 DEF Goto, Lock
  <2>5. CASE Load(p)
    BY <1>0, <2>5 DEF Load, Lock
  <2>6. CASE Update(p) \/ Save(p) \/ SeeStale(p) \/ GiveUp(p)
    BY <2>4, <2>6 DEF Update, Save, SeeStale, GiveUp, Critical
  <2>7. CASE Steal(p)
    BY <2>4, <2>7 DEF Steal, Critical
  <2>8. CASE OpenTmp(p) \/ WriteTmp(p) \/ Rename(p) \/ Backup(p) \/ Truncate(p)
    BY <2>4, <2>8 DEF OpenTmp, WriteTmp, Rename, Backup, Truncate, Critical
  <2>9. CASE Overwrite(p) \/ Restore(p) \/ RemoveTmp(p)
    BY <2>4, <2>9 DEF Overwrite, Restore, RemoveTmp, Critical
  <2>. QED
    BY <1>3, <2>1, <2>2, <2>3, <2>5, <2>6, <2>7, <2>8, <2>9 DEF Step
<1>. QED
  BY <1>1, <1>2, <1>3 DEF Next

-----------------------------------------------------------------------------
(* The writer's own steps, from the lock file to its removal.              *)
LEMMA WritingStep ==
  ASSUME TypeOK, harm' = {}, harm = {}, NEW p \in Procs, Writing(p),
         OpenTmp(p) \/ WriteTmp(p) \/ Rename(p) \/ Backup(p) \/ Truncate(p)
         \/ Overwrite(p) \/ Restore(p) \/ RemoveTmp(p)
  PROVE  Writing(p)' /\ pc'[p] \in Critical
<1>0. /\ pc \in [Procs -> PCs] /\ val \in [Procs -> Contents]
      /\ file \in Files /\ bak \in Files /\ tmp \in Files
      /\ Read(file) \in Contents /\ val[p] \in Contents
      /\ Read(val[p]) = val[p]
  BY ReadType, ReadContents DEF TypeOK
<1>1. CASE OpenTmp(p)
  <2>1. /\ pc[p] = "held" /\ pc'[p] = "tmp"
        /\ UNCHANGED <<file, bak, new, acked, crashes>>
        /\ new[p] = None => val'[p] = Read(file)
        /\ new[p] # None => val'[p] = Read(file) \cup {new[p]}
    BY <1>0, <1>1 DEF OpenTmp, Goto
  <2>. QED
    BY <2>1 DEF Writing, Keeps, AddsOnly, Adds, Critical, Overwriting
<1>2. CASE WriteTmp(p)
  <2>1. /\ pc[p] = "tmp" /\ UNCHANGED <<file, bak, new, val, acked, crashes>>
        /\ \/ pc'[p] = "ready" /\ tmp' = val[p]
           \/ pc'[p] = "failed"
    BY <1>0, <1>2 DEF WriteTmp, Goto, Mine
  <2>. QED
    BY <2>1 DEF Writing, Keeps, AddsOnly, Adds, Critical, Overwriting
<1>3. CASE Rename(p)
  <2>1. /\ pc[p] = "ready" /\ UNCHANGED <<bak, new, val, acked, crashes>>
        /\ \/ pc'[p] = "renamed" /\ file' = tmp
           \/ pc'[p] \in {"fallback", "undone"} /\ UNCHANGED <<file, tmp>>
    BY <1>0, <1>3 DEF Rename, Goto, Mine
  <2>. QED
    BY <1>0, <2>1 DEF Writing, Keeps, AddsOnly, Adds, Critical, Overwriting
<1>4. CASE Backup(p)
  <2>1. /\ pc[p] = "fallback" /\ UNCHANGED <<file, new, val, acked, crashes>>
        /\ \/ pc'[p] = "saved" /\ bak' = file
           \/ pc'[p] \in {"bare", "undone"}
    BY <1>0, <1>4 DEF Backup, Goto, Mine
  <2>. QED
    BY <2>1 DEF Writing, Keeps, AddsOnly, Adds, Critical, Overwriting
<1>5. CASE Truncate(p)
  <2>1. /\ UNCHANGED <<bak, new, val, acked, crashes>>
        /\ \/ pc[p] = "saved" /\ pc'[p] = "trunc" /\ file' = Torn
           \/ pc[p] = "bare" /\ pc'[p] = "cut" /\ file' = Torn
           \/ /\ pc[p] \in {"saved", "bare"} /\ pc'[p] = "undone"
              /\ UNCHANGED file
    BY <1>0, <1>5 DEF Truncate, Goto, Mine
  <2>. QED
    BY <2>1, ReadTorn DEF Writing, Keeps, AddsOnly, Adds, Critical, Overwriting
<1>6. CASE Overwrite(p)
  <2>1. UNCHANGED <<new, val, acked, crashes>>
    BY <1>6 DEF Overwrite, Mine
  <2>2. CASE pc'[p] = "renamed" /\ file' = val[p] /\ pc[p] \in {"trunc", "cut"}
    BY <1>0, <2>1, <2>2 DEF Writing, Keeps, AddsOnly, Adds, Critical,
       Overwriting
  <2>3. CASE /\ pc[p] = "trunc" /\ pc'[p] = "restore"
             /\ file' \in {file, val[p]} /\ UNCHANGED bak
    BY <1>0, <2>1, <2>3 DEF Writing, Keeps, AddsOnly, Adds, Critical,
       Overwriting
  <2>4. "torn" \notin harm'
    OBVIOUS
  <2>. QED
    BY <1>0, <1>6, <2>2, <2>3, <2>4 DEF Overwrite, Goto
<1>7. CASE Restore(p)
  <2>1. /\ pc[p] = "restore" /\ UNCHANGED <<bak, new, val, acked, crashes>>
        /\ pc'[p] = "undone" /\ file' = bak
    BY <1>0, <1>7 DEF Restore, Goto, Mine
  <2>. QED
    BY <1>0, <2>1 DEF Writing, Keeps, AddsOnly, Adds, Critical, Overwriting
<1>8. CASE RemoveTmp(p)
  <2>1. /\ UNCHANGED <<file, bak, new, val, acked, crashes>>
        /\ \/ pc[p] = "renamed" /\ pc'[p] = "ok"
           \/ pc[p] = "undone" /\ pc'[p] = "failed"
    BY <1>0, <1>8 DEF RemoveTmp, Goto, Mine
  <2>. QED
    BY <2>1 DEF Writing, Keeps, AddsOnly, Adds, Critical, Overwriting
<1>. QED
  BY <1>1, <1>2, <1>3, <1>4, <1>5, <1>6, <1>7, <1>8

(* The writer is alone, so the others' steps do not touch what it relies   *)
(* on; the last one to leave has put the files in order.                   *)
LEMMA FileStep == DataInv /\ [Next]_vars => FileInv'
<1> SUFFICES ASSUME DataInv, [Next]_vars, harm' = {} PROVE FileInv'
  BY DEF FileInv
<1>0. /\ TypeOK /\ LockHeld /\ LockHeld' /\ harm = {} /\ FileInv
      /\ pc \in [Procs -> PCs]
      /\ crashes' = 0 => crashes = 0
  BY LockHeldStep, HarmGrows DEF DataInv, IInv, TypeOK
<1>1. ASSUME NEW p \in Procs, NEW q \in Procs,
             pc[p] \in Critical, pc[q] \in Critical
      PROVE p = q
  BY <1>0, <1>1 DEF LockHeld
<1>2. ASSUME UNCHANGED <<file, tmp, bak, acked>>,
             \A q \in Procs : pc'[q] \in Critical <=> pc[q] \in Critical,
             \A q \in Procs : pc[q] \in Critical =>
               pc'[q] = pc[q] /\ val'[q] = val[q] /\ new'[q] = new[q]
      PROVE FileInv'
  BY <1>0, <1>2 DEF FileInv, Quiet, Writing, Keeps, AddsOnly, Adds
<1>3. CASE UNCHANGED vars \/ LockAges
  BY <1>2, <1>3 DEF vars, LockAges, Disk, Mine
<1>4. ASSUME NEW p \in Procs, Step(p) PROVE FileInv'
  <2>1. CASE Load(p) \/ Update(p) \/ Save(p) \/ SeeStale(p) \/ Steal(p)
             \/ GiveUp(p)
    <3>1. CASE Load(p)
      BY <1>2, <3>1 DEF Load, Disk
    <3>2. CASE Update(p) \/ Save(p) \/ GiveUp(p)
      BY <1>0, <1>2, <3>2 DEF Update, Save, GiveUp, Goto, Disk, Critical, TypeOK
    <3>3. CASE SeeStale(p) \/ Steal(p)
      BY <1>0, <1>2, <3>3 DEF SeeStale, Steal, Goto, Disk, Mine, Critical
    <3>. QED
      BY <2>1, <3>1, <3>2, <3>3
  <2>2. CASE Acquire(p)
    <3>1. Quiet
      BY <1>0, <2>2 DEF LockHeld, Acquire, Quiet
    <3>2. pc'[p] = "held" /\ \A q \in Procs : q # p => pc'[q] \notin Critical
      BY <1>0, <2>2, <3>1 DEF Acquire, Goto, Quiet
    <3>3. UNCHANGED <<file, bak, acked, val, new, crashes>>
      BY <2>2 DEF Acquire, Disk, Mine, Bounds
    <3>. QED
      BY <1>0, <3>1, <3>2, <3>3
         DEF FileInv, Quiet, Writing, Keeps, AddsOnly, Critical, Overwriting
  <2>3. CASE OpenTmp(p) \/ WriteTmp(p) \/ Rename(p) \/ Backup(p) \/ Truncate(p)
             \/ Overwrite(p) \/ Restore(p) \/ RemoveTmp(p)
    <3>1. pc[p] \in Critical /\ \E s : Goto(p, s)
      BY <2>3 DEF OpenTmp, WriteTmp, Rename, Backup, Truncate, Overwrite,
         Restore, RemoveTmp, Critical
    <3>2. \A q \in Procs : q # p => pc'[q] \notin Critical
      BY <1>0, <1>1, <3>1 DEF Goto
    <3>3. Writing(p)
      BY <1>0, <3>1 DEF FileInv
    <3>4. Writing(p)' /\ pc'[p] \in Critical
      BY <1>0, <2>3, <3>3, WritingStep
    <3>. QED
      BY <3>2, <3>4 DEF FileInv, Quiet
  <2>4. CASE Unlock(p)
    <3>1. pc[p] \in {"ok", "failed"} /\ pc'[p] = "idle" /\ Writing(p)
      BY <1>0, <2>4 DEF Unlock, Return, Goto, FileInv, Critical
    <3>2. Quiet'
      BY <1>0, <1>1, <2>4, <3>1 DEF Unlock, Return, Goto, Quiet, Critical
    <3>3. /\ UNCHANGED <<file, bak, crashes>>
          /\ acked' = IF pc[p] = "ok" THEN acked \cup Adds(p) ELSE acked
      BY <2>4 DEF Unlock, Return, Disk, Adds
    <3>. QED
      BY <3>1, <3>2, <3>3
         DEF FileInv, Quiet, Writing, Keeps, AddsOnly, Overwriting
  <2>5. CASE Crash(p)
    <3>0. crashes' # 0 /\ UNCHANGED <<file, tmp, bak, acked>>
      BY <1>0, <2>5 DEF Crash, TypeOK, Disk
    <3>1. CASE pc[p] \notin Critical
      BY <1>0, <1>2, <2>5, <3>0, <3>1 DEF Crash, Goto, Critical
    <3>2. CASE pc[p] \in Critical
      <4>1. Writing(p) /\ pc[p] \notin Overwriting
        BY <1>0, <2>5, <3>2 DEF FileInv, Crash
      <4>2. Quiet'
        BY <1>0, <1>1, <2>5, <3>2 DEF Crash, Goto, Quiet, Critical
      <4>. QED
        BY <3>0, <4>1, <4>2 DEF FileInv, Quiet, Writing, Keeps
    <3>. QED
      BY <3>1, <3>2
  <2>. QED
    BY <1>4, <2>1, <2>2, <2>3, <2>4, <2>5 DEF Step
<1>. QED
  BY <1>3, <1>4 DEF Next

LEMMA DataInductive == Spec => []DataInv
<1>1. Init => DataInv
  <2> SUFFICES ASSUME Init PROVE DataInv
    OBVIOUS
  <2>. QED
    BY InitIInv, ReadTorn
       DEF Init, DataInv, LockReleased, FileInv, Quiet, Critical
<1>2. DataInv /\ [Next]_vars => DataInv'
  BY TypeStep, SaveStep, LockHeldStep, ReleasedStep, FileStep
     DEF DataInv, IInv
<1>. QED
  BY <1>1, <1>2, PTL DEF Spec

(* An update that returned nil is in the file from then on, whichever      *)
(* calls fail and whoever dies, until one of the four Harms happens, a     *)
(* failed read taken for an empty file among them (updateJSONFile,         *)
(* readJSONFile, overwriteJSONFileSynced).                                 *)
THEOREM AckedUpdatesStay == Spec => []AckedStored
<1>1. DataInv => AckedStored
  BY DEF DataInv, FileInv, AckedStored, Quiet, Writing, Keeps
<1>. QED
  BY DataInductive, <1>1, PTL

(* Until a harm or a crash, the file shows nothing of a failed update; and *)
(* until a lock is usurped, a lock file whose writer is gone was left by a *)
(* death in the locked part or by a failed removal of it, whatever other   *)
(* calls failed.                                                           *)
THEOREM FailuresLeaveNothing == Spec => []ErrorsLeaveNothing
<1>1. DataInv => ErrorsLeaveNothing
  <2> SUFFICES ASSUME DataInv PROVE FailedLeavesNoTrace
    BY DEF DataInv, ErrorsLeaveNothing
  <2>1. ASSUME harm = {}, crashes = 0
        PROVE Read(file) \subseteq acked \cup {new[p] : p \in Procs}
    <3>1. CASE Quiet
      BY <2>1, <3>1 DEF DataInv, FileInv
    <3>2. ASSUME NEW p \in Procs, pc[p] \in Critical
          PROVE Read(file) \subseteq acked \cup {new[q] : q \in Procs}
      BY <2>1, <3>2 DEF DataInv, FileInv, Writing, AddsOnly, Adds
    <3>. QED
      BY <3>1, <3>2 DEF Quiet
  <2>. QED
    BY <2>1 DEF FailedLeavesNoTrace
<1>. QED
  BY DataInductive, <1>1, PTL

-----------------------------------------------------------------------------
(* The counters of a key.                                                  *)

CoverInv == QuotaTypeOK /\ CountersCover

(* The units request r asks for, each told apart, and those charged in the *)
(* current epoch of a window and not given back: as many as spent says.    *)
(* Counting a set takes the place of summing amounts over the requests.    *)
Units(r) == {r} \X (1 .. Amount[r])

Owed(w) ==
  {p \in Requests \X Nat :
     /\ p[2] \in 1 .. Amount[p[1]]
     /\ stage[p[1]] \in {"charged", "delivered"}
     /\ since[p[1]][w] = epoch[w]}

(* No counter is of a day to come, and no request was charged in an epoch  *)
(* to come.                                                                *)
InThePast ==
  \A w \in Windows :
    /\ stamp[w] <= Today(w)
    /\ \A r \in Requests : since[r][w] <= epoch[w]

SpentIsOwed ==
  \A w \in Windows :
    IsFiniteSet(Owed(w)) /\ spent[w] = Cardinality(Owed(w))

FairInv == QuotaTypeOK /\ InThePast /\ SpentIsOwed /\ CountersFair

LEMMA StampType == ASSUME NEW w \in Windows, NEW d \in Nat
                   PROVE Stamp(w, d) \in Nat
<1>1. d \div DaysPerMonth \in Nat
  BY QuotaAssumption
<1>. QED
  BY <1>1 DEF Stamp, Windows

LEMMA ResetType == ASSUME QuotaTypeOK PROVE ResetPeriods \in [Windows -> Nat]
  BY DEF QuotaTypeOK, ResetPeriods

LEMMA InitCover == QuotaInit => CoverInv
<1> SUFFICES ASSUME QuotaInit PROVE CoverInv
  OBVIOUS
<1>1. QuotaTypeOK
  BY QuotaAssumption DEF QuotaInit, QuotaTypeOK, Stages
<1>2. \A w \in Windows : Counted(w) = 0
  BY DEF QuotaInit, Counted, ResetPeriods
<1>. QED
  BY <1>1, <1>2 DEF CoverInv, CountersCover, QuotaInit

LEMMA QuotaTypeStep == QuotaTypeOK /\ [QuotaNext]_quotaVars => QuotaTypeOK'
<1> SUFFICES ASSUME QuotaTypeOK, [QuotaNext]_quotaVars PROVE QuotaTypeOK'
  OBVIOUS
<1> USE QuotaAssumption
<1>1. CASE UNCHANGED quotaVars
  BY <1>1 DEF QuotaTypeOK, quotaVars
<1>2. ASSUME NEW r \in Requests, Accept(r) PROVE QuotaTypeOK'
  BY <1>2 DEF QuotaTypeOK, Accept, key, history, Stages
<1>3. ASSUME NEW r \in Requests, Charge(r) PROVE QuotaTypeOK'
  <2>1. Amount[r] \in Nat
    OBVIOUS
  <2>2. used' \in [Windows -> Nat]
    BY <1>3, <2>1, ResetType DEF Charge
  <2>3. stamp' \in [Windows -> Nat]
    BY <1>3, StampType DEF Charge, Today, QuotaTypeOK
  <2>4. spent' \in [Windows -> Int]
    BY <1>3, <2>1 DEF Charge, QuotaTypeOK
  <2>. QED
    BY <1>3, <2>2, <2>3, <2>4 DEF QuotaTypeOK, Charge, Stages
<1>4. ASSUME NEW r \in Requests, Refuse(r) PROVE QuotaTypeOK'
  BY <1>4 DEF QuotaTypeOK, Refuse, key, history, Stages
<1>5. ASSUME NEW r \in Requests, Deliver(r) PROVE QuotaTypeOK'
  BY <1>5 DEF QuotaTypeOK, Deliver, key, history, Stages
<1>6. ASSUME NEW r \in Requests, Refund(r) PROVE QuotaTypeOK'
  <2>1. Amount[r] \in Nat
    OBVIOUS
  <2>2. used' \in [Windows -> Nat]
    BY <1>6, <2>1 DEF Refund, QuotaTypeOK, RefundedCounters, Clamp
  <2>3. spent' \in [Windows -> Int] /\ back' \in [Windows -> Nat]
    BY <1>6, <2>1 DEF Refund, QuotaTypeOK
  <2>. QED
    BY <1>6, <2>2, <2>3 DEF QuotaTypeOK, Refund, Stages
<1>7. ASSUME NEW ws, Renew(ws)
      PROVE /\ epoch' \in [Windows -> Nat]
            /\ since' \in [Requests -> [Windows -> Nat]]
            /\ spent' \in [Windows -> Int] /\ back' \in [Windows -> Nat]
  BY <1>7 DEF Renew, QuotaTypeOK
<1>8. CASE NextDay
  <2>1. day' \in 0 .. MaxDay
    BY <1>8 DEF NextDay, QuotaTypeOK
  <2>. QED
    BY <1>7, <1>8, <2>1 DEF NextDay, QuotaTypeOK, key
<1>9. Edit => edits' \in 0 .. MaxEdit
  BY DEF Edit, QuotaTypeOK
<1>10. ASSUME NEW w \in Windows, SetQuota(w) PROVE QuotaTypeOK'
  BY <1>9, <1>10 DEF SetQuota, QuotaTypeOK, history
<1>11. ASSUME NEW w \in Windows, ResetUsed(w) PROVE QuotaTypeOK'
  <2>1. Today(w) \in Nat
    BY StampType DEF Today, QuotaTypeOK
  <2>. QED
    BY <1>7, <1>9, <1>11, <2>1 DEF ResetUsed, QuotaTypeOK
<1>12. CASE SetEnabled
  BY <1>9, <1>12 DEF SetEnabled, QuotaTypeOK, history
<1>13. CASE Delete
  BY <1>9, <1>13 DEF Delete, QuotaTypeOK, history
<1>. QED
  BY <1>1, <1>2, <1>3, <1>4, <1>5, <1>6, <1>8, <1>10, <1>11, <1>12, <1>13
     DEF QuotaNext

(* A charge adds the same to the counter and to what was spent; a refund   *)
(* takes as much from the counter as from what was spent, or adds it to    *)
(* what was given back for an earlier epoch; a new epoch starts with       *)
(* nothing spent.                                                          *)
LEMMA CoverStep == CoverInv /\ [QuotaNext]_quotaVars => CountersCover'
<1> SUFFICES ASSUME CoverInv, [QuotaNext]_quotaVars, exists', NEW w \in Windows
             PROVE (Counted(w) + back[w] >= spent[w])'
  BY DEF CountersCover
<1>0. /\ QuotaTypeOK /\ QuotaTypeOK' /\ ResetPeriods \in [Windows -> Nat]
      /\ ResetPeriods' \in [Windows -> Nat]
  BY QuotaTypeStep, ResetType DEF CoverInv, QuotaTypeOK, ResetPeriods
<1>1. exists
  BY DEF QuotaNext, quotaVars, key, Accept, Charge, Refuse, Deliver, Refund, NextDay,
     SetQuota, ResetUsed, SetEnabled, Delete, Edit
<1>2. Counted(w) + back[w] >= spent[w]
  BY <1>1 DEF CoverInv, CountersCover
<1>3. /\ used[w] \in Nat /\ used'[w] \in Nat /\ spent[w] \in Int
      /\ spent'[w] \in Int /\ back[w] \in Nat /\ back'[w] \in Nat
      /\ Counted(w) \in Nat /\ Counted(w)' \in Nat
  BY <1>0 DEF QuotaTypeOK, Counted
<1>4. Counted(w) = (IF stamp[w] = Today(w) THEN used[w] ELSE 0)
  BY DEF Counted, ResetPeriods
<1>5. Counted(w)' = (IF stamp'[w] = Today(w)' THEN used'[w] ELSE 0)
  BY DEF Counted, ResetPeriods
<1>6. ASSUME used'[w] = used[w], stamp'[w] = stamp[w], day' = day,
             spent'[w] = spent[w], back'[w] = back[w]
      PROVE (Counted(w) + back[w] >= spent[w])'
  BY <1>2, <1>4, <1>5, <1>6 DEF Today
<1>7. ASSUME NEW r \in Requests, Charge(r)
      PROVE (Counted(w) + back[w] >= spent[w])'
  <2>1. /\ used'[w] = ResetPeriods[w] + Amount[r] /\ stamp'[w] = Today(w)
        /\ day' = day /\ spent'[w] = spent[w] + Amount[r] /\ back' = back
        /\ Amount[r] \in Nat
    BY <1>7, QuotaAssumption DEF Charge
  <2>2. Counted(w)' = Counted(w) + Amount[r]
    BY <1>5, <2>1 DEF Counted, Today
  <2>. QED
    BY <1>2, <1>3, <2>1, <2>2
<1>8. ASSUME NEW r \in Requests, Refund(r)
      PROVE (Counted(w) + back[w] >= spent[w])'
  <2>1. /\ used'[w] = Clamp(used[w] - Amount[r]) /\ stamp' = stamp
        /\ day' = day /\ Amount[r] \in Nat
        /\ \/ spent'[w] = spent[w] - Amount[r] /\ back'[w] = back[w]
           \/ spent'[w] = spent[w] /\ back'[w] = back[w] + Amount[r]
    BY <1>1, <1>8, QuotaAssumption, <1>0
       DEF Refund, RefundedCounters, QuotaTypeOK
  <2>2. Counted(w)' >= Counted(w) - Amount[r]
    BY <1>3, <1>4, <1>5, <2>1 DEF Clamp, Today
  <2>. QED
    BY <1>2, <1>3, <2>1, <2>2
<1>9. ASSUME NEW ws, Renew(ws)
      PROVE \/ w \in ws /\ spent'[w] = 0 /\ back'[w] = 0
            \/ w \notin ws /\ spent'[w] = spent[w] /\ back'[w] = back[w]
  BY <1>9 DEF Renew
<1>10. CASE NextDay
  <2>1. CASE Stamp(w, day + 1) # Stamp(w, day)
    BY <1>3, <1>9, <1>10, <2>1 DEF NextDay
  <2>2. CASE Stamp(w, day + 1) = Stamp(w, day)
    BY <1>2, <1>4, <1>5, <1>9, <1>10, <2>2 DEF NextDay, key, Today
  <2>. QED
    BY <2>1, <2>2
<1>11. ASSUME NEW v \in Windows, ResetUsed(v)
       PROVE (Counted(w) + back[w] >= spent[w])'
  <2>1. CASE v = w
    BY <1>3, <1>9, <1>11, <2>1 DEF ResetUsed
  <2>2. CASE v # w
    BY <1>2, <1>4, <1>5, <1>9, <1>11, <2>2, <1>0
       DEF ResetUsed, Today, QuotaTypeOK
  <2>. QED
    BY <2>1, <2>2
<1>12. ASSUME \/ UNCHANGED quotaVars \/ SetEnabled \/ Delete
              \/ \E v \in Windows : SetQuota(v)
              \/ \E r \in Requests : Accept(r) \/ Refuse(r) \/ Deliver(r)
       PROVE (Counted(w) + back[w] >= spent[w])'
  BY <1>6, <1>12 DEF quotaVars, key, history, SetEnabled, Delete, SetQuota, Accept,
     Refuse, Deliver
<1>. QED
  BY <1>7, <1>8, <1>10, <1>11, <1>12 DEF QuotaNext

LEMMA CoverInductive == QuotaSpec => []CoverInv
<1>1. CoverInv /\ [QuotaNext]_quotaVars => CoverInv'
  BY QuotaTypeStep, CoverStep DEF CoverInv
<1>. QED
  BY InitCover, <1>1, PTL DEF QuotaSpec

(* The counters of a key stay natural numbers, whatever is refunded when.  *)
THEOREM QuotaTypes == QuotaSpec => []QuotaTypeOK
<1>1. CoverInv => QuotaTypeOK
  BY DEF CoverInv
<1>. QED
  BY CoverInductive, <1>1, PTL

(* The counters cover the current windows up to late refunds.              *)
THEOREM CountersCovered == QuotaSpec => []CountersCover
<1>1. CoverInv => CountersCover
  BY DEF CoverInv
<1>. QED
  BY CoverInductive, <1>1, PTL

(* No charge exceeds an allowance by more than the late refunds.           *)
THEOREM QuotaRespected == QuotaSpec => ChargeWithinQuota
<1> DEFINE Within(r) ==
      stage[r] = "accepted" /\ stage'[r] = "charged" =>
        \A w \in Windows : unlimited[w] \/ spent'[w] <= quota[w] + back[w]
<1>1. CoverInv /\ [QuotaNext]_quotaVars => [\A r \in Requests : Within(r)]_quotaVars
  <2> SUFFICES ASSUME CoverInv, [QuotaNext]_quotaVars, NEW r \in Requests,
                      stage[r] = "accepted", stage'[r] = "charged",
                      NEW w \in Windows, ~unlimited[w]
               PROVE spent'[w] <= quota[w] + back[w]
    OBVIOUS
  <2>0. QuotaTypeOK
    BY DEF CoverInv
  <2>1. Charge(r)
    BY <2>0 DEF QuotaNext, quotaVars, key, history, QuotaTypeOK, Accept, Charge, Refuse,
       Deliver, Refund, NextDay, SetQuota, ResetUsed, SetEnabled, Delete
  <2>2. /\ quota[w] - ResetPeriods[w] >= Amount[r]
        /\ spent'[w] = spent[w] + Amount[r] /\ exists
    BY <2>1 DEF Charge, Enough
  <2>3. Counted(w) + back[w] >= spent[w] /\ Counted(w) = ResetPeriods[w]
    BY <2>2 DEF CoverInv, CountersCover, Counted
  <2>4. /\ Amount[r] \in Nat /\ quota[w] \in Int /\ spent[w] \in Int
        /\ back[w] \in Nat /\ ResetPeriods[w] \in Nat
    <3>1. Amount[r] \in Nat
      BY QuotaAssumption
    <3>2. quota[w] \in Limits \cup {0} /\ spent[w] \in Int /\ back[w] \in Nat
      BY <2>0 DEF QuotaTypeOK
    <3>3. ResetPeriods[w] \in Nat
      BY <2>0, ResetType
    <3>4. Limits \subseteq Int
      BY QuotaAssumption
    <3>5. quota[w] \in Int
      <4>1. CASE quota[w] \in Limits
        BY <3>4, <4>1
      <4>2. CASE quota[w] = 0
        BY <4>2
      <4>. QED
        BY <3>2, <4>1, <4>2
    <3>. QED
      BY <3>1, <3>2, <3>3, <3>5
  <2>. QED
    BY <2>2, <2>3, <2>4
<1>. QED
  BY CoverInductive, <1>1, PTL DEF QuotaSpec, ChargeWithinQuota

-----------------------------------------------------------------------------
(* A later day is not in an earlier window.                                *)
LEMMA StampMonotone == ASSUME NEW w \in Windows, NEW d \in Nat
                       PROVE Stamp(w, d) <= Stamp(w, d + 1)
<1>1. d \div DaysPerMonth <= (d + 1) \div DaysPerMonth
  <2> DEFINE n == DaysPerMonth
             a == d \div n
             b == (d + 1) \div n
  <2>0. n \in Nat /\ n > 0
    BY QuotaAssumption
  <2>1. /\ a \in Nat /\ b \in Nat
        /\ a * n <= d /\ d + 1 < (b + 1) * n
    BY <2>0
  <2>. HIDE DEF a, b, n
  <2>2. SUFFICES ASSUME b < a PROVE FALSE
    BY <2>1 DEF a, b, n
  <2>3. (b + 1) * n <= a * n
    BY <2>0, <2>1, <2>2
  <2>. QED
    BY <2>0, <2>1, <2>3
<1>. QED
  BY <1>1 DEF Stamp, Windows

LEMMA UnitsCount == ASSUME NEW r \in Requests
                    PROVE /\ IsFiniteSet(Units(r))
                          /\ Cardinality(Units(r)) = Amount[r]
<1>1. Amount[r] \in Nat
  BY QuotaAssumption
<1>2. IsFiniteSet(1 .. Amount[r]) /\ Cardinality(1 .. Amount[r]) = Amount[r]
  BY <1>1, FS_Interval
<1>3. IsFiniteSet({r}) /\ Cardinality({r}) = 1
  BY FS_Singleton
<1>4. /\ IsFiniteSet({r} \X (1 .. Amount[r]))
      /\ Cardinality({r} \X (1 .. Amount[r])) =
           Cardinality({r}) * Cardinality(1 .. Amount[r])
  BY <1>2, <1>3, FS_Product, Zenon
<1>. QED
  BY <1>1, <1>2, <1>3, <1>4 DEF Units

(* Two requests have no unit in common.                                    *)
LEMMA UnitsMember == ASSUME NEW r \in Requests, NEW p
                     PROVE p \in Units(r) <=> /\ p \in Requests \X Nat
                                              /\ p[1] = r
                                              /\ p[2] \in 1 .. Amount[r]
<1>1. Amount[r] \in Nat
  BY QuotaAssumption
<1>. QED
  BY <1>1 DEF Units

LEMMA InitFair == QuotaInit => FairInv
<1> SUFFICES ASSUME QuotaInit PROVE FairInv
  OBVIOUS
<1>1. QuotaTypeOK
  BY InitCover DEF CoverInv
<1>2. InThePast
  <2>1. 0 \div DaysPerMonth = 0
    BY QuotaAssumption
  <2>. QED
    BY <2>1 DEF QuotaInit, InThePast, Today, Stamp, Windows
<1>3. SpentIsOwed
  <2>1. ASSUME NEW w \in Windows PROVE Owed(w) = {}
    BY DEF QuotaInit, Owed
  <2>. QED
    BY <2>1, FS_EmptySet DEF SpentIsOwed, QuotaInit
<1>4. CountersFair
  BY DEF CountersFair, Counted, ResetPeriods, QuotaInit
<1>. QED
  BY <1>1, <1>2, <1>3, <1>4 DEF FairInv

(* A charge owes the units of its request in every window, a refund within *)
(* the epoch takes them back, and a new epoch owes nothing.                *)
LEMMA OwedStep == QuotaTypeOK /\ InThePast /\ SpentIsOwed /\ [QuotaNext]_quotaVars
                    => SpentIsOwed'
<1> SUFFICES ASSUME QuotaTypeOK, InThePast, SpentIsOwed, [QuotaNext]_quotaVars,
                    NEW w \in Windows
             PROVE (IsFiniteSet(Owed(w)) /\ spent[w] = Cardinality(Owed(w)))'
  BY DEF SpentIsOwed
<1> DEFINE Goal == (IsFiniteSet(Owed(w)) /\ spent[w] = Cardinality(Owed(w)))'
<1>0. IsFiniteSet(Owed(w)) /\ spent[w] = Cardinality(Owed(w))
  BY DEF SpentIsOwed
<1>1. /\ stage \in [Requests -> Stages] /\ epoch \in [Windows -> Nat]
      /\ since \in [Requests -> [Windows -> Nat]]
      /\ \A r \in Requests : since[r][w] <= epoch[w]
  BY DEF QuotaTypeOK, InThePast
<1>2. ASSUME spent'[w] = spent[w], epoch'[w] = epoch[w], since' = since,
             \A r \in Requests :
               stage'[r] \in {"charged", "delivered"}
                 <=> stage[r] \in {"charged", "delivered"}
      PROVE Goal
  <2>1. Owed(w)' = Owed(w)
    BY <1>2 DEF Owed
  <2>. QED
    BY <1>0, <1>2, <2>1
<1>3. ASSUME NEW r \in Requests, Charge(r) PROVE Goal
  <2>1. /\ stage[r] = "accepted" /\ stage' = [stage EXCEPT ![r] = "charged"]
        /\ since' = [since EXCEPT ![r] = epoch] /\ epoch' = epoch
        /\ spent'[w] = spent[w] + Amount[r]
    BY <1>3 DEF Charge
  <2>2. Owed(w)' = Owed(w) \cup Units(r)
    <3>1. ASSUME NEW q \in Requests, q # r
          PROVE stage'[q] = stage[q] /\ since'[q] = since[q]
      BY <1>1, <2>1, <3>1
    <3>2. stage'[r] = "charged" /\ since'[r][w] = epoch'[w]
      BY <1>1, <2>1
    <3>3. ASSUME NEW p PROVE p \in Owed(w)' <=> p \in Owed(w) \cup Units(r)
      <4>1. CASE p \in Requests \X Nat
        BY <2>1, <3>1, <3>2, <4>1, UnitsMember DEF Owed
      <4>2. CASE p \notin Requests \X Nat
        BY <4>2, UnitsMember DEF Owed
      <4>. QED
        BY <4>1, <4>2
    <3>. QED
      BY <3>3
  <2>3. Owed(w) \cap Units(r) = {}
    BY <2>1, UnitsMember DEF Owed
  <2>4. /\ IsFiniteSet(Owed(w) \cup Units(r))
        /\ Cardinality(Owed(w) \cup Units(r)) =
             Cardinality(Owed(w)) + Cardinality(Units(r)) - Cardinality({})
    BY <1>0, <2>3, UnitsCount, FS_Union
  <2>. QED
    BY <1>0, <2>1, <2>2, <2>4, UnitsCount, FS_EmptySet, QuotaAssumption,
       FS_CardinalityType
<1>4. ASSUME NEW r \in Requests, Refund(r) PROVE Goal
  <2>1. /\ stage[r] = "charged" /\ stage' = [stage EXCEPT ![r] = "refunded"]
        /\ since' = since /\ epoch' = epoch
        /\ spent'[w] = IF since[r][w] = epoch[w] THEN spent[w] - Amount[r]
                       ELSE spent[w]
    BY <1>4 DEF Refund
  <2>2. Owed(w)' = Owed(w) \ Units(r)
    <3>1. ASSUME NEW q \in Requests, q # r PROVE stage'[q] = stage[q]
      BY <1>1, <2>1, <3>1
    <3>2. stage'[r] = "refunded"
      BY <1>1, <2>1
    <3>3. ASSUME NEW p PROVE p \in Owed(w)' <=> p \in Owed(w) \ Units(r)
      <4>1. CASE p \in Requests \X Nat
        BY <2>1, <3>1, <3>2, <4>1, UnitsMember DEF Owed
      <4>2. CASE p \notin Requests \X Nat
        BY <4>2, UnitsMember DEF Owed
      <4>. QED
        BY <4>1, <4>2
    <3>. QED
      BY <3>3
  <2>3. /\ IsFiniteSet(Owed(w) \ Units(r))
        /\ Cardinality(Owed(w) \ Units(r)) =
             Cardinality(Owed(w)) - Cardinality(Owed(w) \cap Units(r))
    BY <1>0, FS_Difference
  <2>4. CASE since[r][w] = epoch[w]
    <3>1. Owed(w) \cap Units(r) = Units(r)
      BY <2>1, <2>4, UnitsMember DEF Owed
    <3>. QED
      BY <1>0, <2>1, <2>2, <2>3, <2>4, <3>1, UnitsCount
  <2>5. CASE since[r][w] # epoch[w]
    <3>1. Owed(w) \ Units(r) = Owed(w)
      BY <2>5, UnitsMember DEF Owed
    <3>. QED
      BY <1>0, <2>1, <2>2, <2>5, <3>1
  <2>. QED
    BY <2>4, <2>5
<1>5. ASSUME NEW ws, Renew(ws), stage' = stage PROVE Goal
  <2>1. CASE w \in ws
    <3>1. epoch'[w] = epoch[w] + 1 /\ spent'[w] = 0 /\ since' = since
      BY <1>5, <2>1 DEF Renew
    <3>2. \A r \in Requests : since'[r][w] # epoch'[w]
      BY <1>1, <3>1
    <3>3. Owed(w)' = {}
      BY <3>2 DEF Owed
    <3>. QED
      BY <3>1, <3>3, FS_EmptySet
  <2>2. CASE w \notin ws
    <3>1. epoch'[w] = epoch[w] /\ spent'[w] = spent[w] /\ since' = since
      BY <1>5, <2>2 DEF Renew
    <3>. QED
      BY <1>2, <1>5, <3>1
  <2>. QED
    BY <2>1, <2>2
<1>6. ASSUME \/ UNCHANGED quotaVars \/ SetEnabled \/ Delete
             \/ \E v \in Windows : SetQuota(v)
      PROVE Goal
  BY <1>2, <1>6 DEF quotaVars, history, SetEnabled, Delete, SetQuota
<1>7. ASSUME NEW r \in Requests, Accept(r) \/ Refuse(r) \/ Deliver(r)
      PROVE Goal
  BY <1>1, <1>2, <1>7 DEF history, Accept, Refuse, Deliver
<1>. QED
  BY <1>3, <1>4, <1>5, <1>6, <1>7 DEF QuotaNext, NextDay, ResetUsed

LEMMA PastStep == QuotaTypeOK /\ InThePast /\ [QuotaNext]_quotaVars => InThePast'
<1> SUFFICES ASSUME QuotaTypeOK, InThePast, [QuotaNext]_quotaVars, NEW w \in Windows
             PROVE /\ (stamp[w] <= Today(w))'
                   /\ \A r \in Requests : (since[r][w] <= epoch[w])'
  BY DEF InThePast
<1>0. /\ stamp \in [Windows -> Nat] /\ epoch \in [Windows -> Nat]
      /\ since \in [Requests -> [Windows -> Nat]] /\ day \in Nat
      /\ stamp[w] <= Today(w) /\ \A r \in Requests : since[r][w] <= epoch[w]
      /\ Today(w) \in Nat
  BY StampType DEF QuotaTypeOK, InThePast, Today
<1>1. ASSUME NEW r \in Requests, Charge(r)
      PROVE /\ (stamp[w] <= Today(w))'
            /\ \A q \in Requests : (since[q][w] <= epoch[w])'
  BY <1>0, <1>1 DEF Charge, Today
<1>2. ASSUME NEW ws, Renew(ws)
      PROVE \A r \in Requests : (since[r][w] <= epoch[w])'
  BY <1>0, <1>2 DEF Renew
<1>3. ASSUME NextDay PROVE (stamp[w] <= Today(w))'
  <2>1. Stamp(w, day) <= Stamp(w, day + 1) /\ Stamp(w, day + 1) \in Nat
    BY <1>0, StampMonotone, StampType
  <2>. QED
    BY <1>0, <1>3, <2>1 DEF NextDay, key, Today
<1>4. ASSUME NEW v \in Windows, ResetUsed(v) PROVE (stamp[w] <= Today(w))'
  BY <1>0, <1>4 DEF ResetUsed, Today
<1>5. ASSUME \/ UNCHANGED quotaVars \/ SetEnabled \/ Delete
             \/ \E v \in Windows : SetQuota(v)
             \/ \E r \in Requests :
                  Accept(r) \/ Refuse(r) \/ Deliver(r) \/ Refund(r)
      PROVE /\ (stamp[w] <= Today(w))'
            /\ \A r \in Requests : (since[r][w] <= epoch[w])'
  BY <1>0, <1>5 DEF quotaVars, key, history, SetEnabled, Delete, SetQuota, Accept,
     Refuse, Deliver, Refund, Today
<1>. QED
  BY <1>1, <1>2, <1>3, <1>4, <1>5 DEF QuotaNext, NextDay, ResetUsed

(* A refund within the epoch takes no more than is owed, so clamping the   *)
(* counter at 0 never leaves it above what is still spent.                 *)
LEMMA FairStep == FairInv /\ [QuotaNext]_quotaVars => CountersFair'
<1> SUFFICES ASSUME FairInv, [QuotaNext]_quotaVars, exists', NEW w \in Windows
             PROVE (Counted(w) <= spent[w])'
  BY DEF CountersFair
<1>0. /\ QuotaTypeOK /\ QuotaTypeOK' /\ ResetPeriods \in [Windows -> Nat]
      /\ ResetPeriods' \in [Windows -> Nat] /\ InThePast
  BY QuotaTypeStep, ResetType DEF FairInv, QuotaTypeOK, ResetPeriods
<1>1. exists
  BY DEF QuotaNext, quotaVars, key, Accept, Charge, Refuse, Deliver, Refund, NextDay,
     SetQuota, ResetUsed, SetEnabled, Delete, Edit
<1>2. Counted(w) <= spent[w]
  BY <1>1 DEF FairInv, CountersFair
<1>3. /\ used[w] \in Nat /\ used'[w] \in Nat /\ spent[w] \in Int
      /\ spent'[w] \in Int /\ stamp[w] \in Nat
      /\ Counted(w) \in Nat /\ Counted(w)' \in Nat
  BY <1>0 DEF QuotaTypeOK, Counted
<1>4. Counted(w) = (IF stamp[w] = Today(w) THEN used[w] ELSE 0)
  BY DEF Counted, ResetPeriods
<1>5. Counted(w)' = (IF stamp'[w] = Today(w)' THEN used'[w] ELSE 0)
  BY DEF Counted, ResetPeriods
<1>6. spent'[w] \in Nat
  <2>1. SpentIsOwed'
    BY OwedStep DEF FairInv
  <2>. QED
    BY <2>1, FS_CardinalityType DEF SpentIsOwed
<1>7. ASSUME used'[w] = used[w], stamp'[w] = stamp[w], day' = day,
             spent'[w] = spent[w]
      PROVE (Counted(w) <= spent[w])'
  BY <1>2, <1>4, <1>5, <1>7 DEF Today
<1>8. ASSUME NEW r \in Requests, Charge(r) PROVE (Counted(w) <= spent[w])'
  <2>1. /\ used'[w] = ResetPeriods[w] + Amount[r] /\ stamp'[w] = Today(w)
        /\ day' = day /\ spent'[w] = spent[w] + Amount[r]
        /\ Amount[r] \in Nat
    BY <1>8, QuotaAssumption DEF Charge
  <2>2. Counted(w)' = Counted(w) + Amount[r]
    BY <1>5, <2>1 DEF Counted, Today
  <2>. QED
    BY <1>2, <1>3, <2>1, <2>2
<1>9. ASSUME NEW r \in Requests, Refund(r) PROVE (Counted(w) <= spent[w])'
  <2>1. /\ used'[w] = Clamp(used[w] - Amount[r]) /\ stamp' = stamp
        /\ day' = day /\ Amount[r] \in Nat
        /\ spent'[w] \in {spent[w] - Amount[r], spent[w]}
    BY <1>1, <1>9, QuotaAssumption, <1>0
       DEF Refund, RefundedCounters, QuotaTypeOK
  <2>2. \/ Counted(w)' = 0
        \/ Counted(w)' = Counted(w) - Amount[r]
    BY <1>3, <1>4, <1>5, <2>1 DEF Clamp, Today
  <2>. QED
    BY <1>2, <1>3, <1>6, <2>1, <2>2
<1>10. ASSUME NEW ws, Renew(ws)
       PROVE \/ w \in ws /\ spent'[w] = 0
             \/ w \notin ws /\ spent'[w] = spent[w]
  BY <1>10 DEF Renew
<1>11. CASE NextDay
  <2>1. CASE Stamp(w, day + 1) # Stamp(w, day)
    <3>1. /\ stamp[w] <= Stamp(w, day) /\ Stamp(w, day) <= Stamp(w, day + 1)
          /\ Stamp(w, day) \in Nat /\ Stamp(w, day + 1) \in Nat
      BY <1>0, StampMonotone, StampType DEF QuotaTypeOK, InThePast, Today
    <3>2. stamp'[w] = stamp[w] /\ Today(w)' = Stamp(w, day + 1)
      BY <1>11 DEF NextDay, key, Today
    <3>3. Counted(w)' = 0
      BY <1>3, <1>5, <2>1, <3>1, <3>2
    <3>. QED
      BY <1>6, <3>3
  <2>2. CASE Stamp(w, day + 1) = Stamp(w, day)
    BY <1>2, <1>4, <1>5, <1>10, <1>11, <2>2 DEF NextDay, key, Today
  <2>. QED
    BY <2>1, <2>2
<1>12. ASSUME NEW v \in Windows, ResetUsed(v)
       PROVE (Counted(w) <= spent[w])'
  <2>1. CASE v = w
    <3>1. used'[w] = 0
      BY <1>0, <1>12, <2>1 DEF ResetUsed, QuotaTypeOK
    <3>. QED
      BY <1>5, <1>6, <3>1
  <2>2. CASE v # w
    BY <1>2, <1>4, <1>5, <1>10, <1>12, <2>2, <1>0
       DEF ResetUsed, Today, QuotaTypeOK
  <2>. QED
    BY <2>1, <2>2
<1>13. ASSUME \/ UNCHANGED quotaVars \/ SetEnabled \/ Delete
              \/ \E v \in Windows : SetQuota(v)
              \/ \E r \in Requests : Accept(r) \/ Refuse(r) \/ Deliver(r)
       PROVE (Counted(w) <= spent[w])'
  BY <1>7, <1>13 DEF quotaVars, key, history, SetEnabled, Delete, SetQuota, Accept,
     Refuse, Deliver
<1>. QED
  BY <1>8, <1>9, <1>11, <1>12, <1>13 DEF QuotaNext

LEMMA FairInductive == QuotaSpec => []FairInv
<1>1. FairInv /\ [QuotaNext]_quotaVars => FairInv'
  BY QuotaTypeStep, PastStep, OwedStep, FairStep DEF FairInv
<1>. QED
  BY InitFair, <1>1, PTL DEF QuotaSpec

(* A user is never charged for more than was spent in the current windows: *)
(* what the counters show is at most the charges of the epoch that were    *)
(* not refunded (refundQuota, resetPeriods).                               *)
THEOREM CountersStayFair == QuotaSpec => []CountersFair
<1>1. FairInv => CountersFair
  BY DEF FairInv
<1>. QED
  BY FairInductive, <1>1, PTL

=============================================================================
