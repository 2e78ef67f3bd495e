----------------------------- MODULE JSONStore -----------------------------
(***************************************************************************)
(* One JSON file under data/ and the processes that share it (store.go).   *)
(* A process serialises its own writers with Store.mu, so it has at most   *)
(* one writer at a time; processes are kept apart only by the lock file    *)
(* path+".lock", which any waiter may remove once it looks 30 s old.       *)
(* Readers take no lock file.  A file is the set of the entries stored in  *)
(* it: what the callback of an Update adds is one fresh entry.             *)
(* Every syscall is one step, and a process may die between any two.       *)
(***************************************************************************)
EXTENDS Naturals, FiniteSets

CONSTANTS
  Procs,          \* the processes: api, worker
  Entries,        \* the entries updates may add, each by one update
  Absent, Torn,   \* no such file; a file that does not parse
  None,           \* no lock file, no snapshot, no entry
  MaxCrashes,     \* bound: processes that die
  MaxErrors,      \* bound: system calls that fail
  MaxSlow         \* bound: live holders of the lock slower than 30 s

ASSUME StoreAssumption ==
  /\ MaxCrashes \in Nat /\ MaxErrors \in Nat /\ MaxSlow \in Nat
  /\ None \notin [by : Procs, stale : BOOLEAN] /\ None \notin Entries
  /\ \A c \in SUBSET Entries : c \notin {Absent, Torn, None}

VARIABLES
  file, tmp, bak, \* path, path+".tmp", path+".bak"
  lock,           \* None, or the lock file: who created it, is it 30 s old
  pc, val,        \* per process: the step of its writer, what it will write
  snap,           \* per process: what a Load returned, not yet saved, or None
  new,            \* per process: the entry its update adds (None: a Save)
  acked,          \* entries whose Update has returned nil
  harm,           \* history: what has gone wrong so far, see Harms
  orphaned,       \* history: the lock file there is was left behind
  crashes, errors, slow

vars == <<file, tmp, bak, lock, pc, val, snap, new, acked, harm, orphaned,
          crashes, errors, slow>>

Contents == SUBSET Entries
Files == {Absent, Torn} \cup Contents
Harms == {"usurped",    \* a waiter removed the lock file of a live writer
          "unread",     \* an update took a file it failed to read for empty
          "outdated",   \* Save wrote what a Load had returned, not the file's
          "torn"}       \* the in-place overwrite died, or could not be undone

(* The locked part; "bare" and "cut" are "saved" and "trunc" of a writer   *)
(* that has no copy of the original (hadOriginal is false).                *)
Critical == {"held", "tmp", "ready", "fallback", "saved", "bare", "trunc",
             "cut", "restore", "renamed", "undone", "ok", "failed"}
Overwriting == {"trunc", "cut", "restore"}
PCs == Critical \cup {"idle", "want", "steal"}

TypeOK ==
  /\ file \in Files /\ tmp \in Files /\ bak \in Files
  /\ lock \in {None} \cup [by : Procs, stale : BOOLEAN]
  /\ pc \in [Procs -> PCs] /\ val \in [Procs -> Contents]
  /\ snap \in [Procs -> {None} \cup Contents]
  /\ new \in [Procs -> Entries \cup {None}]
  /\ acked \subseteq Entries /\ harm \subseteq Harms /\ orphaned \in BOOLEAN
  /\ crashes \in 0 .. MaxCrashes /\ errors \in 0 .. MaxErrors
  /\ slow \in 0 .. MaxSlow

Init ==
  /\ file = Absent /\ tmp = Absent /\ bak = Absent /\ lock = None
  /\ pc = [p \in Procs |-> "idle"] /\ val = [p \in Procs |-> {}]
  /\ snap = [p \in Procs |-> None] /\ new = [p \in Procs |-> None]
  /\ acked = {} /\ harm = {} /\ orphaned = FALSE
  /\ crashes = 0 /\ errors = 0 /\ slow = 0

-----------------------------------------------------------------------------
(* readJSONFile: whatever cannot be read or parsed is the empty fallback.  *)
Read(f) == IF f \in {Absent, Torn} THEN {} ELSE f

Used == acked \cup UNION {Read(f) : f \in {file, tmp, bak}}
        \cup {new[p] : p \in Procs}

Goto(p, s) == pc' = [pc EXCEPT ![p] = s]
Fault == errors < MaxErrors /\ errors' = errors + 1
Disk == <<file, tmp, bak>>
Lock == <<lock, orphaned>>
Mine == <<val, snap, new>>
Bounds == <<crashes, errors, slow>>

(* Load: under the read lock of the process, hence while it does not       *)
(* write; if the read fails, the fallback.  recoverUnfinishedTasks,        *)
(* cleanupOldTasks, handleChatConversationID and UpdateRegisterConfig keep *)
(* the result and save it later.                                           *)
Load(p) ==
  /\ pc[p] = "idle" /\ snap[p] = None
  /\ \/ snap' = [snap EXCEPT ![p] = Read(file)] /\ UNCHANGED errors
     \/ Read(file) # {} /\ Fault /\ snap' = [snap EXCEPT ![p] = {}]
  /\ UNCHANGED <<Disk, Lock, pc, val, new, acked, harm, crashes, slow>>

(* Update takes the write lock of the process and asks for the lock file.  *)
Update(p) ==
  /\ pc[p] = "idle" /\ Goto(p, "want")
  /\ \E e \in Entries \ Used : new' = [new EXCEPT ![p] = e]
  /\ UNCHANGED <<Disk, Lock, val, snap, acked, harm, Bounds>>

(* Save does the same with a value its caller computed from a Load.        *)
Save(p) ==
  /\ pc[p] = "idle" /\ snap[p] # None /\ Goto(p, "want")
  /\ new' = [new EXCEPT ![p] = None]
  /\ UNCHANGED <<Disk, Lock, val, snap, acked, harm, Bounds>>

-----------------------------------------------------------------------------
(* Mutant: without O_EXCL.                                                *)
AcquireShared(p) ==
  /\ pc[p] = "want" /\ orphaned' = FALSE
  /\ lock' = [by |-> p, stale |-> FALSE] /\ Goto(p, "held")
  /\ UNCHANGED <<Disk, Mine, acked, harm, Bounds>>

(* lockJSONFile: create the lock file; it must not exist.                  *)
Acquire(p) ==
  /\ pc[p] = "want" /\ lock = None /\ orphaned' = FALSE
  /\ lock' = [by |-> p, stale |-> FALSE] /\ Goto(p, "held")
  /\ UNCHANGED <<Disk, Mine, acked, harm, Bounds>>

(* It exists and Stat says it is more than 30 s old ...                    *)
SeeStale(p) ==
  /\ pc[p] = "want" /\ lock # None /\ lock.stale /\ Goto(p, "steal")
  /\ UNCHANGED <<Disk, Lock, Mine, acked, harm, Bounds>>

(* ... so it is removed, whoever's lock file has that name by now; an      *)
(* error is ignored, the loop goes on either way.                          *)
Steal(p) ==
  /\ pc[p] = "steal" /\ Goto(p, "want")
  /\ \/ /\ lock' = None /\ orphaned' = FALSE /\ UNCHANGED errors
        /\ harm' = IF lock # None /\ pc[lock.by] \in Critical
                   THEN harm \cup {"usurped"} ELSE harm
     \/ lock # None /\ Fault /\ UNCHANGED <<Lock, harm>>
  /\ UNCHANGED <<Disk, Mine, acked, crashes, slow>>

(* Ten seconds of waiting, or an error other than "it exists".             *)
GiveUp(p) ==
  /\ pc[p] = "want"
  /\ \/ lock # None /\ UNCHANGED errors
     \/ Fault
  /\ Goto(p, "idle") /\ new' = [new EXCEPT ![p] = None]
  /\ snap' = IF new[p] = None THEN [snap EXCEPT ![p] = None] ELSE snap
  /\ UNCHANGED <<Disk, Lock, val, acked, harm, crashes, slow>>

(* Mutant: the callback gets what was loaded before the lock was taken.    *)
OpenTmpCached(p) ==
  /\ pc[p] = "held" /\ Goto(p, "tmp") /\ tmp' = Torn
  /\ val' = [val EXCEPT ![p] =
               (IF snap[p] = None THEN Read(file) ELSE snap[p])
                 \cup ({new[p]} \ {None})]
  /\ UNCHANGED <<file, bak, Lock, snap, new, acked, harm, Bounds>>

(* What will be written: of a Save, its value; of an Update, what the      *)
(* callback makes of the file, or of nothing if the read fails.  Then      *)
(* os.WriteFile truncates the one temporary name all writers use.          *)
OpenTmp(p) ==
  /\ pc[p] = "held" /\ Goto(p, "tmp") /\ tmp' = Torn
  /\ \/ /\ new[p] = None /\ val' = [val EXCEPT ![p] = snap[p]]
        /\ harm' = IF snap[p] # Read(file)
                   THEN harm \cup {"outdated"} ELSE harm
        /\ UNCHANGED errors
     \/ /\ new[p] # None /\ UNCHANGED <<harm, errors>>
        /\ val' = [val EXCEPT ![p] = Read(file) \cup {new[p]}]
     \/ /\ new[p] # None /\ Read(file) # {} /\ Fault
        /\ val' = [val EXCEPT ![p] = {new[p]}]
        /\ harm' = harm \cup {"unread"}
  /\ UNCHANGED <<file, bak, Lock, snap, new, acked, crashes, slow>>

(* Its content arrives, or the write fails and leaves it as it is.         *)
WriteTmp(p) ==
  /\ pc[p] = "tmp"
  /\ \/ tmp' = val[p] /\ Goto(p, "ready") /\ UNCHANGED errors
     \/ Fault /\ Goto(p, "failed") /\ UNCHANGED tmp
  /\ UNCHANGED <<file, bak, Lock, Mine, acked, harm, crashes, slow>>

(* os.Rename puts the temporary file in place, whoever wrote it.  It fails *)
(* when the name is gone, or for the reasons shouldFallbackJSONOverwrite   *)
(* knows, or for others.                                                   *)
Rename(p) ==
  /\ pc[p] = "ready"
  /\ \/ /\ tmp # Absent /\ file' = tmp /\ tmp' = Absent
        /\ Goto(p, "renamed") /\ UNCHANGED errors
     \/ tmp = Absent /\ Goto(p, "undone") /\ UNCHANGED <<file, tmp, errors>>
     \/ /\ tmp # Absent /\ Fault /\ UNCHANGED <<file, tmp>>
        /\ Goto(p, "fallback") \/ Goto(p, "undone")
  /\ UNCHANGED <<bak, Lock, Mine, acked, harm, crashes, slow>>

-----------------------------------------------------------------------------
(* overwriteJSONFileSynced: keep a copy of the original.  Without an       *)
(* original, or if it cannot be read, go on without; if the copy cannot be *)
(* written, give up.                                                       *)
Backup(p) ==
  /\ pc[p] = "fallback"
  /\ \/ /\ file # Absent /\ bak' = file
        /\ Goto(p, "saved") /\ UNCHANGED errors
     \/ /\ \/ file = Absent /\ UNCHANGED errors
           \/ file # Absent /\ Fault
        /\ Goto(p, "bare") /\ UNCHANGED bak
     \/ file # Absent /\ Fault /\ bak' \in {bak, Torn} /\ Goto(p, "undone")
  /\ UNCHANGED <<file, tmp, Lock, Mine, acked, harm, crashes, slow>>

(* Truncate the file itself,                                               *)
Truncate(p) ==
  /\ pc[p] \in {"saved", "bare"}
  /\ \/ /\ file' = Torn /\ UNCHANGED errors
        /\ Goto(p, IF pc[p] = "saved" THEN "trunc" ELSE "cut")
     \/ Fault /\ Goto(p, "undone") /\ UNCHANGED file
  /\ UNCHANGED <<tmp, bak, Lock, Mine, acked, harm, crashes, slow>>

(* Mutant: the copy is not put back after a failed sync.                   *)
OverwriteOrKeep(p) ==
  /\ pc[p] = "trunc" /\ Fault /\ file' = val[p] /\ Goto(p, "undone")
  /\ UNCHANGED <<tmp, bak, Lock, Mine, acked, harm, crashes, slow>>

(* write it, sync it and remove the copy if that succeeds.  After an       *)
(* error, possibly only of the sync, go back to the copy if there is one.  *)
Overwrite(p) ==
  /\ pc[p] \in {"trunc", "cut"}
  /\ \/ /\ file' = val[p] /\ Goto(p, "renamed") /\ UNCHANGED harm
        /\ \/ bak' = Absent /\ UNCHANGED errors
           \/ bak # Absent /\ UNCHANGED bak /\ Fault
     \/ /\ Fault /\ file' \in {file, val[p]} /\ UNCHANGED bak
        /\ \/ pc[p] = "trunc" /\ Goto(p, "restore") /\ UNCHANGED harm
           \/ /\ pc[p] = "cut" /\ Goto(p, "undone")
              /\ harm' = harm \cup {"torn"}
  /\ UNCHANGED <<tmp, Lock, Mine, acked, crashes, slow>>

(* restoreJSONBackup, whose own error is ignored.                          *)
Restore(p) ==
  /\ pc[p] = "restore" /\ Goto(p, "undone")
  /\ \/ file' = bak /\ UNCHANGED <<errors, harm>>
     \/ Fault /\ file' \in {file, Torn} /\ harm' = harm \cup {"torn"}
  /\ UNCHANGED <<tmp, bak, Lock, Mine, acked, crashes, slow>>

-----------------------------------------------------------------------------
(* The deferred os.Remove(tmp) - not reached when the temporary file could *)
(* not be written - and, last, the lock file, whoever's it is.  The errors *)
(* of both are dropped: the update has returned what it returns.           *)
RemoveTmp(p) ==
  /\ pc[p] \in {"renamed", "undone"}
  /\ \/ tmp' = Absent /\ UNCHANGED errors
     \/ tmp # Absent /\ Fault /\ UNCHANGED tmp
  /\ Goto(p, IF pc[p] = "renamed" THEN "ok" ELSE "failed")
  /\ UNCHANGED <<file, bak, Lock, Mine, acked, harm, crashes, slow>>

Return(p) ==
  /\ pc[p] \in {"ok", "failed"} /\ Goto(p, "idle")
  /\ acked' = IF pc[p] = "ok" THEN acked \cup ({new[p]} \ {None}) ELSE acked
  /\ snap' = IF new[p] = None THEN [snap EXCEPT ![p] = None] ELSE snap
  /\ new' = [new EXCEPT ![p] = None] /\ val' = [val EXCEPT ![p] = {}]
  /\ UNCHANGED <<Disk, harm, crashes, slow>>

(* Mutant: an error return that skips the unlock.                          *)
UnlockAfterSuccess(p) ==
  /\ Return(p) /\ UNCHANGED <<orphaned, errors>>
  /\ lock' = IF pc[p] = "ok" THEN None ELSE lock

Unlock(p) ==
  /\ Return(p)
  /\ \/ lock' = None /\ orphaned' = FALSE /\ UNCHANGED errors
     \/ lock # None /\ UNCHANGED lock /\ orphaned' = TRUE /\ Fault

(* A process dies; what it left on disk stays.                             *)
Crash(p) ==
  /\ pc[p] # "idle" /\ crashes < MaxCrashes /\ crashes' = crashes + 1
  /\ Goto(p, "idle") /\ val' = [val EXCEPT ![p] = {}]
  /\ snap' = [snap EXCEPT ![p] = None] /\ new' = [new EXCEPT ![p] = None]
  /\ harm' = IF pc[p] \in Overwriting THEN harm \cup {"torn"} ELSE harm
  /\ orphaned' = (orphaned \/ pc[p] \in Critical)
  /\ UNCHANGED <<Disk, lock, acked, errors, slow>>

(* 30 s pass over a lock file: its writer is gone, or slow.                *)
LockAges ==
  /\ lock # None /\ ~lock.stale /\ lock' = [lock EXCEPT !.stale = TRUE]
  /\ \/ pc[lock.by] \notin Critical /\ UNCHANGED slow
     \/ pc[lock.by] \in Critical /\ slow < MaxSlow /\ slow' = slow + 1
  /\ UNCHANGED <<Disk, pc, Mine, acked, harm, orphaned, crashes, errors>>

Step(p) ==
  \/ Load(p) \/ Update(p) \/ Save(p)
  \/ Acquire(p) \/ SeeStale(p) \/ Steal(p) \/ GiveUp(p)
  \/ OpenTmp(p) \/ WriteTmp(p) \/ Rename(p)
  \/ Backup(p) \/ Truncate(p) \/ Overwrite(p) \/ Restore(p)
  \/ RemoveTmp(p) \/ Unlock(p) \/ Crash(p)

Next == LockAges \/ \E p \in Procs : Step(p)

Spec == Init /\ [][Next]_vars

-----------------------------------------------------------------------------
(***************************************************************************)
(* Properties                                                              *)
(***************************************************************************)
(* lockJSONFile excludes: two processes are inside the locked part at once *)
(* only after a waiter has removed the lock file of a live writer, which   *)
(* takes a writer slower than 30 s, or two waiters that both saw a dead    *)
(* writer's lock file before one of them replaced it.                      *)
MutualExclusion ==
  "usurped" \notin harm =>
    \A p, q \in Procs : pc[p] \in Critical /\ pc[q] \in Critical => p = q

(* An update that has returned nil is in the file from then on, whatever   *)
(* other call fails and whoever dies, unless one of the four Harms has     *)
(* happened: a lock file taken from a live writer, a failed read that was  *)
(* written back as an empty file, a Save of something outdated, an in-place*)
(* overwrite that could not be undone.  Only a reader during an in-place   *)
(* overwrite can miss it meanwhile.                                        *)
AckedStored ==
  harm = {} /\ (\A p \in Procs : pc[p] \notin Overwriting)
    => acked \subseteq Read(file)

(* Callers of an update that returned an error undo what they did before   *)
(* it (createDBImageTask and the local handlers refund): without a crash,  *)
(* the file holds only what was acknowledged or is being written.          *)
FailedLeavesNoTrace ==
  harm = {} /\ crashes = 0
    => Read(file) \subseteq acked \cup {new[p] : p \in Procs}

(* A lock file whose writer is no longer inside was left by a writer that  *)
(* died there, or whose os.Remove of it failed (the unlock of lockJSONFile *)
(* drops that error): no other failing call, and no early return, leaves   *)
(* one.                                                                    *)
LockReleased ==
  lock # None /\ "usurped" \notin harm
    => pc[lock.by] \in Critical \/ orphaned

(* A writer that fails leaves neither its entry nor its lock file behind,  *)
(* but for the exceptions of the two parts (updateJSONFile, lockJSONFile,  *)
(* overwriteJSONFileSynced).                                               *)
ErrorsLeaveNothing == FailedLeavesNoTrace /\ LockReleased

(* The invariant behind MutualExclusion: until a lock file is usurped, the *)
(* one on disk belongs to the writer inside the locked part.               *)
LockHeld ==
  "usurped" \notin harm =>
    \A p \in Procs : pc[p] \in Critical => lock # None /\ lock.by = p

=============================================================================
