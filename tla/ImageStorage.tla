---------------------------- MODULE ImageStorage ----------------------------
(***************************************************************************)
(* The stored images (images.go): files below data/images, their owners    *)
(* and prompts in two JSON files, and the four that remove images: the     *)
(* storage limit, which every request enforces after each image it saves,  *)
(* the hourly retention, the clean-up of a request that fails, and the     *)
(* deletion by users and administrators.  None of them holds a lock from   *)
(* reading the owners to removing a file.                                  *)
(*                                                                         *)
(* An image is the number of the write that made it, since names carry the *)
(* time in nanoseconds; all images have the same size.  One update of a    *)
(* JSON file is atomic and leaves no trace when it fails (JSONStore).      *)
(***************************************************************************)
EXTENDS Naturals, Sequences, FiniteSets, Functions

CONSTANTS
  Requests,
  OwnerOf,        \* [Requests -> names], "admin" is the administrator's
  Count,          \* [Requests -> how many images it is to deliver]
  Old,            \* what is stored at the start: a sequence of owners
  Aged,           \* those of them that are older than the retention
  Limit,          \* image_max_storage_mb, in images
  MaxEvents       \* bound: requests, faults, deletions and passing seconds together

ASSUME StorageAssumption ==
  /\ OwnerOf \in [Requests -> STRING] /\ "none" \notin Range(OwnerOf)
  /\ Count \in [Requests -> Nat \ {0}] /\ Limit \in Nat \ {0} /\ MaxEvents \in Nat
  /\ Old \in Seq(STRING) /\ Aged \subseteq DOMAIN Old

VARIABLES
  files, owners, prompts,   \* image files; their recorded owners and times
  born,                     \* the second in which each file was written
  second, sweepDue,         \* the clock; the last retention is an hour ago
  protect,                  \* cleanup_protect_user_images
  pc, saved,                \* per request: where it is, the images it saved
  protected,                \* per request: what its clean-up will not touch
  todo, total, removed,     \* per request: dated images to go through; of the
                            \*   limit's clean-up its count and what it removed
  del,                      \* a deletion by a user or administrator
  (* History. *)
  lost,                     \* how an image went: [by, of, had, late]
  late,                     \* <<r, i>>: i got its owner after r had read them
  faults, deletes

files3 == <<files, owners, prompts>>
vars == <<files, owners, prompts, born, second, sweepDue, protect, pc, saved, protected,
          todo, total, removed, del, lost, late, faults, deletes>>

Idle == [pc |-> "idle", who |-> "none", paths |-> {}, removed |-> {}]

Init ==
  /\ files = DOMAIN Old
  /\ owners = [i \in {j \in DOMAIN Old : Old[j] # "none"} |-> Old[i]]
  /\ prompts = [i \in DOMAIN owners |-> 0]
  /\ born = [i \in DOMAIN Old |-> 0]
  /\ second = 0 /\ sweepDue \in BOOLEAN /\ protect \in BOOLEAN
  /\ pc \in [Requests -> {"absent", "save"}] /\ saved = [r \in Requests |-> {}]
  /\ protected = [r \in Requests |-> {}] /\ todo = [r \in Requests |-> {}]
  /\ total = [r \in Requests |-> 0] /\ removed = [r \in Requests |-> {}]
  /\ del = Idle /\ lost = <<>> /\ late = {} /\ faults = 0 /\ deletes = 0

-----------------------------------------------------------------------------
Owner(i) == IF i \in DOMAIN owners THEN owners[i] ELSE "none"
Goto(r, s) == pc' = [pc EXCEPT ![r] = s]
Events == Cardinality({r \in Requests : pc[r] # "absent"}) + faults + deletes + second
Fault == Events < MaxEvents /\ faults' = faults + 1
Except(f, S) == [i \in DOMAIN f \ S |-> f[i]]
With(f, i, v) == [j \in DOMAIN f \cup {i} |-> IF j = i THEN v ELSE f[j]]

(* os.Remove of an image, and why.                                         *)
Unlink(i, by, of) ==
  /\ files' = files \ {i}
  /\ lost' = With(lost, i, [by |-> by, of |-> of, had |-> Owner(i), late |-> <<of, i>> \in late])

(* protectedUserImageRels.                                                 *)
UserImages ==
  IF protect THEN {i \in DOMAIN owners : owners[i] # "admin"} ELSE {}

(* deleteImageMetadata, cleanupSavedImageResults: one update per file,     *)
(* errors are ignored.                                                     *)
Forget(S) ==
  \/ owners' = Except(owners, S) /\ prompts' = Except(prompts, S) /\ UNCHANGED faults
  \/ Fault /\ owners' = owners /\ prompts' = Except(prompts, S)
  \/ Fault /\ owners' = Except(owners, S) /\ prompts' = prompts

(* storedImageCreatedAt: the recorded time has no fraction of a second, so *)
(* it is before the file times of its second; then names decide.           *)
FileTime(i) == 2 * born[i] + 1
CreatedAt(i) == IF i \in DOMAIN prompts THEN 2 * prompts[i] ELSE FileTime(i)

IsFirst(p, S) ==
  p \in S /\ \A q \in S : p[1] < q[1] \/ (p[1] = q[1] /\ p[2] <= q[2])

(* cleanupSavedImageResults begins: files in the order they were saved.    *)
GiveUp(r) == Goto(r, "undo") /\ todo' = [todo EXCEPT ![r] = {<<FileTime(i), i>> : i \in saved[r]}]

Clean == <<protected, total, removed>>

(* The variables of a clean-up that has returned.                          *)
CleanUpOver(r) ==
  /\ protected' = [protected EXCEPT ![r] = {}] /\ todo' = [todo EXCEPT ![r] = {}]
  /\ total' = [total EXCEPT ![r] = 0] /\ removed' = [removed EXCEPT ![r] = {}]
  /\ late' = {p \in late : p[1] # r}

Clock == <<born, second, sweepDue, protect>>
Deletion == <<del, deletes>>

-----------------------------------------------------------------------------
(* saveImageWithBaseURL.                                                   *)

(* maybeCleanupOldImages: at most once an hour.                            *)
SweepStarts(r) ==
  /\ pc[r] = "save" /\ sweepDue
  /\ Goto(r, "sweep") /\ sweepDue' = FALSE
  /\ protected' = [protected EXCEPT ![r] = UserImages]
  /\ UNCHANGED <<files3, born, second, protect, saved, todo, total, removed, Deletion, lost, late, faults>>

Sweepable(r) == (files \cap Aged) \ protected[r]

(* cleanupOldImages: the records of what it removes stay.                  *)
SweepOne(r) ==
  /\ pc[r] = "sweep"
  /\ \E i \in Sweepable(r) : (\A j \in Sweepable(r) : i <= j) /\ Unlink(i, "retention", r)
  /\ UNCHANGED <<owners, prompts, Clock, pc, saved, Clean, todo, Deletion, late, faults>>

SweepEnds(r) ==
  /\ pc[r] = "sweep" /\ Sweepable(r) = {}
  /\ Goto(r, "write") /\ CleanUpOver(r)
  /\ UNCHANGED <<files3, Clock, saved, Deletion, lost, faults>>

Writes(r) == pc[r] = "write" \/ (pc[r] = "save" /\ ~sweepDue)
New == Len(born) + 1

Write(r) ==
  /\ Writes(r)
  /\ files' = files \cup {New} /\ born' = Append(born, second)
  /\ saved' = [saved EXCEPT ![r] = @ \cup {New}]
  /\ Goto(r, "owner")
  /\ UNCHANGED <<owners, prompts, second, sweepDue, protect, Clean, todo, Deletion, lost, late, faults>>

(* A failed write may leave a part of the file behind.                     *)
WriteFails(r) ==
  /\ Writes(r) /\ Fault /\ GiveUp(r)
  /\ \/ UNCHANGED <<files, born>>
     \/ files' = files \cup {New} /\ born' = Append(born, second)
  /\ UNCHANGED <<owners, prompts, second, sweepDue, protect, saved, Clean, Deletion, lost, late>>

(* The lease is lost or the task canceled, before an image is saved.       *)
Refused(r) ==
  /\ pc[r] = "save" /\ GiveUp(r)
  /\ UNCHANGED <<files3, Clock, saved, Clean, Deletion, lost, late, faults>>

-----------------------------------------------------------------------------
(* recordImageMetadata.                                                    *)

IsNewest(i, r) == i \in saved[r] /\ \A j \in saved[r] : j <= i

Cleaning == {q \in Requests : pc[q] \in {"sweep", "walk", "purge"}}

RecordOwner(r) ==
  /\ pc[r] = "owner"
  /\ \/ /\ \E i \in saved[r] : /\ IsNewest(i, r)
                                 /\ owners' = With(owners, i, OwnerOf[r])
                                 /\ late' = late \cup (Cleaning \X {i})
        /\ Goto(r, "prompt") /\ UNCHANGED <<todo, faults>>
     \/ Fault /\ GiveUp(r) /\ UNCHANGED <<owners, late>>
  /\ UNCHANGED <<files, prompts, Clock, saved, Clean, Deletion, lost>>

RecordPrompt(r) ==
  /\ pc[r] = "prompt"
  /\ \/ /\ \E i \in saved[r] : IsNewest(i, r) /\ prompts' = With(prompts, i, second)
        /\ Goto(r, "limit") /\ UNCHANGED <<todo, faults>>
     \/ Fault /\ GiveUp(r) /\ UNCHANGED prompts
  /\ UNCHANGED <<files, owners, Clock, saved, Clean, Deletion, lost, late>>

(* Mutant: recordImageMetadata without protectedRels protects the newest.  *)
LimitReadsNewest(r) ==
  /\ pc[r] = "limit" /\ Goto(r, "walk")
  /\ protected' = [protected EXCEPT ![r] = UserImages \cup {i \in saved[r] : IsNewest(i, r)}]
  /\ UNCHANGED <<files3, Clock, saved, todo, total, removed, Deletion, lost, late, faults>>

(* Mutant: users' images are protected from the retention only.            *)
LimitReadsOwn(r) ==
  /\ pc[r] = "limit" /\ Goto(r, "walk")
  /\ protected' = [protected EXCEPT ![r] = saved[r]]
  /\ UNCHANGED <<files3, Clock, saved, todo, total, removed, Deletion, lost, late, faults>>

(* cleanupImageStorageLimitExcept: the owners are read first.              *)
LimitReads(r) ==
  /\ pc[r] = "limit" /\ Goto(r, "walk")
  /\ protected' = [protected EXCEPT ![r] = UserImages \cup saved[r]]
  /\ UNCHANGED <<files3, Clock, saved, todo, total, removed, Deletion, lost, late, faults>>

(* The clean-up returns: to the next image, or to the end of the request.  *)
Onward(r) ==
  /\ Goto(r, IF Cardinality(saved[r]) < Count[r] THEN "save" ELSE "complete")
  /\ CleanUpOver(r)

(* Mutant: what the request itself has saved is not counted.               *)
LimitWalksOthers(r) ==
  /\ pc[r] = "walk"
  /\ LET others == files \ saved[r]
     IN  IF Cardinality(others) <= Limit THEN Onward(r)
         ELSE /\ Goto(r, "purge") /\ removed' = [removed EXCEPT ![r] = {}]
              /\ total' = [total EXCEPT ![r] = Cardinality(others)]
              /\ todo' = [todo EXCEPT ![r] = {<<CreatedAt(i), i>> : i \in files}]
              /\ UNCHANGED <<protected, late>>
  /\ UNCHANGED <<files3, Clock, saved, Deletion, lost, faults>>

(* One walk takes sizes and order; an image recorded between the reading   *)
(* of the prompts and the walk is ordered as if it were recorded later.    *)
LimitWalks(r) ==
  /\ pc[r] = "walk"
  /\ IF Cardinality(files) <= Limit THEN Onward(r)
     ELSE /\ Goto(r, "purge") /\ removed' = [removed EXCEPT ![r] = {}]
          /\ total' = [total EXCEPT ![r] = Cardinality(files)]
          /\ todo' = [todo EXCEPT ![r] = {<<CreatedAt(i), i>> : i \in files}]
          /\ UNCHANGED <<protected, late>>
  /\ UNCHANGED <<files3, Clock, saved, Deletion, lost, faults>>

(* What is protected or gone by now is passed over.                        *)
Candidates(r) == {p \in todo[r] : p[2] \in files \ protected[r]}

PurgeOne(r) ==
  /\ pc[r] = "purge" /\ total[r] > Limit
  /\ \E p \in todo[r] :
       /\ IsFirst(p, Candidates(r))
       /\ todo' = [todo EXCEPT ![r] = Candidates(r) \ {p}]
       /\ \/ /\ Unlink(p[2], "limit", r)
             /\ total' = [total EXCEPT ![r] = @ - 1]
             /\ removed' = [removed EXCEPT ![r] = @ \cup {p[2]}]
             /\ UNCHANGED faults
          \/ Fault /\ UNCHANGED <<files, lost, total, removed>>
  /\ UNCHANGED <<owners, prompts, Clock, pc, saved, protected, Deletion, late>>

PurgeEnds(r) ==
  /\ pc[r] = "purge" /\ (total[r] <= Limit \/ Candidates(r) = {})
  /\ Forget(removed[r]) /\ Onward(r)
  /\ UNCHANGED <<files, Clock, saved, Deletion, lost>>

-----------------------------------------------------------------------------
(* The end of the request.                                                 *)

Completed(r) ==
  /\ pc[r] = "complete" /\ Goto(r, "done")
  /\ UNCHANGED <<files3, Clock, saved, Clean, todo, Deletion, lost, late, faults>>

(* CompleteTask or updateTaskStatus fails, or finds the task ended.        *)
Overtaken(r) ==
  /\ pc[r] = "complete" /\ GiveUp(r)
  /\ UNCHANGED <<files3, Clock, saved, Clean, Deletion, lost, late, faults>>

(* cleanupSavedImages: a file that cannot be removed is passed over.       *)
UndoOne(r) ==
  /\ pc[r] = "undo"
  /\ \E p \in todo[r] :
       /\ IsFirst(p, todo[r])
       /\ todo' = [todo EXCEPT ![r] = @ \ {p}]
       /\ \/ p[2] \in files /\ Unlink(p[2], "undo", r) /\ UNCHANGED faults
          \/ p[2] \notin files /\ UNCHANGED <<files, lost, faults>>
          \/ p[2] \in files /\ Fault /\ UNCHANGED <<files, lost>>
  /\ UNCHANGED <<owners, prompts, Clock, pc, saved, Clean, Deletion, late>>

(* Mutant: cleanupSavedImages alone, the records stay.                     *)
UndoKeepsRecords(r) ==
  /\ pc[r] = "undo" /\ todo[r] = {} /\ Goto(r, "failed")
  /\ UNCHANGED <<files3, Clock, saved, Clean, todo, Deletion, lost, late, faults>>

UndoEnds(r) ==
  /\ pc[r] = "undo" /\ todo[r] = {}
  /\ Forget(saved[r]) /\ Goto(r, "failed")
  /\ UNCHANGED <<files, Clock, saved, Clean, todo, Deletion, lost, late>>

(* The process stops.                                                      *)
Crash(r) ==
  /\ pc[r] \notin {"absent", "done", "failed", "dead"} /\ Fault /\ Goto(r, "dead")
  /\ UNCHANGED <<files3, Clock, saved, Clean, todo, Deletion, lost, late>>

-----------------------------------------------------------------------------
(* handleImageDelete: the owners are read once; paths are named or all     *)
(* that match.                                                             *)
Deleters == Range(OwnerOf) \cup {"admin"}

DeleteReads ==
  /\ del.pc = "idle" /\ Events < MaxEvents /\ deletes' = deletes + 1
  /\ \E who \in Deleters :
       LET mine == {i \in files : who = "admin" \/ Owner(i) = who}
       IN  \E S \in {mine} \cup {{i} : i \in mine} :
             S # {} /\ del' = [Idle EXCEPT !.pc = "remove", !.who = who, !.paths = S]
  /\ UNCHANGED <<files3, Clock, pc, saved, Clean, todo, lost, late, faults>>

DeleteOne ==
  /\ del.pc = "remove"
  /\ \E i \in del.paths \cap files :
       /\ \A j \in del.paths \cap files : i <= j
       /\ \/ /\ Unlink(i, "delete", del.who) /\ UNCHANGED faults
             /\ del' = [del EXCEPT !.paths = @ \ {i}, !.removed = @ \cup {i}]
          \/ Fault /\ del' = [del EXCEPT !.paths = @ \ {i}] /\ UNCHANGED <<files, lost>>
  /\ UNCHANGED <<owners, prompts, Clock, pc, saved, Clean, todo, late, deletes>>

DeleteEnds ==
  /\ del.pc = "remove" /\ del.paths \cap files = {}
  /\ Forget(del.removed) /\ del' = Idle
  /\ UNCHANGED <<files, Clock, pc, saved, Clean, todo, lost, late, deletes>>

Tick ==
  /\ Events < MaxEvents /\ second' = second + 1
  /\ UNCHANGED <<files3, born, sweepDue, protect, pc, saved, Clean, todo, Deletion, lost, late, faults>>

RequestNext(r) ==
  \/ SweepStarts(r) \/ SweepOne(r) \/ SweepEnds(r)
  \/ Write(r) \/ WriteFails(r) \/ Refused(r)
  \/ RecordOwner(r) \/ RecordPrompt(r) \/ LimitReads(r) \/ LimitWalks(r)
  \/ PurgeOne(r) \/ PurgeEnds(r)
  \/ Completed(r) \/ Overtaken(r) \/ UndoOne(r) \/ UndoEnds(r) \/ Crash(r)

Next ==
  \/ \E r \in Requests : RequestNext(r)
  \/ DeleteReads \/ DeleteOne \/ DeleteEnds \/ Tick

Spec == Init /\ [][Next]_vars

-----------------------------------------------------------------------------
(* An image that a request has saved and not given up is only ever removed *)
(* by its owner, an administrator, or the storage limit as another request *)
(* enforces it: the images of one answer never push each other out, and no *)
(* user's deletion reaches the image of another (recordImageMetadata,      *)
(* handleImageDelete).                                                     *)
BatchStaysWhole ==
  \A r \in Requests : \A i \in saved[r] \cap DOMAIN lost :
    LET l == lost[i]
    IN  \/ l.by = "limit" /\ l.of # r
        \/ l.by = "delete" /\ l.of \in {OwnerOf[r], "admin"}
        \/ l.by = "undo" /\ l.of = r

Automatic == {i \in DOMAIN lost : lost[i].by \in {"limit", "retention"}}

(* With cleanup_protect_user_images a clean-up removes a recorded image of *)
(* a user only if the record was made after that clean-up had read the     *)
(* owners (protectedUserImageRels).                                        *)
UserImagesKept ==
  protect => \A i \in Automatic :
    lost[i].had \in {"none", "admin"} \/ lost[i].late

Quiet == del = Idle /\ \A r \in Requests : pc[r] \in {"absent", "done", "failed"}

(* However the clean-ups of several requests overlap, the storage is       *)
(* within the limit once an answer has been given and nobody works, or     *)
(* everything left is protected: users' images, and those of one request   *)
(* (cleanupImageStorageLimitExcept).                                       *)
LimitHolds ==
  Quiet /\ faults = 0 /\ (\E r \in Requests : pc[r] = "done") =>
    \/ Cardinality(files) <= Limit
    \/ \E r \in Requests : files \subseteq saved[r] \cup UserImages

(* Files and records: what a request has saved and recorded keeps its      *)
(* owner as long as it is stored; a request that failed leaves neither;    *)
(* and a record without a file is of an image the retention removed or one *)
(* that was gone before it was recorded (recordOwner, deleteImageMetadata, *)
(* cleanupSavedImageResults).                                              *)
RecordsMatchFiles ==
  /\ \A r \in Requests : pc[r] \notin {"owner", "undo", "failed", "dead"} =>
       \A i \in saved[r] \cap files : Owner(i) = OwnerOf[r]
  /\ \A r \in Requests : pc[r] = "failed" /\ faults = 0 =>
       saved[r] \cap (files \cup DOMAIN owners \cup DOMAIN prompts) = {}
  /\ Quiet /\ faults = 0 =>
       \A i \in DOMAIN owners \ files : lost[i].by = "retention" \/ lost[i].had = "none"

=============================================================================
