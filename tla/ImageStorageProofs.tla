------------------------- MODULE ImageStorageProofs -------------------------
(***************************************************************************)
(* What the clean-ups never remove, how files and records stay together,   *)
(* and that the limit is kept, for any number of requests, images and      *)
(* faults.                                                                 *)
(***************************************************************************)
EXTENDS ImageStorage, Integers, FiniteSetTheorems, TLAPS

Ids == 1 .. Len(born)

(* Every image that is named anywhere has been written.                    *)
Types ==
  /\ born \in Seq(Nat) /\ second \in Nat /\ Len(Old) <= Len(born)
  /\ files \subseteq Ids /\ DOMAIN owners \subseteq Ids /\ DOMAIN lost \subseteq Ids
  /\ DOMAIN pc = Requests /\ DOMAIN protected = Requests /\ DOMAIN todo = Requests
  /\ DOMAIN saved = Requests /\ \A r \in Requests : saved[r] \subseteq Ids
  /\ del \in [pc : {"idle", "remove"}, who : Deleters \cup {"none"},
              paths : SUBSET Ids, removed : SUBSET Ids]

(* No image is saved by two requests, or twice.                            *)
Apart ==
  \A r \in Requests :
    /\ \A q \in Requests \ {r} : saved[r] \cap saved[q] = {}
    /\ saved[r] \cap DOMAIN Old = {}

(* What a request has saved is safe from its own clean-up.                 *)
Shielded ==
  \A r \in Requests : pc[r] \in {"walk", "purge"} => saved[r] \subseteq protected[r]

(* What it gives up is its own.                                            *)
OwnUndo ==
  \A r \in Requests : pc[r] = "undo" => \A p \in todo[r] : p[2] \in saved[r]

(* Records and deletions attribute an image to who asked for it.           *)
Attributed ==
  \A r \in Requests :
    /\ \A i \in saved[r] \cap DOMAIN owners : owners[i] = OwnerOf[r]
    /\ \A i \in saved[r] \cap del.paths : del.who \in {OwnerOf[r], "admin"}

(* A clean-up protects every user's image that had its record when the     *)
(* owners were read.                                                       *)
KnownOrLate ==
  protect =>
    \A r \in Cleaning : \A i \in DOMAIN owners :
      owners[i] = "admin" \/ i \in protected[r] \/ <<r, i>> \in late

(* The two properties are not inductive by themselves.                     *)
IInv ==
  /\ Types /\ Apart /\ Shielded /\ OwnUndo /\ Attributed /\ KnownOrLate
  /\ BatchStaysWhole /\ UserImagesKept

-----------------------------------------------------------------------------
(* A write takes the next number.                                          *)
LEMMA Numbered ==
  ASSUME Types, born' = Append(born, second)
  PROVE  /\ born' \in Seq(Nat) /\ Len(Old) <= Len(born')
         /\ New \notin Ids /\ New \in Ids' /\ Ids \subseteq Ids' /\ New \notin DOMAIN Old
BY StorageAssumption DEF Types, Ids, New

(* Forget only takes records away.                                         *)
LEMMA Forgotten ==
  ASSUME NEW S, Forget(S)
  PROVE  /\ DOMAIN owners' \subseteq DOMAIN owners
         /\ \A i \in DOMAIN owners' : owners'[i] = owners[i]
BY DEF Forget, Except

(* At the start nothing is saved and nobody cleans up.                     *)
LEMMA InitInv == Init => IInv
<1> SUFFICES ASSUME Init PROVE IInv
  OBVIOUS
<1> USE StorageAssumption DEF Init
<1>1. born \in Seq(Nat) /\ Len(born) = Len(Old)
  OBVIOUS
<1>2. Types
  BY <1>1 DEF Types, Ids, Idle
<1>3. Apart /\ Shielded /\ OwnUndo
  BY DEF Apart, Shielded, OwnUndo
<1>4. Attributed /\ KnownOrLate
  BY DEF Attributed, KnownOrLate, Cleaning, Idle
<1>5. BatchStaysWhole /\ UserImagesKept
  BY DEF BatchStaysWhole, UserImagesKept, Automatic
<1>6. QED
  BY <1>2, <1>3, <1>4, <1>5 DEF IInv

(* The retention reads the owners: everything recorded is protected.       *)
LEMMA SweepStartsInv == ASSUME IInv, NEW r \in Requests, SweepStarts(r) PROVE IInv'
<1> USE StorageAssumption DEF IInv, SweepStarts, files3, Clock, Clean, Deletion, Goto
<1>1. Types'
  BY DEF Types, Ids, GiveUp, Onward, CleanUpOver
<1>2. Apart'
  BY DEF Apart, Types, Ids
<1>3. Shielded' /\ OwnUndo'
  BY DEF Shielded, OwnUndo, Types, GiveUp, Onward, CleanUpOver
<1>4. Attributed'
  BY DEF Attributed, Types, Apart
<1>5. KnownOrLate'
  BY DEF KnownOrLate, Cleaning, Types, GiveUp, Onward, CleanUpOver, UserImages
<1>6. BatchStaysWhole' /\ UserImagesKept'
  BY DEF BatchStaysWhole, UserImagesKept, Automatic, Types
<1>7. QED
  BY <1>1, <1>2, <1>3, <1>4, <1>5, <1>6

(* What it removes was not protected: no user had it, or too late.         *)
LEMMA SweepOneInv == ASSUME IInv, NEW r \in Requests, SweepOne(r) PROVE IInv'
<1> USE StorageAssumption DEF IInv, SweepOne, files3, Clock, Clean, Deletion, Goto
<1>1. PICK i \in files : i \in Aged \ protected[r] /\ Unlink(i, "retention", r)
  BY DEF Sweepable
<1> HIDE DEF SweepOne
<1>2. /\ UNCHANGED <<owners, prompts, Clock, pc, saved, Clean, todo, Deletion, late, faults>>
      /\ r \in Cleaning
  BY DEF SweepOne, Cleaning
<1>0. /\ files' = files \ {i} /\ DOMAIN lost' = DOMAIN lost \cup {i}
      /\ lost'[i].by = "retention" /\ lost'[i].of = r
      /\ lost'[i].had = Owner(i) /\ (lost'[i].late <=> <<r, i>> \in late)
      /\ \A j \in DOMAIN lost \ {i} : lost'[j] = lost[j]
  BY <1>1 DEF Unlink, With
<1>3. Types'
  BY <1>0, <1>1, <1>2 DEF Types, Ids
<1>4. Apart' /\ Shielded' /\ OwnUndo' /\ Attributed' /\ KnownOrLate'
  BY <1>2 DEF Apart, Shielded, OwnUndo, Attributed, KnownOrLate, Cleaning
<1>5. \A q \in Requests : i \notin saved[q]
  BY <1>1 DEF Apart
<1>6. BatchStaysWhole'
  BY <1>0, <1>2, <1>5 DEF BatchStaysWhole
<1>7. UserImagesKept'
  <2>1. protect => Owner(i) \in {"none", "admin"} \/ <<r, i>> \in late
    BY <1>1, <1>2 DEF KnownOrLate, Owner
  <2>2. QED
    BY <1>0, <1>2, <2>1 DEF UserImagesKept, Automatic
<1>8. QED
  BY <1>3, <1>4, <1>6, <1>7

(* Its variables are forgotten, nothing else changes.                      *)
LEMMA SweepEndsInv == ASSUME IInv, NEW r \in Requests, SweepEnds(r) PROVE IInv'
<1> USE StorageAssumption DEF IInv, SweepEnds, files3, Clock, Clean, Deletion, Goto
<1>1. Types'
  BY DEF Types, Ids, GiveUp, Onward, CleanUpOver
<1>2. Apart'
  BY DEF Apart, Types, Ids
<1>3. Shielded' /\ OwnUndo'
  BY DEF Shielded, OwnUndo, Types, GiveUp, Onward, CleanUpOver
<1>4. Attributed'
  BY DEF Attributed, Types, Apart
<1>5. KnownOrLate'
  BY DEF KnownOrLate, Cleaning, Types, GiveUp, Onward, CleanUpOver, UserImages
<1>6. BatchStaysWhole' /\ UserImagesKept'
  BY DEF BatchStaysWhole, UserImagesKept, Automatic, Types
<1>7. QED
  BY <1>1, <1>2, <1>3, <1>4, <1>5, <1>6

(* A new image belongs to nobody else and is in no record.                 *)
LEMMA WriteInv == ASSUME IInv, NEW r \in Requests, Write(r) PROVE IInv'
<1> USE StorageAssumption DEF IInv, Write, files3, Clock, Clean, Deletion, Goto
<1>1. /\ born' = Append(born, second) /\ files' = files \cup {New}
      /\ saved' = [saved EXCEPT ![r] = @ \cup {New}]
  OBVIOUS
<1>2. Types'
  BY <1>1, Numbered DEF Types
<1>3. \A q \in Requests : saved'[q] = IF q = r THEN saved[r] \cup {New} ELSE saved[q]
  BY <1>1 DEF Types
<1>4. \A q \in Requests : New \notin saved[q]
  BY <1>1, Numbered DEF Types
<1>5. New \notin DOMAIN owners \cup DOMAIN lost \cup del.paths \cup DOMAIN Old
  BY <1>1, Numbered DEF Types
<1>6. Apart'
  BY <1>3, <1>4, <1>5 DEF Apart
<1>7. Shielded' /\ OwnUndo'
  BY DEF Shielded, OwnUndo, Types
<1>8. Attributed'
  BY <1>3, <1>5 DEF Attributed
<1>9. KnownOrLate'
  BY DEF KnownOrLate, Cleaning, Types
<1>10. BatchStaysWhole'
  BY <1>3, <1>5 DEF BatchStaysWhole
<1>11. UserImagesKept'
  BY DEF UserImagesKept, Automatic
<1>12. QED
  BY <1>2, <1>6, <1>7, <1>8, <1>9, <1>10, <1>11

(* A part of a file that no request saved; the request is undone.          *)
LEMMA WriteFailsInv == ASSUME IInv, NEW r \in Requests, WriteFails(r) PROVE IInv'
<1> USE StorageAssumption DEF IInv, WriteFails, files3, Clock, Clean, Deletion, Goto
<1>1. Types'
  <2>1. CASE UNCHANGED <<files, born>>
    BY <2>1 DEF Types, Ids, GiveUp
  <2>2. CASE files' = files \cup {New} /\ born' = Append(born, second)
    BY <2>2, Numbered DEF Types, GiveUp
  <2>3. QED
    BY <2>1, <2>2
<1>2. Apart'
  BY DEF Apart, Types, Ids
<1>3. Shielded' /\ OwnUndo'
  BY DEF Shielded, OwnUndo, Types, GiveUp, Onward, CleanUpOver
<1>4. Attributed'
  BY DEF Attributed, Types, Apart
<1>5. KnownOrLate'
  BY DEF KnownOrLate, Cleaning, Types, GiveUp, Onward, CleanUpOver, UserImages
<1>6. BatchStaysWhole' /\ UserImagesKept'
  BY DEF BatchStaysWhole, UserImagesKept, Automatic, Types
<1>7. QED
  BY <1>1, <1>2, <1>3, <1>4, <1>5, <1>6

(* The request is undone with what it has saved.                           *)
LEMMA RefusedInv == ASSUME IInv, NEW r \in Requests, Refused(r) PROVE IInv'
<1> USE StorageAssumption DEF IInv, Refused, files3, Clock, Clean, Deletion, Goto
<1>1. Types'
  BY DEF Types, Ids, GiveUp, Onward, CleanUpOver
<1>2. Apart'
  BY DEF Apart, Types, Ids
<1>3. Shielded' /\ OwnUndo'
  BY DEF Shielded, OwnUndo, Types, GiveUp, Onward, CleanUpOver
<1>4. Attributed'
  BY DEF Attributed, Types, Apart
<1>5. KnownOrLate'
  BY DEF KnownOrLate, Cleaning, Types, GiveUp, Onward, CleanUpOver, UserImages
<1>6. BatchStaysWhole' /\ UserImagesKept'
  BY DEF BatchStaysWhole, UserImagesKept, Automatic, Types
<1>7. QED
  BY <1>1, <1>2, <1>3, <1>4, <1>5, <1>6

(* An owner recorded now is late for every clean-up that is under way.     *)
LEMMA RecordOwnerInv == ASSUME IInv, NEW r \in Requests, RecordOwner(r) PROVE IInv'
<1> USE StorageAssumption DEF IInv, RecordOwner, files3, Clock, Clean, Deletion, Goto
<1>1. CASE Fault /\ GiveUp(r) /\ UNCHANGED <<owners, late>>
  <2>1. /\ pc' = [pc EXCEPT ![r] = "undo"]
        /\ todo' = [todo EXCEPT ![r] = {<<FileTime(i), i>> : i \in saved[r]}]
        /\ UNCHANGED <<owners, late, files, prompts, Clock, saved, Clean, Deletion, lost>>
    BY <1>1 DEF GiveUp
  <2> HIDE DEF RecordOwner
  <2>2. Types' /\ Apart' /\ Shielded' /\ OwnUndo'
    BY <2>1 DEF Types, Ids, Apart, Shielded, OwnUndo
  <2>3. Attributed' /\ KnownOrLate' /\ BatchStaysWhole' /\ UserImagesKept'
    BY <2>1 DEF Types, Attributed, KnownOrLate, Cleaning, BatchStaysWhole, UserImagesKept, Automatic
  <2>4. QED
    BY <2>2, <2>3
<1>2. ASSUME NEW i \in saved[r], owners' = With(owners, i, OwnerOf[r]),
             late' = late \cup (Cleaning \X {i}), pc' = [pc EXCEPT ![r] = "prompt"],
             UNCHANGED <<todo, files, prompts, Clock, saved, Clean, Deletion, lost>>
      PROVE  IInv'
  <2> HIDE DEF RecordOwner
  <2>1. /\ DOMAIN owners' = DOMAIN owners \cup {i} /\ owners'[i] = OwnerOf[r]
        /\ \A j \in DOMAIN owners \ {i} : owners'[j] = owners[j]
    BY <1>2 DEF With
  <2>2. i \in Ids
    BY DEF Types
  <2>3. Types' /\ Apart' /\ Shielded' /\ OwnUndo'
    BY <1>2, <2>1, <2>2 DEF Types, Ids, Apart, Shielded, OwnUndo
  <2>4. Attributed'
    BY <1>2, <2>1 DEF Attributed, Apart
  <2>5. Cleaning' \subseteq Cleaning /\ \A q \in Cleaning : <<q, i>> \in late'
    BY <1>2 DEF Cleaning, Types
  <2>6. KnownOrLate'
    BY <1>2, <2>1, <2>5 DEF KnownOrLate
  <2>7. BatchStaysWhole' /\ UserImagesKept'
    BY <1>2 DEF BatchStaysWhole, UserImagesKept, Automatic
  <2>8. QED
    BY <2>3, <2>4, <2>6, <2>7
<1>3. QED
  BY <1>1, <1>2

(* Prompts protect nothing.                                                *)
LEMMA RecordPromptInv == ASSUME IInv, NEW r \in Requests, RecordPrompt(r) PROVE IInv'
<1> USE StorageAssumption DEF IInv, RecordPrompt, files3, Clock, Clean, Deletion, Goto
<1>1. Types'
  BY DEF Types, Ids, GiveUp, Onward, CleanUpOver
<1>2. Apart'
  BY DEF Apart, Types, Ids
<1>3. Shielded' /\ OwnUndo'
  <2>1. CASE GiveUp(r)
    BY <2>1 DEF Shielded, OwnUndo, Types, GiveUp
  <2>2. CASE Goto(r, "limit") /\ UNCHANGED todo
    BY <2>2 DEF Shielded, OwnUndo, Types
  <2>3. QED
    BY <2>1, <2>2
<1>4. Attributed'
  BY DEF Attributed, Types, Apart
<1>5. KnownOrLate'
  BY DEF KnownOrLate, Cleaning, Types, GiveUp, Onward, CleanUpOver, UserImages
<1>6. BatchStaysWhole' /\ UserImagesKept'
  BY DEF BatchStaysWhole, UserImagesKept, Automatic, Types
<1>7. QED
  BY <1>1, <1>2, <1>3, <1>4, <1>5, <1>6

(* The limit protects what is recorded and what the request saved.         *)
LEMMA LimitReadsInv == ASSUME IInv, NEW r \in Requests, LimitReads(r) PROVE IInv'
<1> USE StorageAssumption DEF IInv, LimitReads, files3, Clock, Clean, Deletion, Goto
<1>1. Types'
  BY DEF Types, Ids, GiveUp, Onward, CleanUpOver
<1>2. Apart'
  BY DEF Apart, Types, Ids
<1>3. Shielded' /\ OwnUndo'
  BY DEF Shielded, OwnUndo, Types, GiveUp, Onward, CleanUpOver
<1>4. Attributed'
  BY DEF Attributed, Types, Apart
<1>5. KnownOrLate'
  BY DEF KnownOrLate, Cleaning, Types, GiveUp, Onward, CleanUpOver, UserImages
<1>6. BatchStaysWhole' /\ UserImagesKept'
  BY DEF BatchStaysWhole, UserImagesKept, Automatic, Types
<1>7. QED
  BY <1>1, <1>2, <1>3, <1>4, <1>5, <1>6

(* The walk changes neither what is stored nor what is protected.          *)
LEMMA LimitWalksInv == ASSUME IInv, NEW r \in Requests, LimitWalks(r) PROVE IInv'
<1> USE StorageAssumption DEF IInv, LimitWalks, files3, Clock, Clean, Deletion, Goto
<1>1. Types'
  BY DEF Types, Ids, GiveUp, Onward, CleanUpOver
<1>2. Apart'
  BY DEF Apart, Types, Ids
<1>3. Shielded' /\ OwnUndo'
  BY DEF Shielded, OwnUndo, Types, GiveUp, Onward, CleanUpOver
<1>4. Attributed'
  BY DEF Attributed, Types, Apart
<1>5. KnownOrLate'
  BY DEF KnownOrLate, Cleaning, Types, GiveUp, Onward, CleanUpOver, UserImages
<1>6. BatchStaysWhole' /\ UserImagesKept'
  BY DEF BatchStaysWhole, UserImagesKept, Automatic, Types
<1>7. QED
  BY <1>1, <1>2, <1>3, <1>4, <1>5, <1>6

(* What the limit removes was not protected.                               *)
LEMMA PurgeOneInv == ASSUME IInv, NEW r \in Requests, PurgeOne(r) PROVE IInv'
<1> USE StorageAssumption DEF IInv, PurgeOne, files3, Clock, Clean, Deletion, Goto
<1>1. PICK p \in Candidates(r) :
        /\ \/ Unlink(p[2], "limit", r)
           \/ UNCHANGED <<files, lost>>
        /\ todo' = [todo EXCEPT ![r] = Candidates(r) \ {p}]
  BY DEF IsFirst
<1>2. /\ UNCHANGED <<owners, prompts, Clock, pc, saved, protected, Deletion, late>>
      /\ r \in Cleaning /\ pc[r] = "purge"
  BY DEF Cleaning
<1> DEFINE i == p[2]
<1>3. i \in files /\ i \notin protected[r]
  BY DEF Candidates
<1> HIDE DEF PurgeOne
<1>4. Apart' /\ Shielded' /\ OwnUndo' /\ Attributed' /\ KnownOrLate'
  BY <1>1, <1>2 DEF Apart, Shielded, OwnUndo, Attributed, KnownOrLate, Cleaning, Types
<1>5. CASE UNCHANGED <<files, lost>>
  BY <1>1, <1>2, <1>4, <1>5 DEF Types, Ids, BatchStaysWhole, UserImagesKept, Automatic
<1>6. CASE Unlink(i, "limit", r)
  <2>1. DOMAIN todo' = Requests
    BY <1>1 DEF Types
  <2> HIDE DEF i
  <2>0. /\ files' = files \ {i} /\ DOMAIN lost' = DOMAIN lost \cup {i}
        /\ lost'[i].by = "limit" /\ lost'[i].of = r
        /\ lost'[i].had = Owner(i) /\ (lost'[i].late <=> <<r, i>> \in late)
        /\ \A j \in DOMAIN lost \ {i} : lost'[j] = lost[j]
    BY <1>6 DEF Unlink, With
  <2>2. Types'
    BY <1>2, <1>3, <2>0, <2>1 DEF Types, Ids
  <2>3. i \notin saved[r]
    BY <1>2, <1>3 DEF Shielded
  <2>4. BatchStaysWhole'
    BY <1>2, <2>0, <2>3 DEF BatchStaysWhole
  <2>5. UserImagesKept'
    <3>1. protect => Owner(i) \in {"none", "admin"} \/ <<r, i>> \in late
      BY <1>2, <1>3 DEF KnownOrLate, Owner
    <3>2. QED
      BY <1>2, <2>0, <3>1 DEF UserImagesKept, Automatic
  <2>6. QED
    BY <1>4, <2>2, <2>4, <2>5
<1>7. QED
  BY <1>1, <1>5, <1>6

(* Records go, and the next image of the request can be saved.             *)
LEMMA PurgeEndsInv == ASSUME IInv, NEW r \in Requests, PurgeEnds(r) PROVE IInv'
<1> USE StorageAssumption DEF IInv, PurgeEnds, files3, Clock, Clean, Deletion, Goto
<1>1. /\ DOMAIN owners' \subseteq DOMAIN owners
      /\ \A i \in DOMAIN owners' : owners'[i] = owners[i]
  BY Forgotten
<1>2. UNCHANGED <<files, Clock, saved, del, lost>>
  OBVIOUS
<1>3. /\ pc' = [pc EXCEPT ![r] = IF Cardinality(saved[r]) < Count[r] THEN "save" ELSE "complete"]
      /\ todo' = [todo EXCEPT ![r] = {}] /\ protected' = [protected EXCEPT ![r] = {}]
      /\ late' = {p \in late : p[1] # r}
  BY DEF Onward, CleanUpOver
<1> HIDE DEF PurgeEnds
<1>4. Types' /\ Apart'
  BY <1>1, <1>2, <1>3 DEF Types, Ids, Apart
<1>5. Shielded' /\ OwnUndo'
  BY <1>2, <1>3 DEF Shielded, OwnUndo, Types
<1>6. Attributed'
  BY <1>1, <1>2 DEF Attributed
<1>7. KnownOrLate'
  <2>1. Cleaning' \subseteq Cleaning \ {r}
    BY <1>3 DEF Cleaning, Types
  <2>2. QED
    BY <1>1, <1>2, <1>3, <2>1 DEF KnownOrLate, Types, Cleaning
<1>8. BatchStaysWhole' /\ UserImagesKept'
  BY <1>2 DEF BatchStaysWhole, UserImagesKept, Automatic
<1>9. QED
  BY <1>4, <1>5, <1>6, <1>7, <1>8

(* The answer is given: nothing is removed.                                *)
LEMMA CompletedInv == ASSUME IInv, NEW r \in Requests, Completed(r) PROVE IInv'
<1> USE StorageAssumption DEF IInv, Completed, files3, Clock, Clean, Deletion, Goto
<1>1. Types'
  BY DEF Types, Ids, GiveUp, Onward, CleanUpOver
<1>2. Apart'
  BY DEF Apart, Types, Ids
<1>3. Shielded' /\ OwnUndo'
  BY DEF Shielded, OwnUndo, Types, GiveUp, Onward, CleanUpOver
<1>4. Attributed'
  BY DEF Attributed, Types, Apart
<1>5. KnownOrLate'
  BY DEF KnownOrLate, Cleaning, Types, GiveUp, Onward, CleanUpOver, UserImages
<1>6. BatchStaysWhole' /\ UserImagesKept'
  BY DEF BatchStaysWhole, UserImagesKept, Automatic, Types
<1>7. QED
  BY <1>1, <1>2, <1>3, <1>4, <1>5, <1>6

(* The request is undone with what it has saved.                           *)
LEMMA OvertakenInv == ASSUME IInv, NEW r \in Requests, Overtaken(r) PROVE IInv'
<1> USE StorageAssumption DEF IInv, Overtaken, files3, Clock, Clean, Deletion, Goto
<1>1. Types'
  BY DEF Types, Ids, GiveUp, Onward, CleanUpOver
<1>2. Apart'
  BY DEF Apart, Types, Ids
<1>3. Shielded' /\ OwnUndo'
  BY DEF Shielded, OwnUndo, Types, GiveUp, Onward, CleanUpOver
<1>4. Attributed'
  BY DEF Attributed, Types, Apart
<1>5. KnownOrLate'
  BY DEF KnownOrLate, Cleaning, Types, GiveUp, Onward, CleanUpOver, UserImages
<1>6. BatchStaysWhole' /\ UserImagesKept'
  BY DEF BatchStaysWhole, UserImagesKept, Automatic, Types
<1>7. QED
  BY <1>1, <1>2, <1>3, <1>4, <1>5, <1>6

(* What is undone is an image of the request itself.                       *)
LEMMA UndoOneInv == ASSUME IInv, NEW r \in Requests, UndoOne(r) PROVE IInv'
<1> USE StorageAssumption DEF IInv, UndoOne, files3, Clock, Clean, Deletion, Goto
<1>1. PICK p \in todo[r] :
        /\ \/ Unlink(p[2], "undo", r)
           \/ UNCHANGED <<files, lost>>
        /\ todo' = [todo EXCEPT ![r] = @ \ {p}]
  OBVIOUS
<1>2. UNCHANGED <<owners, prompts, Clock, pc, saved, Clean, Deletion, late>> /\ pc[r] = "undo"
  OBVIOUS
<1> DEFINE i == p[2]
<1>3. i \in saved[r]
  BY <1>2 DEF OwnUndo
<1> HIDE DEF UndoOne
<1>4. Apart' /\ Shielded' /\ OwnUndo' /\ Attributed' /\ KnownOrLate'
  BY <1>1, <1>2 DEF Apart, Shielded, OwnUndo, Attributed, KnownOrLate, Cleaning, Types
<1>5. CASE UNCHANGED <<files, lost>>
  BY <1>1, <1>2, <1>4, <1>5 DEF Types, Ids, BatchStaysWhole, UserImagesKept, Automatic
<1>6. CASE Unlink(i, "undo", r)
  <2>1. DOMAIN todo' = Requests /\ i \in Ids
    BY <1>1, <1>3 DEF Types
  <2> HIDE DEF i
  <2>0. /\ files' = files \ {i} /\ DOMAIN lost' = DOMAIN lost \cup {i}
        /\ lost'[i].by = "undo" /\ lost'[i].of = r
        /\ lost'[i].had = Owner(i) /\ (lost'[i].late <=> <<r, i>> \in late)
        /\ \A j \in DOMAIN lost \ {i} : lost'[j] = lost[j]
    BY <1>6 DEF Unlink, With
  <2>2. Types'
    BY <1>2, <2>0, <2>1 DEF Types, Ids
  <2>3. \A q \in Requests : i \in saved[q] => q = r
    BY <1>3 DEF Apart
  <2>5. BatchStaysWhole'
    BY <1>2, <2>0, <2>3 DEF BatchStaysWhole
  <2>6. UserImagesKept'
    BY <1>2, <2>0 DEF UserImagesKept, Automatic
  <2>7. QED
    BY <1>4, <2>2, <2>5, <2>6
<1>7. QED
  BY <1>1, <1>5, <1>6

(* Records of removed images go.                                           *)
LEMMA UndoEndsInv == ASSUME IInv, NEW r \in Requests, UndoEnds(r) PROVE IInv'
<1> USE StorageAssumption DEF IInv, UndoEnds, files3, Clock, Clean, Deletion, Goto
<1>1. /\ DOMAIN owners' \subseteq DOMAIN owners
      /\ \A i \in DOMAIN owners' : owners'[i] = owners[i]
  BY Forgotten
<1>2. UNCHANGED <<files, Clock, saved, del, lost>>
  OBVIOUS
<1>3. pc' = [pc EXCEPT ![r] = "failed"] /\ UNCHANGED <<todo, protected, late>>
  OBVIOUS
<1> HIDE DEF UndoEnds
<1>4. Types' /\ Apart'
  BY <1>1, <1>2, <1>3 DEF Types, Ids, Apart
<1>5. Shielded' /\ OwnUndo'
  BY <1>2, <1>3 DEF Shielded, OwnUndo, Types
<1>6. Attributed'
  BY <1>1, <1>2 DEF Attributed
<1>7. KnownOrLate'
  <2>1. Cleaning' \subseteq Cleaning \ {r}
    BY <1>3 DEF Cleaning, Types
  <2>2. QED
    BY <1>1, <1>2, <1>3, <2>1 DEF KnownOrLate, Types, Cleaning
<1>8. BatchStaysWhole' /\ UserImagesKept'
  BY <1>2 DEF BatchStaysWhole, UserImagesKept, Automatic
<1>9. QED
  BY <1>4, <1>5, <1>6, <1>7, <1>8

(* A dead request removes nothing any more.                                *)
LEMMA CrashInv == ASSUME IInv, NEW r \in Requests, Crash(r) PROVE IInv'
<1> USE StorageAssumption DEF IInv, Crash, files3, Clock, Clean, Deletion, Goto
<1>1. Types'
  BY DEF Types, Ids, GiveUp, Onward, CleanUpOver
<1>2. Apart'
  BY DEF Apart, Types, Ids
<1>3. Shielded' /\ OwnUndo'
  BY DEF Shielded, OwnUndo, Types, GiveUp, Onward, CleanUpOver
<1>4. Attributed'
  BY DEF Attributed, Types, Apart
<1>5. KnownOrLate'
  BY DEF KnownOrLate, Cleaning, Types, GiveUp, Onward, CleanUpOver, UserImages
<1>6. BatchStaysWhole' /\ UserImagesKept'
  BY DEF BatchStaysWhole, UserImagesKept, Automatic, Types
<1>7. QED
  BY <1>1, <1>2, <1>3, <1>4, <1>5, <1>6

(* A user names only what the records attribute to that user.              *)
LEMMA DeleteReadsInv == ASSUME IInv, DeleteReads PROVE IInv'
<1> USE StorageAssumption DEF IInv, files3, Clock, Clean, Deletion
<1>1. PICK who \in Deleters : \E S \in SUBSET {i \in files : who = "admin" \/ Owner(i) = who} :
        del' = [Idle EXCEPT !.pc = "remove", !.who = who, !.paths = S]
  <2>1. ASSUME NEW who \in Deleters PROVE
          LET mine == {i \in files : who = "admin" \/ Owner(i) = who}
          IN  {mine} \cup {{i} : i \in mine} \subseteq SUBSET mine
    OBVIOUS
  <2>2. QED
    BY <2>1 DEF DeleteReads
<1>2. PICK S \in SUBSET {i \in files : who = "admin" \/ Owner(i) = who} :
        del' = [Idle EXCEPT !.pc = "remove", !.who = who, !.paths = S]
  BY <1>1
<1>3. UNCHANGED <<files3, Clock, pc, saved, Clean, todo, lost, late, faults>>
  BY DEF DeleteReads
<1>4. Types'
  BY <1>2, <1>3 DEF Types, Ids, Idle
<1>5. Apart' /\ Shielded' /\ OwnUndo' /\ KnownOrLate' /\ BatchStaysWhole' /\ UserImagesKept'
  BY <1>3 DEF Apart, Shielded, OwnUndo, KnownOrLate, Cleaning, BatchStaysWhole, UserImagesKept, Automatic
<1>6. Attributed'
  <2>1. del'.paths = S /\ del'.who = who
    BY <1>2 DEF Idle
  <2>2. who # "none"
    BY DEF Deleters
  <2>3. ASSUME NEW q \in Requests, NEW i \in saved[q] \cap S PROVE who \in {OwnerOf[q], "admin"}
    BY <2>2, <2>3 DEF Attributed, Owner
  <2>4. QED
    BY <1>3, <2>1, <2>3 DEF Attributed
<1>7. QED
  BY <1>4, <1>5, <1>6

(* Ownership does not change between the reading and the removal.          *)
LEMMA DeleteOneInv == ASSUME IInv, DeleteOne PROVE IInv'
<1> USE StorageAssumption DEF IInv, files3, Clock, Clean, Deletion
<1>1. PICK i \in del.paths :
        /\ \/ Unlink(i, "delete", del.who) /\ del' = [del EXCEPT !.paths = @ \ {i}, !.removed = @ \cup {i}]
           \/ UNCHANGED <<files, lost>> /\ del' = [del EXCEPT !.paths = @ \ {i}]
  BY DEF DeleteOne
<1>2. UNCHANGED <<owners, prompts, Clock, pc, saved, Clean, todo, late, deletes>>
  BY DEF DeleteOne
<1>3. /\ del' \in [pc : {"idle", "remove"}, who : Deleters \cup {"none"},
                   paths : SUBSET Ids, removed : SUBSET Ids]
      /\ del'.who = del.who /\ del'.paths \subseteq del.paths
  <2>1. /\ del \in [pc : {"idle", "remove"}, who : Deleters \cup {"none"},
                    paths : SUBSET Ids, removed : SUBSET Ids]
        /\ i \in Ids /\ del.removed \cup {i} \in SUBSET Ids /\ del.paths \ {i} \in SUBSET Ids
    BY DEF Types
  <2> HIDE DEF IInv
  <2>2. CASE del' = [del EXCEPT !.paths = @ \ {i}, !.removed = @ \cup {i}]
    BY <2>1, <2>2
  <2>3. CASE del' = [del EXCEPT !.paths = @ \ {i}]
    BY <2>1, <2>3
  <2>4. QED
    BY <1>1, <2>2, <2>3
<1>4. Apart' /\ Shielded' /\ OwnUndo' /\ Attributed' /\ KnownOrLate'
  BY <1>2, <1>3 DEF Apart, Shielded, OwnUndo, Attributed, KnownOrLate, Cleaning
<1>5. CASE UNCHANGED <<files, lost>>
  BY <1>2, <1>3, <1>4, <1>5 DEF Types, Ids, BatchStaysWhole, UserImagesKept, Automatic
<1>6. CASE Unlink(i, "delete", del.who)
  <2>1. /\ files' = files \ {i} /\ DOMAIN lost' = DOMAIN lost \cup {i}
        /\ lost'[i].by = "delete" /\ lost'[i].of = del.who
        /\ \A j \in DOMAIN lost \ {i} : lost'[j] = lost[j]
    BY <1>6 DEF Unlink, With
  <2>2. Types'
    BY <1>2, <1>3, <2>1 DEF Types, Ids
  <2>3. \A q \in Requests : i \in saved[q] => del.who \in {OwnerOf[q], "admin"}
    BY DEF Attributed
  <2>4. BatchStaysWhole'
    BY <1>2, <2>1, <2>3 DEF BatchStaysWhole
  <2>5. UserImagesKept'
    BY <1>2, <2>1 DEF UserImagesKept, Automatic
  <2>6. QED
    BY <1>4, <2>2, <2>4, <2>5
<1>7. QED
  BY <1>1, <1>5, <1>6

(* Records of deleted images go.                                           *)
LEMMA DeleteEndsInv == ASSUME IInv, DeleteEnds PROVE IInv'
<1> USE StorageAssumption DEF IInv, files3, Clock, Clean, Deletion
<1>1. /\ DOMAIN owners' \subseteq DOMAIN owners
      /\ \A i \in DOMAIN owners' : owners'[i] = owners[i]
  BY Forgotten DEF DeleteEnds
<1>2. UNCHANGED <<files, Clock, pc, saved, Clean, todo, lost, late>> /\ del' = Idle
  BY DEF DeleteEnds
<1>3. Types'
  BY <1>1, <1>2 DEF Types, Ids, Idle
<1>4. Apart' /\ Shielded' /\ OwnUndo' /\ Attributed' /\ KnownOrLate'
  BY <1>1, <1>2 DEF Apart, Shielded, OwnUndo, Attributed, KnownOrLate, Cleaning, Idle
<1>5. BatchStaysWhole' /\ UserImagesKept'
  BY <1>2 DEF BatchStaysWhole, UserImagesKept, Automatic
<1>6. QED
  BY <1>3, <1>4, <1>5

(* Time passes, or nothing happens.                                        *)
LEMMA OtherwiseInv ==
  ASSUME IInv, Tick \/ UNCHANGED vars
  PROVE  IInv'
<1>1. /\ UNCHANGED <<files, owners, born, protect, pc, saved, protected, todo, del, lost, late>>
      /\ second' \in Nat
  BY DEF Tick, vars, files3, Clean, Deletion, IInv, Types
<1>2. QED
  BY <1>1 DEF IInv, Types, Ids, Apart, Shielded, OwnUndo, Attributed, KnownOrLate, Cleaning,
              BatchStaysWhole, UserImagesKept, Automatic

-----------------------------------------------------------------------------
(* Every step keeps the invariant.                                         *)
LEMMA NextInv == ASSUME IInv, [Next]_vars PROVE IInv'
<1>1. ASSUME NEW r \in Requests, RequestNext(r) PROVE IInv'
  BY <1>1, SweepStartsInv, SweepOneInv, SweepEndsInv, WriteInv, WriteFailsInv, RefusedInv,
     RecordOwnerInv, RecordPromptInv, LimitReadsInv, LimitWalksInv, PurgeOneInv, PurgeEndsInv,
     CompletedInv, OvertakenInv, UndoOneInv, UndoEndsInv, CrashInv DEF RequestNext
<1>2. QED
  BY <1>1, DeleteReadsInv, DeleteOneInv, DeleteEndsInv, OtherwiseInv DEF Next

(* The invariant holds for any number of requests, images and faults.      *)
THEOREM Inductive == Spec => []IInv
<1>1. IInv /\ [Next]_vars => IInv'
  BY NextInv
<1>2. QED
  BY <1>1, InitInv, PTL DEF Spec

(* The images of one answer never push each other out of the storage, and  *)
(* no user's deletion reaches the image of another.                        *)
THEOREM BatchSafety == Spec => []BatchStaysWhole
<1>1. IInv => BatchStaysWhole
  BY DEF IInv
<1>2. QED
  BY <1>1, Inductive, PTL

(* A clean-up removes a recorded image of a user only if the record was    *)
(* made after that clean-up had read the owners.                           *)
THEOREM UserImageSafety == Spec => []UserImagesKept
<1>1. IInv => UserImagesKept
  BY DEF IInv
<1>2. QED
  BY <1>1, Inductive, PTL

-----------------------------------------------------------------------------
(* Files and records.                                                      *)

(* Images that are gone are in lost, and what a clean-up or a deletion has *)
(* removed is not stored.                                                  *)
Book ==
  /\ DOMAIN removed = Requests /\ DOMAIN total = Requests /\ faults \in Nat
  /\ \A r \in Requests : /\ removed[r] \subseteq Ids \ files /\ protected[r] \subseteq Ids
                         /\ total[r] \in Int
  /\ del.removed \cap files = {} /\ Ids \ files \subseteq DOMAIN lost

(* A stored image of a request has its owner, the last one from            *)
(* RecordOwner on; until then it has no record.                            *)
Recorded ==
  \A r \in Requests : pc[r] \notin {"undo", "failed", "dead"} =>
    \A i \in saved[r] \cap files :
      Owner(i) = OwnerOf[r] \/ (pc[r] = "owner" /\ IsNewest(i, r))

Unrecorded ==
  \A r \in Requests : pc[r] = "owner" =>
    \A i \in saved[r] : IsNewest(i, r) =>
       i \notin DOMAIN owners /\ (i \in DOMAIN lost => lost[i].had = "none")

(* What a request that undoes has not removed yet is still to be; nothing  *)
(* is left of one that has.                                                *)
Undoing ==
  faults = 0 =>
    \A r \in Requests : pc[r] = "undo" =>
      \A i \in saved[r] \cap files : \E p \in todo[r] : p[2] = i

Undone ==
  faults = 0 =>
    \A r \in Requests : pc[r] = "failed" =>
      \A i \in saved[r] : i \notin files /\ i \notin DOMAIN owners /\ i \notin DOMAIN prompts

(* Somebody will forget the record of i.                                   *)
Forgetting(i) ==
  \/ del.pc = "remove" /\ i \in del.removed
  \/ \E r \in Requests : \/ pc[r] = "purge" /\ i \in removed[r]
                         \/ pc[r] = "undo" /\ i \in saved[r]

Leftovers ==
  faults = 0 =>
    \A i \in DOMAIN owners \ files :
      lost[i].by = "retention" \/ lost[i].had = "none" \/ Forgetting(i)

(* For LimitHolds.  Somebody still has to count; a clean-up at work goes   *)
(* on through everything that it may remove.                               *)
ToWalk == {r \in Requests : pc[r] \in {"owner", "prompt", "limit", "walk"}}

Purging(r) ==
  /\ pc[r] = "purge" /\ Cardinality(files) <= total[r]
  /\ \A i \in files \ protected[r] : \E p \in todo[r] : p[2] = i

(* A clean-up protects what belongs to a user or to its own request.       *)
ProtectedOwned ==
  faults = 0 =>
    \A r \in Requests : pc[r] \in {"walk", "purge"} =>
      protected[r] \cap files \subseteq saved[r] \cup UserImages

HasSaved ==
  \A r \in Requests :
    pc[r] \in {"owner", "prompt", "limit", "walk", "purge", "complete", "done"} => saved[r] # {}

(* Once something was saved and all have counted, the storage is within    *)
(* the limit, a clean-up is bringing it there, or the rest is protected.   *)
Within ==
  faults = 0 /\ ToWalk = {} /\ (\E r \in Requests : saved[r] # {}) =>
    \/ Cardinality(files) <= Limit
    \/ \E r \in Requests : Purging(r) \/ files \subseteq saved[r] \cup UserImages

(* What the steps do to what the records are about.                        *)
Gone(i, by) ==
  /\ i \in files /\ files' = files \ {i} /\ DOMAIN lost' = DOMAIN lost \cup {i}
  /\ lost'[i].by = by /\ lost'[i].had = Owner(i)
  /\ \A j \in DOMAIN lost \ {i} : lost'[j] = lost[j]

LEMMA FilesFinite ==
  ASSUME IInv
  PROVE  IsFiniteSet(files) /\ Cardinality(files) \in Nat
<1>1. Len(born) \in Nat /\ files \subseteq 1 .. Len(born)
  BY DEF IInv, Types, Ids
<1>2. IsFiniteSet(1 .. Len(born))
  BY <1>1, FS_Interval
<1> QED
  BY <1>1, <1>2, FS_Subset, FS_CardinalityType

LEMMA UnlinkIs ==
  ASSUME NEW i \in files, NEW by, NEW of, Unlink(i, by, of)
  PROVE  Gone(i, by)
  BY DEF Unlink, With, Gone

PurgedOne(r) ==
  /\ UNCHANGED <<owners, prompts, Clock, pc, saved, protected, Deletion, late>>
  /\ pc[r] = "purge" /\ DOMAIN removed' = Requests /\ DOMAIN total' = Requests
  /\ total'[r] \in Int
  /\ \A q \in Requests \ {r} : /\ removed'[q] = removed[q] /\ todo'[q] = todo[q]
                               /\ total'[q] = total[q]
  /\ \E i \in files \ protected[r] :
       /\ \A p \in Candidates(r) : p[2] = i \/ p \in todo'[r]
       /\ \/ /\ Gone(i, "limit") /\ removed'[r] = removed[r] \cup {i}
             /\ total'[r] = total[r] - 1 /\ UNCHANGED faults
          \/ /\ UNCHANGED <<files, lost, removed, total>>
             /\ faults' \in Nat \ {0}

LEMMA PurgeOneIs ==
  ASSUME IInv, Book, NEW r \in Requests, PurgeOne(r)
  PROVE  PurgedOne(r)
<1> USE DEF PurgedOne, PurgeOne, IInv, Types, Book
<1>1. PICK p \in Candidates(r) :
        /\ todo' = [todo EXCEPT ![r] = Candidates(r) \ {p}]
        /\ \/ /\ Unlink(p[2], "limit", r)
              /\ total' = [total EXCEPT ![r] = @ - 1]
              /\ removed' = [removed EXCEPT ![r] = @ \cup {p[2]}]
              /\ UNCHANGED faults
           \/ Fault /\ UNCHANGED <<files, lost, total, removed>>
  BY DEF IsFirst
<1>2. p[2] \in files \ protected[r]
  BY DEF Candidates
<1>3. Unlink(p[2], "limit", r) => Gone(p[2], "limit")
  BY <1>2, UnlinkIs
<1>4. Fault => faults' \in Nat \ {0}
  BY DEF Fault
<1>5. total'[r] \in Int /\ DOMAIN total' = Requests /\ \A q \in Requests \ {r} : total'[q] = total[q]
  BY <1>1
<1> QED
  BY <1>1, <1>2, <1>3, <1>4, <1>5

UndidOne(r) ==
  /\ UNCHANGED <<owners, prompts, Clock, pc, saved, Clean, Deletion, late>>
  /\ pc[r] = "undo" /\ \A q \in Requests \ {r} : todo'[q] = todo[q]
  /\ \E p \in todo[r] :
       /\ p[2] \in saved[r] /\ todo'[r] = todo[r] \ {p}
       /\ \/ Gone(p[2], "undo") /\ UNCHANGED faults
          \/ p[2] \notin files /\ UNCHANGED <<files, lost, faults>>
          \/ UNCHANGED <<files, lost>> /\ faults' \in Nat \ {0}

LEMMA UndoOneIs ==
  ASSUME IInv, Book, NEW r \in Requests, UndoOne(r)
  PROVE  UndidOne(r)
<1>1. PICK p \in todo[r] :
        /\ todo' = [todo EXCEPT ![r] = @ \ {p}]
        /\ \/ p[2] \in files /\ Unlink(p[2], "undo", r) /\ UNCHANGED faults
           \/ p[2] \notin files /\ UNCHANGED <<files, lost, faults>>
           \/ p[2] \in files /\ Fault /\ UNCHANGED <<files, lost>>
  BY DEF UndoOne
<1>2. p[2] \in files /\ Unlink(p[2], "undo", r) => Gone(p[2], "undo")
  BY UnlinkIs
<1> QED
  BY <1>1, <1>2 DEF UndidOne, UndoOne, Fault, IInv, Types, OwnUndo, Book

DeletedOne ==
  /\ UNCHANGED <<owners, prompts, Clock, pc, saved, Clean, todo, late, deletes>>
  /\ del.pc = "remove" /\ del'.pc = "remove"
  /\ \E i \in files :
       \/ /\ Gone(i, "delete") /\ del'.removed = del.removed \cup {i}
          /\ UNCHANGED faults
       \/ UNCHANGED <<files, lost>> /\ faults' \in Nat \ {0} /\ del'.removed = del.removed

LEMMA DeleteOneIs ==
  ASSUME IInv, Book, DeleteOne
  PROVE  DeletedOne
<1> USE DEF DeletedOne, DeleteOne
<1>1. PICK i \in files :
        \/ /\ Unlink(i, "delete", del.who) /\ UNCHANGED faults
           /\ del' = [del EXCEPT !.paths = @ \ {i}, !.removed = @ \cup {i}]
        \/ Fault /\ del' = [del EXCEPT !.paths = @ \ {i}] /\ UNCHANGED <<files, lost>>
  OBVIOUS
<1>2. Unlink(i, "delete", del.who) => Gone(i, "delete")
  BY UnlinkIs
<1>3. del \in [pc : {"idle", "remove"}, who : Deleters \cup {"none"},
               paths : SUBSET Ids, removed : SUBSET Ids]
  BY DEF IInv, Types
<1>4. Fault => faults' \in Nat \ {0}
  BY DEF Fault, Book
<1> QED
  BY <1>1, <1>2, <1>3, <1>4

Forgot(S) ==
  /\ DOMAIN owners' \subseteq DOMAIN owners /\ DOMAIN prompts' \subseteq DOMAIN prompts
  /\ \A i \in DOMAIN owners' : owners'[i] = owners[i]
  /\ \A i \in DOMAIN owners \ S : i \in DOMAIN owners'
  /\ \/ faults' \in Nat \ {0}
     \/ /\ faults' = faults /\ DOMAIN owners' = DOMAIN owners \ S
        /\ DOMAIN prompts' = DOMAIN prompts \ S

LEMMA ForgetIs ==
  ASSUME Book, NEW S, Forget(S)
  PROVE  Forgot(S)
  BY DEF Forgot, Forget, Except, Fault, Book

Walked(r) ==
  /\ UNCHANGED <<files3, Clock, saved, Deletion, lost, faults>> /\ pc[r] = "walk"
  /\ DOMAIN pc' = Requests /\ DOMAIN removed' = Requests /\ DOMAIN total' = Requests
  /\ removed'[r] = {} /\ total'[r] \in Int
  /\ \A q \in Requests \ {r} : /\ removed'[q] = removed[q] /\ todo'[q] = todo[q]
                               /\ total'[q] = total[q] /\ pc'[q] = pc[q]
                               /\ protected'[q] = protected[q]
  /\ \/ /\ Cardinality(files) <= Limit /\ pc'[r] \in {"save", "complete"}
        /\ protected'[r] = {} /\ DOMAIN protected' = Requests
     \/ /\ pc'[r] = "purge" /\ total'[r] = Cardinality(files)
        /\ protected' = protected
        /\ \A i \in files : \E p \in todo'[r] : p[2] = i

LEMMA LimitWalksIs ==
  ASSUME IInv, Book, NEW r \in Requests, LimitWalks(r)
  PROVE  Walked(r)
<1> USE DEF Walked, LimitWalks, IInv, Types, Book, Goto
<1>1. CASE Cardinality(files) <= Limit
  BY <1>1 DEF Onward, CleanUpOver
<1>2. CASE ~(Cardinality(files) <= Limit)
  <2>1. todo' = [todo EXCEPT ![r] = {<<CreatedAt(i), i>> : i \in files}]
    BY <1>2
  <2>2. todo'[r] = {<<CreatedAt(i), i>> : i \in files}
    BY <2>1
  <2>3. ASSUME NEW i \in files  PROVE \E p \in todo'[r] : p[2] = i
    <3>1. <<CreatedAt(i), i>> \in todo'[r]
      BY <2>2
    <3> QED
      BY <3>1
  <2> QED
    BY <1>2, <2>1, <2>3, FilesFinite
<1> QED
  BY <1>1, <1>2

(* A request that gives up is to remove all it has saved.                  *)
GivesUp(r) ==
  /\ DOMAIN pc' = Requests /\ pc'[r] = "undo"
  /\ \A i \in saved[r] : \E p \in todo'[r] : p[2] = i
  /\ \A q \in Requests \ {r} : pc'[q] = pc[q] /\ todo'[q] = todo[q]

LEMMA GiveUpIs ==
  ASSUME IInv, NEW r \in Requests, GiveUp(r)
  PROVE  GivesUp(r)
<1> USE DEF GivesUp, GiveUp, Goto, IInv, Types
<1>1. ASSUME NEW i \in saved[r]  PROVE \E p \in todo'[r] : p[2] = i
  <2>1. <<FileTime(i), i>> \in todo'[r]
    OBVIOUS
  <2> QED
    BY <2>1
<1> QED
  BY <1>1

OwnerRecorded(r) ==
  /\ UNCHANGED <<files, prompts, Clock, saved, Clean, Deletion, lost>> /\ pc[r] = "owner"
  /\ DOMAIN pc' = Requests
  /\ \A q \in Requests \ {r} : pc'[q] = pc[q] /\ todo'[q] = todo[q]
  /\ \/ /\ pc'[r] = "prompt" /\ faults' = faults
        /\ \E i \in saved[r] :
             /\ IsNewest(i, r) /\ DOMAIN owners' = DOMAIN owners \cup {i}
             /\ owners'[i] = OwnerOf[r]
             /\ \A j \in DOMAIN owners \ {i} : owners'[j] = owners[j]
     \/ pc'[r] = "undo" /\ faults' \in Nat \ {0} /\ owners' = owners

LEMMA RecordOwnerIs ==
  ASSUME IInv, Book, NEW r \in Requests, RecordOwner(r)
  PROVE  OwnerRecorded(r)
<1> USE DEF OwnerRecorded, RecordOwner, Goto, With, Fault, IInv, Types, Book
<1>1. CASE GiveUp(r) /\ Fault /\ owners' = owners
  BY <1>1, GiveUpIs DEF GivesUp
<1>2. CASE /\ \E i \in saved[r] : IsNewest(i, r) /\ owners' = With(owners, i, OwnerOf[r])
           /\ Goto(r, "prompt") /\ UNCHANGED <<todo, faults>>
  <2>1. PICK i \in saved[r] : IsNewest(i, r) /\ owners' = With(owners, i, OwnerOf[r])
    BY <1>2
  <2>2. /\ DOMAIN owners' = DOMAIN owners \cup {i} /\ owners'[i] = OwnerOf[r]
        /\ \A j \in DOMAIN owners \ {i} : owners'[j] = owners[j]
    BY <2>1
  <2> QED
    BY <1>2, <2>1, <2>2
<1> QED
  BY <1>1, <1>2

PromptRecorded(r) ==
  /\ UNCHANGED <<files, owners, Clock, saved, Clean, Deletion, lost, late>>
  /\ pc[r] = "prompt" /\ DOMAIN pc' = Requests
  /\ \A q \in Requests \ {r} : pc'[q] = pc[q] /\ todo'[q] = todo[q]
  /\ \/ /\ pc'[r] = "limit" /\ faults' = faults
        /\ \E i \in saved[r] : DOMAIN prompts' = DOMAIN prompts \cup {i}
     \/ pc'[r] = "undo" /\ faults' \in Nat \ {0} /\ prompts' = prompts

LEMMA RecordPromptIs ==
  ASSUME IInv, Book, NEW r \in Requests, RecordPrompt(r)
  PROVE  PromptRecorded(r)
<1> USE DEF PromptRecorded, RecordPrompt, Goto, With, Fault, IInv, Types, Book
<1>1. CASE GiveUp(r) /\ Fault /\ prompts' = prompts
  BY <1>1, GiveUpIs DEF GivesUp
<1>2. CASE /\ \E i \in saved[r] : IsNewest(i, r) /\ prompts' = With(prompts, i, second)
           /\ Goto(r, "limit") /\ UNCHANGED <<todo, faults>>
  BY <1>2
<1> QED
  BY <1>1, <1>2

PurgeEnded(r) ==
  /\ UNCHANGED <<files, Clock, saved, Deletion, lost>> /\ Forget(removed[r])
  /\ pc[r] = "purge" /\ (total[r] <= Limit \/ Candidates(r) = {})
  /\ DOMAIN pc' = Requests /\ DOMAIN removed' = Requests /\ DOMAIN total' = Requests
  /\ pc'[r] \in {"save", "complete"} /\ removed'[r] = {} /\ protected'[r] = {} /\ total'[r] = 0
  /\ \A q \in Requests \ {r} : /\ removed'[q] = removed[q] /\ todo'[q] = todo[q]
                               /\ total'[q] = total[q] /\ pc'[q] = pc[q]
                               /\ protected'[q] = protected[q]

LEMMA PurgeEndsIs ==
  ASSUME IInv, Book, NEW r \in Requests, PurgeEnds(r)
  PROVE  PurgeEnded(r)
  BY DEF PurgeEnded, PurgeEnds, Onward, Goto, CleanUpOver, IInv, Types, Book

UndoEnded(r) ==
  /\ UNCHANGED <<files, Clock, saved, Clean, todo, Deletion, lost, late>>
  /\ Forget(saved[r]) /\ pc[r] = "undo" /\ todo[r] = {} /\ DOMAIN pc' = Requests
  /\ pc'[r] = "failed" /\ \A q \in Requests \ {r} : pc'[q] = pc[q]

LEMMA UndoEndsIs ==
  ASSUME IInv, NEW r \in Requests, UndoEnds(r)
  PROVE  UndoEnded(r)
  BY DEF UndoEnded, UndoEnds, Goto, IInv, Types

DeleteEnded ==
  /\ UNCHANGED <<files, Clock, pc, saved, Clean, todo, lost, late, deletes>>
  /\ Forget(del.removed) /\ del.pc = "remove" /\ del'.pc = "idle" /\ del'.removed = {}

LEMMA DeleteEndsIs ==
  ASSUME DeleteEnds
  PROVE  DeleteEnded
  BY DEF DeleteEnded, DeleteEnds, Idle

(* A step of r does nothing to what others undo.                           *)
Keeps(r) ==
  /\ files' \subseteq files /\ saved' = saved /\ (faults' = 0 => faults = 0)
  /\ \A q \in Requests \ {r} : pc'[q] = pc[q] /\ todo'[q] = todo[q]
  /\ pc'[r] = "undo" => \A i \in saved[r] \cap files' : \E p \in todo'[r] : p[2] = i

LEMMA UndoingKept ==
  ASSUME NEW r \in Requests, Undoing, faults' = 0 => Keeps(r)
  PROVE  Undoing'
BY DEF Undoing, Keeps

(* An image goes and its record is still to be forgotten.                  *)
LEMMA LeftoversKept ==
  ASSUME IInv, Book, Leftovers, faults' = 0 => faults = 0, DOMAIN owners' \subseteq DOMAIN owners,
         \A i \in DOMAIN owners' : Forgetting(i) => Forgetting(i)',
         \/ UNCHANGED <<files, lost>>
         \/ \E i \in files : (Gone(i, "limit") \/ Gone(i, "undo") \/ Gone(i, "delete")) /\ Forgetting(i)'
  PROVE  Leftovers'
<1>1. CASE UNCHANGED <<files, lost>>
  BY <1>1 DEF Leftovers
<1>2. ASSUME NEW i \in files, Forgetting(i)',
             files' = files \ {i}, \A j \in DOMAIN lost \ {i} : lost'[j] = lost[j]
      PROVE  Leftovers'
  <2>1. ASSUME NEW j \in DOMAIN owners' \ files', j # i  PROVE lost'[j] = lost[j]
    BY <1>2, <2>1 DEF Book, IInv, Types
  <2> QED
    BY <1>2, <2>1 DEF Leftovers
<1> QED
  BY <1>1, <1>2 DEF Gone

(* A step that leaves the clean-ups at work alone, or sees to its own.     *)
Same(q) ==
  pc'[q] = pc[q] /\ total'[q] = total[q] /\ protected'[q] = protected[q] /\ todo'[q] = todo[q]

Harmless ==
  /\ faults = 0 /\ saved' = saved /\ files' \subseteq files
  /\ UserImages \cap files' \subseteq UserImages' /\ ToWalk \subseteq ToWalk'
  /\ \A q \in Requests : pc[q] = "purge" => Same(q) \/ (Purging(q) => Purging(q)')

LEMMA WithinKept ==
  ASSUME IInv, Book, Within, faults' = 0 => Harmless
  PROVE  Within'
<1> SUFFICES ASSUME faults' = 0, ToWalk' = {}, \E r \in Requests : saved'[r] # {}
             PROVE  \/ Cardinality(files') <= Limit
                    \/ \E r \in Requests : Purging(r)' \/ files' \subseteq saved'[r] \cup UserImages'
  BY DEF Within
<1>1. /\ faults = 0 /\ ToWalk = {} /\ (\E r \in Requests : saved[r] # {})
      /\ saved' = saved /\ files' \subseteq files /\ UserImages \cap files' \subseteq UserImages'
      /\ \A q \in Requests : pc[q] = "purge" => Same(q) \/ (Purging(q) => Purging(q)')
  BY DEF Harmless
<1>2. /\ Cardinality(files') \in Nat /\ Cardinality(files) \in Nat
      /\ Cardinality(files') <= Cardinality(files)
  BY <1>1, FilesFinite, FS_Subset, FS_CardinalityType
<1>3. CASE Cardinality(files) <= Limit
  BY <1>2, <1>3, StorageAssumption
<1>4. ASSUME NEW r \in Requests, Purging(r)  PROVE Purging(r)'
  <2>1. CASE Same(r)
    <3>1. total'[r] \in Int /\ Cardinality(files') <= total'[r]
      BY <1>2, <1>4, <2>1 DEF Same, Purging, Book
    <3>2. pc'[r] = "purge" /\ \A i \in files' \ protected'[r] : \E p \in todo'[r] : p[2] = i
      BY <1>1, <1>4, <2>1 DEF Same, Purging
    <3> QED
      BY <3>1, <3>2 DEF Purging
  <2> QED
    BY <1>1, <1>4, <2>1 DEF Purging
<1>5. ASSUME NEW r \in Requests, files \subseteq saved[r] \cup UserImages
      PROVE  files' \subseteq saved'[r] \cup UserImages'
  BY <1>1, <1>5
<1> QED
  BY <1>1, <1>3, <1>4, <1>5 DEF Within

(* Records that are forgotten are of no file.                              *)
LEMMA ForgotOther ==
  ASSUME NEW S, Forgot(S), S \cap files = {}, files' = files, protect' = protect, faults' = 0
  PROVE  UserImages \cap files' \subseteq UserImages'
BY DEF Forgot, UserImages

-----------------------------------------------------------------------------
(* One lemma per part of the invariant, one step per action.               *)

(* What a clean-up has removed is not stored: nothing stores an image      *)
(* again.                                                                  *)
LEMMA BookStep ==
  ASSUME IInv, Book, [Next]_vars
  PROVE  Book'
<1>1. ASSUME NEW r \in Requests, SweepStarts(r)  PROVE Book'
  BY <1>1 DEF SweepStarts, Deletion, IInv, Types, Ids, files3, Book, UserImages
<1>2. ASSUME NEW r \in Requests, SweepOne(r)  PROVE Book'
  BY <1>2 DEF SweepOne, Clock, Clean, Deletion, Unlink, With, Ids, Book
<1>3. ASSUME NEW r \in Requests, SweepEnds(r)  PROVE Book'
  BY <1>3 DEF SweepEnds, Clock, Deletion, CleanUpOver, Ids, files3, Book
<1>4. ASSUME NEW r \in Requests, Write(r)  PROVE Book'
  BY <1>4 DEF Write, Clean, Deletion, New, IInv, Types, Ids, Book
<1>5. ASSUME NEW r \in Requests, WriteFails(r)  PROVE Book'
  BY <1>5 DEF WriteFails, Clean, Deletion, Fault, New, IInv, Types, Ids, Book
<1>6. ASSUME NEW r \in Requests, Refused(r)  PROVE Book'
  BY <1>6 DEF Refused, Clock, Clean, Deletion, Ids, files3, Book
<1>7. ASSUME NEW r \in Requests, RecordOwner(r)  PROVE Book'
  <2>1. OwnerRecorded(r)
    BY <1>7, RecordOwnerIs
  <2> QED
    BY <2>1 DEF OwnerRecorded, Ids, Clock, Clean, Deletion, Book
<1>8. ASSUME NEW r \in Requests, RecordPrompt(r)  PROVE Book'
  <2>1. PromptRecorded(r)
    BY <1>8, RecordPromptIs
  <2> QED
    BY <2>1 DEF PromptRecorded, Ids, Clock, Clean, Deletion, Book
<1>9. ASSUME NEW r \in Requests, LimitReads(r)  PROVE Book'
  BY <1>9 DEF LimitReads, Clock, Deletion, IInv, Types, Ids, files3, Book, UserImages
<1>10. ASSUME NEW r \in Requests, LimitWalks(r)  PROVE Book'
  <2>1. Walked(r)
    BY <1>10, LimitWalksIs
  <2>2. \A q \in Requests : /\ removed'[q] \subseteq Ids \ files /\ protected'[q] \subseteq Ids
                             /\ total'[q] \in Int
    BY <2>1 DEF Walked, Book
  <2> QED
    BY <2>1, <2>2 DEF Walked, files3, Clock, Deletion, Book, Ids
<1>11. ASSUME NEW r \in Requests, PurgeOne(r)  PROVE Book'
  <2>1. PurgedOne(r)
    BY <1>11, PurgeOneIs
  <2>2. PICK i \in files \ protected[r] :
          \/ Gone(i, "limit") /\ removed'[r] = removed[r] \cup {i} /\ UNCHANGED faults
          \/ UNCHANGED <<files, lost, removed, total>> /\ faults' \in Nat \ {0}
    BY <2>1 DEF PurgedOne
  <2>3. files' \subseteq files /\ Ids \ files' \subseteq DOMAIN lost' /\ faults' \in Nat
    BY <2>2 DEF Gone, Book
  <2>4. \A q \in Requests : total'[q] \in Int /\ removed'[q] \subseteq Ids \ files'
    <3>1. \A q \in Requests \ {r} : removed'[q] = removed[q] /\ total'[q] = total[q]
      BY <2>1 DEF PurgedOne
    <3>2. removed'[r] \subseteq Ids \ files'
      BY <2>2, <2>3 DEF Gone, Book, IInv, Types
    <3>3. total'[r] \in Int
      BY <2>1 DEF PurgedOne
    <3> QED
      BY <2>3, <3>1, <3>2, <3>3 DEF Book
  <2>5. /\ UNCHANGED <<born, protected, del>> /\ DOMAIN removed' = Requests /\ DOMAIN total' = Requests
    BY <2>1 DEF PurgedOne, Clock, Deletion
  <2> QED
    BY <2>3, <2>4, <2>5 DEF Book, Ids
<1>12. ASSUME NEW r \in Requests, PurgeEnds(r)  PROVE Book'
  <2>1. PurgeEnded(r)
    BY <1>12, PurgeEndsIs
  <2>2. Forgot(removed[r])
    BY <2>1, ForgetIs DEF PurgeEnded
  <2>3. \A q \in Requests : /\ removed'[q] \subseteq Ids \ files /\ protected'[q] \subseteq Ids
                             /\ total'[q] \in Int
    BY <2>1 DEF PurgeEnded, Book
  <2>4. UNCHANGED <<files, born, del, lost>> /\ DOMAIN removed' = Requests /\ DOMAIN total' = Requests
    BY <2>1 DEF PurgeEnded, Clock, Deletion
  <2>5. faults' \in Nat
    BY <2>2 DEF Forgot, Book
  <2> QED
    BY <2>3, <2>4, <2>5 DEF Book, Ids
<1>13. ASSUME NEW r \in Requests, Completed(r)  PROVE Book'
  BY <1>13 DEF Completed, Clock, Clean, Deletion, Ids, files3, Book
<1>14. ASSUME NEW r \in Requests, Overtaken(r)  PROVE Book'
  BY <1>14 DEF Overtaken, Clock, Clean, Deletion, Ids, files3, Book
<1>15. ASSUME NEW r \in Requests, UndoOne(r)  PROVE Book'
  <2>1. UndidOne(r)
    BY <1>15, UndoOneIs
  <2> QED
    BY <2>1 DEF UndidOne, Gone, Ids, Clock, Clean, Deletion, Book
<1>16. ASSUME NEW r \in Requests, UndoEnds(r)  PROVE Book'
  <2>1. UndoEnded(r)
    BY <1>16, UndoEndsIs
  <2>2. Forgot(saved[r])
    BY <2>1, ForgetIs DEF UndoEnded
  <2> QED
    BY <2>1, <2>2 DEF UndoEnded, Forgot, Ids, Clock, Clean, Deletion, Book
<1>17. ASSUME NEW r \in Requests, Crash(r)  PROVE Book'
  BY <1>17 DEF Crash, Clock, Clean, Deletion, Fault, Ids, files3, Book
<1>18. CASE DeleteReads
  BY <1>18 DEF DeleteReads, Clock, Clean, Idle, Ids, files3, Book
<1>19. CASE DeleteOne
  <2>1. DeletedOne
    BY <1>19, DeleteOneIs
  <2> QED
    BY <2>1 DEF DeletedOne, Gone, Ids, Clock, Clean, Book
<1>20. CASE DeleteEnds
  <2>1. DeleteEnded
    BY <1>20, DeleteEndsIs
  <2>2. Forgot(del.removed)
    BY <2>1, ForgetIs DEF DeleteEnded
  <2> QED
    BY <2>1, <2>2 DEF DeleteEnded, Forgot, Ids, Clock, Clean, Book
<1>21. CASE Tick
  BY <1>21 DEF Tick, Clean, Deletion, Ids, files3, Book
<1>22. CASE UNCHANGED vars
  BY <1>22 DEF vars, Ids, Book
<1> QED
  BY <1>1, <1>2, <1>3, <1>4, <1>5, <1>6, <1>7, <1>8, <1>9, <1>10, <1>11, <1>12, <1>13, <1>14,
     <1>15, <1>16, <1>17, <1>18, <1>19, <1>20, <1>21, <1>22
  DEF Next, RequestNext

(* A stored image keeps its owner: records are only forgotten of images    *)
(* that are gone.                                                          *)
LEMMA RecordedStep ==
  ASSUME IInv, Book, Recorded, Unrecorded, [Next]_vars
  PROVE  Recorded'
<1>1. ASSUME NEW r \in Requests, SweepStarts(r)  PROVE Recorded'
  BY <1>1 DEF IInv, Types, SweepStarts, Goto, files3, Recorded, Owner, IsNewest
<1>2. ASSUME NEW r \in Requests, SweepOne(r)  PROVE Recorded'
  BY <1>2 DEF SweepOne, Unlink, Recorded, Owner, IsNewest
<1>3. ASSUME NEW r \in Requests, SweepEnds(r)  PROVE Recorded'
  BY <1>3 DEF IInv, Types, SweepEnds, Goto, files3, Recorded, Owner, IsNewest
<1>4. ASSUME NEW r \in Requests, Write(r)  PROVE Recorded'
  BY <1>4 DEF Write, Goto, Writes, New, IInv, Types, Ids, Recorded, Owner, IsNewest
<1>5. ASSUME NEW r \in Requests, WriteFails(r)  PROVE Recorded'
  <2>1. GivesUp(r)
    BY <1>5, GiveUpIs DEF WriteFails
  <2> QED
    BY <1>5, <2>1 DEF GivesUp, WriteFails, Clean, Deletion, Fault, Writes, New, IInv, Types,
       Ids, Apart, Attributed, Book, Recorded, Owner, IsNewest
<1>6. ASSUME NEW r \in Requests, Refused(r)  PROVE Recorded'
  <2>1. GivesUp(r)
    BY <1>6, GiveUpIs DEF Refused
  <2> QED
    BY <1>6, <2>1 DEF GivesUp, Refused, files3, Recorded, Owner, IsNewest
<1>7. ASSUME NEW r \in Requests, RecordOwner(r)  PROVE Recorded'
  <2>1. OwnerRecorded(r)
    BY <1>7, RecordOwnerIs
  <2>2. CASE pc'[r] = "undo"
    BY <2>1, <2>2 DEF OwnerRecorded, Recorded, Owner, IsNewest
  <2>3. CASE pc'[r] # "undo"
    <3>1. PICK i \in saved[r] :
            /\ IsNewest(i, r) /\ DOMAIN owners' = DOMAIN owners \cup {i} /\ owners'[i] = OwnerOf[r]
            /\ \A j \in DOMAIN owners \ {i} : owners'[j] = owners[j]
      BY <2>1, <2>3 DEF OwnerRecorded
    <3>2. \A j \in saved[r] : IsNewest(j, r) => j = i
      BY <3>1 DEF IsNewest, IInv, Types, Ids
    <3>3. \A q \in Requests \ {r} : i \notin saved[q] /\ pc'[q] = pc[q]
      BY <2>1, <3>1 DEF IInv, Apart, OwnerRecorded
    <3>4. saved' = saved /\ files' = files /\ pc[r] = "owner"
      BY <2>1 DEF OwnerRecorded
    <3>5. \A j \in files \ {i} : Owner(j)' = Owner(j)
      BY <3>1 DEF Owner
    <3>6. \A j \in saved[r] \cap files : Owner(j)' = OwnerOf[r]
      <4>1. \A j \in saved[r] \cap files : j = i \/ Owner(j) = OwnerOf[r]
        BY <3>2, <3>4 DEF Recorded
      <4>2. Owner(i)' = OwnerOf[r]
        BY <3>1 DEF Owner
      <4> QED
        BY <4>1, <4>2, <3>5
    <3>7. ASSUME NEW q \in Requests \ {r}, pc'[q] \notin {"undo", "failed", "dead"},
                 NEW j \in saved[q] \cap files
          PROVE  Owner(j)' = OwnerOf[q] \/ (pc'[q] = "owner" /\ IsNewest(j, q))
      BY <3>3, <3>5, <3>7 DEF Recorded
    <3> QED
      BY <3>4, <3>6, <3>7 DEF Recorded, IsNewest
  <2> QED
    BY <2>2, <2>3
<1>8. ASSUME NEW r \in Requests, RecordPrompt(r)  PROVE Recorded'
  <2>1. PromptRecorded(r)
    BY <1>8, RecordPromptIs
  <2> QED
    BY <2>1 DEF PromptRecorded, Recorded, Owner, IsNewest
<1>9. ASSUME NEW r \in Requests, LimitReads(r)  PROVE Recorded'
  BY <1>9 DEF IInv, Types, LimitReads, Goto, files3, Recorded, Owner, IsNewest
<1>10. ASSUME NEW r \in Requests, LimitWalks(r)  PROVE Recorded'
  <2>1. Walked(r)
    BY <1>10, LimitWalksIs
  <2> QED
    BY <2>1 DEF Walked, files3, Deletion, Recorded, Owner, IsNewest
<1>11. ASSUME NEW r \in Requests, PurgeOne(r)  PROVE Recorded'
  <2>1. PurgedOne(r)
    BY <1>11, PurgeOneIs
  <2> QED
    BY <2>1 DEF PurgedOne, Gone, Recorded, Owner, IsNewest
<1>12. ASSUME NEW r \in Requests, PurgeEnds(r)  PROVE Recorded'
  <2>1. PurgeEnded(r)
    BY <1>12, PurgeEndsIs
  <2>2. Forgot(removed[r])
    BY <2>1, ForgetIs DEF PurgeEnded
  <2> QED
    BY <2>1, <2>2 DEF PurgeEnded, Forgot, Book, Recorded, Owner, IsNewest
<1>13. ASSUME NEW r \in Requests, Completed(r)  PROVE Recorded'
  BY <1>13 DEF IInv, Types, Completed, Goto, files3, Recorded, Owner, IsNewest
<1>14. ASSUME NEW r \in Requests, Overtaken(r)  PROVE Recorded'
  <2>1. GivesUp(r)
    BY <1>14, GiveUpIs DEF Overtaken
  <2> QED
    BY <1>14, <2>1 DEF GivesUp, Overtaken, files3, Recorded, Owner, IsNewest
<1>15. ASSUME NEW r \in Requests, UndoOne(r)  PROVE Recorded'
  <2>1. UndidOne(r)
    BY <1>15, UndoOneIs
  <2> QED
    BY <2>1 DEF UndidOne, Gone, Recorded, Owner, IsNewest
<1>16. ASSUME NEW r \in Requests, UndoEnds(r)  PROVE Recorded'
  <2>1. UndoEnded(r)
    BY <1>16, UndoEndsIs
  <2>2. Forgot(saved[r])
    BY <2>1, ForgetIs DEF UndoEnded
  <2> QED
    BY <2>1, <2>2 DEF UndoEnded, Forgot, IInv, Apart, Recorded, Owner, IsNewest
<1>17. ASSUME NEW r \in Requests, Crash(r)  PROVE Recorded'
  BY <1>17 DEF IInv, Types, Crash, Goto, files3, Recorded, Owner, IsNewest
<1>18. CASE DeleteReads
  BY <1>18 DEF DeleteReads, files3, Recorded, Owner, IsNewest
<1>19. CASE DeleteOne
  <2>1. DeletedOne
    BY <1>19, DeleteOneIs
  <2> QED
    BY <2>1 DEF DeletedOne, Gone, Recorded, Owner, IsNewest
<1>20. CASE DeleteEnds
  <2>1. DeleteEnded
    BY <1>20, DeleteEndsIs
  <2>2. Forgot(del.removed)
    BY <2>1, ForgetIs DEF DeleteEnded
  <2> QED
    BY <2>1, <2>2 DEF DeleteEnded, Forgot, Book, Recorded, Owner, IsNewest
<1>21. CASE Tick
  BY <1>21 DEF Tick, files3, Recorded, Owner, IsNewest
<1>22. CASE UNCHANGED vars
  BY <1>22 DEF vars, Recorded, Owner, IsNewest
<1> QED
  BY <1>1, <1>2, <1>3, <1>4, <1>5, <1>6, <1>7, <1>8, <1>9, <1>10, <1>11, <1>12, <1>13, <1>14,
     <1>15, <1>16, <1>17, <1>18, <1>19, <1>20, <1>21, <1>22
  DEF Next, RequestNext

(* Between its write and RecordOwner nobody has a record of an image.      *)
LEMMA UnrecordedStep ==
  ASSUME IInv, Book, Unrecorded, [Next]_vars
  PROVE  Unrecorded'
<1>1. ASSUME NEW r \in Requests, SweepStarts(r)  PROVE Unrecorded'
  BY <1>1 DEF IInv, Types, SweepStarts, Goto, files3, Unrecorded, IsNewest
<1>2. ASSUME NEW r \in Requests, SweepOne(r)  PROVE Unrecorded'
  BY <1>2 DEF SweepOne, Unlink, With, Unrecorded, IsNewest, Owner
<1>3. ASSUME NEW r \in Requests, SweepEnds(r)  PROVE Unrecorded'
  BY <1>3 DEF IInv, Types, SweepEnds, Goto, files3, Unrecorded, IsNewest
<1>4. ASSUME NEW r \in Requests, Write(r)  PROVE Unrecorded'
  BY <1>4 DEF Write, Goto, New, IInv, Types, Ids, Unrecorded, IsNewest
<1>5. ASSUME NEW r \in Requests, WriteFails(r)  PROVE Unrecorded'
  <2>1. GivesUp(r)
    BY <1>5, GiveUpIs DEF WriteFails
  <2> QED
    BY <1>5, <2>1 DEF GivesUp, WriteFails, Deletion, Unrecorded, IsNewest
<1>6. ASSUME NEW r \in Requests, Refused(r)  PROVE Unrecorded'
  <2>1. GivesUp(r)
    BY <1>6, GiveUpIs DEF Refused
  <2> QED
    BY <1>6, <2>1 DEF GivesUp, Refused, Clean, Deletion, files3, Unrecorded, IsNewest
<1>7. ASSUME NEW r \in Requests, RecordOwner(r)  PROVE Unrecorded'
  <2>1. OwnerRecorded(r)
    BY <1>7, RecordOwnerIs
  <2> QED
    BY <2>1 DEF OwnerRecorded, IInv, Clean, Deletion, Apart, Book, Unrecorded, IsNewest
<1>8. ASSUME NEW r \in Requests, RecordPrompt(r)  PROVE Unrecorded'
  <2>1. PromptRecorded(r)
    BY <1>8, RecordPromptIs
  <2> QED
    BY <2>1 DEF PromptRecorded, Unrecorded, IsNewest
<1>9. ASSUME NEW r \in Requests, LimitReads(r)  PROVE Unrecorded'
  BY <1>9 DEF IInv, Types, LimitReads, Goto, files3, Unrecorded, IsNewest
<1>10. ASSUME NEW r \in Requests, LimitWalks(r)  PROVE Unrecorded'
  <2>1. Walked(r)
    BY <1>10, LimitWalksIs
  <2> QED
    BY <2>1 DEF Walked, files3, Deletion, Unrecorded, IsNewest
<1>11. ASSUME NEW r \in Requests, PurgeOne(r)  PROVE Unrecorded'
  <2>1. PurgedOne(r)
    BY <1>11, PurgeOneIs
  <2> QED
    BY <2>1 DEF PurgedOne, Gone, Unrecorded, IsNewest, Owner
<1>12. ASSUME NEW r \in Requests, PurgeEnds(r)  PROVE Unrecorded'
  <2>1. PurgeEnded(r)
    BY <1>12, PurgeEndsIs
  <2>2. Forgot(removed[r])
    BY <2>1, ForgetIs DEF PurgeEnded
  <2> QED
    BY <2>1, <2>2 DEF PurgeEnded, Forgot, Deletion, Unrecorded, IsNewest
<1>13. ASSUME NEW r \in Requests, Completed(r)  PROVE Unrecorded'
  BY <1>13 DEF IInv, Types, Completed, Goto, files3, Unrecorded, IsNewest
<1>14. ASSUME NEW r \in Requests, Overtaken(r)  PROVE Unrecorded'
  <2>1. GivesUp(r)
    BY <1>14, GiveUpIs DEF Overtaken
  <2> QED
    BY <1>14, <2>1 DEF GivesUp, Overtaken, Clean, Deletion, files3, Unrecorded, IsNewest
<1>15. ASSUME NEW r \in Requests, UndoOne(r)  PROVE Unrecorded'
  <2>1. UndidOne(r)
    BY <1>15, UndoOneIs
  <2> QED
    BY <2>1 DEF UndidOne, Gone, Clock, Clean, Deletion, Unrecorded, IsNewest, Owner
<1>16. ASSUME NEW r \in Requests, UndoEnds(r)  PROVE Unrecorded'
  <2>1. UndoEnded(r)
    BY <1>16, UndoEndsIs
  <2>2. Forgot(saved[r])
    BY <2>1, ForgetIs DEF UndoEnded
  <2> QED
    BY <2>1, <2>2 DEF UndoEnded, Forgot, Unrecorded, IsNewest
<1>17. ASSUME NEW r \in Requests, Crash(r)  PROVE Unrecorded'
  BY <1>17 DEF IInv, Types, Crash, Goto, files3, Unrecorded, IsNewest
<1>18. CASE DeleteReads
  BY <1>18 DEF DeleteReads, files3, Unrecorded, IsNewest
<1>19. CASE DeleteOne
  <2>1. DeletedOne
    BY <1>19, DeleteOneIs
  <2> QED
    BY <2>1 DEF DeletedOne, Gone, Unrecorded, IsNewest, Owner
<1>20. CASE DeleteEnds
  <2>1. DeleteEnded
    BY <1>20, DeleteEndsIs
  <2>2. Forgot(del.removed)
    BY <2>1, ForgetIs DEF DeleteEnded
  <2> QED
    BY <2>1, <2>2 DEF DeleteEnded, Forgot, Unrecorded, IsNewest
<1>21. CASE Tick
  BY <1>21 DEF Tick, files3, Unrecorded, IsNewest
<1>22. CASE UNCHANGED vars
  BY <1>22 DEF vars, Unrecorded, IsNewest
<1> QED
  BY <1>1, <1>2, <1>3, <1>4, <1>5, <1>6, <1>7, <1>8, <1>9, <1>10, <1>11, <1>12, <1>13, <1>14,
     <1>15, <1>16, <1>17, <1>18, <1>19, <1>20, <1>21, <1>22
  DEF Next, RequestNext

(* Undoing goes through everything that was saved.                         *)
LEMMA UndoingStep ==
  ASSUME IInv, Book, Undoing, [Next]_vars
  PROVE  Undoing'
<1>1. ASSUME NEW r \in Requests, SweepStarts(r)  PROVE Undoing'
  BY <1>1 DEF IInv, Types, SweepStarts, Goto, files3, Undoing
<1>2. ASSUME NEW r \in Requests, SweepOne(r)  PROVE Undoing'
  BY <1>2 DEF SweepOne, Unlink, Undoing
<1>3. ASSUME NEW r \in Requests, SweepEnds(r)  PROVE Undoing'
  BY <1>3 DEF SweepEnds, Goto, CleanUpOver, IInv, Types, files3, Undoing
<1>4. ASSUME NEW r \in Requests, Write(r)  PROVE Undoing'
  BY <1>4 DEF Write, Goto, New, IInv, Types, Ids, Undoing
<1>5. ASSUME NEW r \in Requests, WriteFails(r)  PROVE Undoing'
  BY <1>5 DEF WriteFails, Fault, Book, Undoing
<1>6. ASSUME NEW r \in Requests, Refused(r)  PROVE Undoing'
  <2>1. GivesUp(r)
    BY <1>6, GiveUpIs DEF Refused
  <2>2. Keeps(r)
    BY <1>6, <2>1 DEF GivesUp, Refused, files3, Keeps
  <2> QED
    BY <2>2, UndoingKept
<1>7. ASSUME NEW r \in Requests, RecordOwner(r)  PROVE Undoing'
  <2>1. OwnerRecorded(r)
    BY <1>7, RecordOwnerIs
  <2>2. faults' = 0 => Keeps(r)
    BY <2>1 DEF OwnerRecorded, Keeps
  <2> QED
    BY <2>2, UndoingKept
<1>8. ASSUME NEW r \in Requests, RecordPrompt(r)  PROVE Undoing'
  <2>1. PromptRecorded(r)
    BY <1>8, RecordPromptIs
  <2>2. faults' = 0 => Keeps(r)
    BY <2>1 DEF PromptRecorded, Keeps
  <2> QED
    BY <2>2, UndoingKept
<1>9. ASSUME NEW r \in Requests, LimitReads(r)  PROVE Undoing'
  BY <1>9 DEF IInv, Types, LimitReads, Goto, files3, Undoing
<1>10. ASSUME NEW r \in Requests, LimitWalks(r)  PROVE Undoing'
  <2>1. Walked(r)
    BY <1>10, LimitWalksIs
  <2>2. faults' = 0 => Keeps(r)
    BY <2>1 DEF Walked, files3, Keeps
  <2> QED
    BY <2>2, UndoingKept
<1>11. ASSUME NEW r \in Requests, PurgeOne(r)  PROVE Undoing'
  <2>1. PurgedOne(r)
    BY <1>11, PurgeOneIs
  <2> QED
    BY <2>1 DEF PurgedOne, Gone, Ids, Clock, Deletion, Undoing
<1>12. ASSUME NEW r \in Requests, PurgeEnds(r)  PROVE Undoing'
  <2>1. PurgeEnded(r)
    BY <1>12, PurgeEndsIs
  <2>2. Forgot(removed[r])
    BY <2>1, ForgetIs DEF PurgeEnded
  <2>3. faults' = 0 => Keeps(r)
    BY <2>1, <2>2 DEF PurgeEnded, Forgot, Keeps
  <2> QED
    BY <2>3, UndoingKept
<1>13. ASSUME NEW r \in Requests, Completed(r)  PROVE Undoing'
  BY <1>13 DEF IInv, Types, Completed, Goto, files3, Undoing
<1>14. ASSUME NEW r \in Requests, Overtaken(r)  PROVE Undoing'
  <2>1. GivesUp(r)
    BY <1>14, GiveUpIs DEF Overtaken
  <2>2. Keeps(r)
    BY <1>14, <2>1 DEF GivesUp, Overtaken, files3, Keeps
  <2> QED
    BY <2>2, UndoingKept
<1>15. ASSUME NEW r \in Requests, UndoOne(r)  PROVE Undoing'
  <2>1. UndidOne(r)
    BY <1>15, UndoOneIs
  <2>2. faults' = 0 => Keeps(r)
    BY <2>1 DEF UndidOne, Gone, Undoing, Keeps
  <2> QED
    BY <2>2, UndoingKept
<1>16. ASSUME NEW r \in Requests, UndoEnds(r)  PROVE Undoing'
  <2>1. UndoEnded(r)
    BY <1>16, UndoEndsIs
  <2>2. Forgot(saved[r])
    BY <2>1, ForgetIs DEF UndoEnded
  <2>3. faults' = 0 => Keeps(r)
    BY <2>1, <2>2 DEF UndoEnded, Forgot, Keeps
  <2> QED
    BY <2>3, UndoingKept
<1>17. ASSUME NEW r \in Requests, Crash(r)  PROVE Undoing'
  BY <1>17 DEF Crash, Fault, Book, Undoing
<1>18. CASE DeleteReads
  BY <1>18 DEF DeleteReads, files3, Undoing
<1>19. CASE DeleteOne
  <2>1. DeletedOne
    BY <1>19, DeleteOneIs
  <2> QED
    BY <2>1 DEF DeletedOne, Gone, Undoing
<1>20. CASE DeleteEnds
  <2>1. DeleteEnded
    BY <1>20, DeleteEndsIs
  <2>2. Forgot(del.removed)
    BY <2>1, ForgetIs DEF DeleteEnded
  <2> QED
    BY <2>1, <2>2 DEF DeleteEnded, Forgot, Undoing
<1>21. CASE Tick
  BY <1>21 DEF Tick, files3, Undoing
<1>22. CASE UNCHANGED vars
  BY <1>22 DEF vars, Undoing
<1> QED
  BY <1>1, <1>2, <1>3, <1>4, <1>5, <1>6, <1>7, <1>8, <1>9, <1>10, <1>11, <1>12, <1>13, <1>14,
     <1>15, <1>16, <1>17, <1>18, <1>19, <1>20, <1>21, <1>22
  DEF Next, RequestNext

(* What a failed request had is not stored or recorded again.              *)
LEMMA UndoneStep ==
  ASSUME IInv, Book, Undoing, Undone, [Next]_vars
  PROVE  Undone'
<1>1. ASSUME NEW r \in Requests, SweepStarts(r)  PROVE Undone'
  BY <1>1 DEF IInv, Types, SweepStarts, Goto, files3, Undone
<1>2. ASSUME NEW r \in Requests, SweepOne(r)  PROVE Undone'
  BY <1>2 DEF SweepOne, Unlink, Undone
<1>3. ASSUME NEW r \in Requests, SweepEnds(r)  PROVE Undone'
  BY <1>3 DEF IInv, Types, SweepEnds, Goto, files3, Undone
<1>4. ASSUME NEW r \in Requests, Write(r)  PROVE Undone'
  BY <1>4 DEF Write, Goto, New, IInv, Types, Ids, Undone
<1>5. ASSUME NEW r \in Requests, WriteFails(r)  PROVE Undone'
  BY <1>5 DEF WriteFails, Fault, Book, Undone
<1>6. ASSUME NEW r \in Requests, Refused(r)  PROVE Undone'
  <2>1. GivesUp(r)
    BY <1>6, GiveUpIs DEF Refused
  <2> QED
    BY <1>6, <2>1 DEF GivesUp, Refused, files3, Undone
<1>7. ASSUME NEW r \in Requests, RecordOwner(r)  PROVE Undone'
  <2>1. OwnerRecorded(r)
    BY <1>7, RecordOwnerIs
  <2>2. faults' # 0 \/ \E i \in saved[r] : DOMAIN owners' = DOMAIN owners \cup {i}
    BY <2>1 DEF OwnerRecorded
  <2>3. \A q \in Requests \ {r} : saved[q] \cap saved[r] = {}
    BY DEF IInv, Apart
  <2> QED
    BY <2>1, <2>2, <2>3 DEF OwnerRecorded, Undone
<1>8. ASSUME NEW r \in Requests, RecordPrompt(r)  PROVE Undone'
  <2>1. PromptRecorded(r)
    BY <1>8, RecordPromptIs
  <2>2. faults' # 0 \/ \E i \in saved[r] : DOMAIN prompts' = DOMAIN prompts \cup {i}
    BY <2>1 DEF PromptRecorded
  <2>3. \A q \in Requests \ {r} : saved[q] \cap saved[r] = {}
    BY DEF IInv, Apart
  <2> QED
    BY <2>1, <2>2, <2>3 DEF PromptRecorded, Undone
<1>9. ASSUME NEW r \in Requests, LimitReads(r)  PROVE Undone'
  BY <1>9 DEF IInv, Types, LimitReads, Goto, files3, Undone
<1>10. ASSUME NEW r \in Requests, LimitWalks(r)  PROVE Undone'
  <2>1. Walked(r)
    BY <1>10, LimitWalksIs
  <2> QED
    BY <2>1 DEF Walked, files3, Undone
<1>11. ASSUME NEW r \in Requests, PurgeOne(r)  PROVE Undone'
  <2>1. PurgedOne(r)
    BY <1>11, PurgeOneIs
  <2> QED
    BY <2>1 DEF PurgedOne, Gone, Undone
<1>12. ASSUME NEW r \in Requests, PurgeEnds(r)  PROVE Undone'
  <2>1. PurgeEnded(r)
    BY <1>12, PurgeEndsIs
  <2>2. Forgot(removed[r])
    BY <2>1, ForgetIs DEF PurgeEnded
  <2> QED
    BY <2>1, <2>2 DEF PurgeEnded, Forgot, Undone
<1>13. ASSUME NEW r \in Requests, Completed(r)  PROVE Undone'
  BY <1>13 DEF IInv, Types, Completed, Goto, files3, Undone
<1>14. ASSUME NEW r \in Requests, Overtaken(r)  PROVE Undone'
  <2>1. GivesUp(r)
    BY <1>14, GiveUpIs DEF Overtaken
  <2> QED
    BY <1>14, <2>1 DEF GivesUp, Overtaken, files3, Undone
<1>15. ASSUME NEW r \in Requests, UndoOne(r)  PROVE Undone'
  <2>1. UndidOne(r)
    BY <1>15, UndoOneIs
  <2> QED
    BY <2>1 DEF UndidOne, Gone, Undone
<1>16. ASSUME NEW r \in Requests, UndoEnds(r)  PROVE Undone'
  <2>1. UndoEnded(r)
    BY <1>16, UndoEndsIs
  <2>2. Forgot(saved[r])
    BY <2>1, ForgetIs DEF UndoEnded
  <2> QED
    BY <2>1, <2>2 DEF UndoEnded, Forgot, Undoing, Undone
<1>17. ASSUME NEW r \in Requests, Crash(r)  PROVE Undone'
  BY <1>17 DEF Crash, Fault, Book, Undone
<1>18. CASE DeleteReads
  BY <1>18 DEF DeleteReads, files3, Undone
<1>19. CASE DeleteOne
  <2>1. DeletedOne
    BY <1>19, DeleteOneIs
  <2> QED
    BY <2>1 DEF DeletedOne, Gone, Undone
<1>20. CASE DeleteEnds
  <2>1. DeleteEnded
    BY <1>20, DeleteEndsIs
  <2>2. Forgot(del.removed)
    BY <2>1, ForgetIs DEF DeleteEnded
  <2> QED
    BY <2>1, <2>2 DEF DeleteEnded, Forgot, Undone
<1>21. CASE Tick
  BY <1>21 DEF Tick, files3, Undone
<1>22. CASE UNCHANGED vars
  BY <1>22 DEF vars, Undone
<1> QED
  BY <1>1, <1>2, <1>3, <1>4, <1>5, <1>6, <1>7, <1>8, <1>9, <1>10, <1>11, <1>12, <1>13, <1>14,
     <1>15, <1>16, <1>17, <1>18, <1>19, <1>20, <1>21, <1>22
  DEF Next, RequestNext

(* Whoever removes an image also forgets its record, but for the           *)
(* retention.                                                              *)
LEMMA LeftoversStep ==
  ASSUME IInv, Book, Unrecorded, Leftovers, [Next]_vars
  PROVE  Leftovers'
<1>1. ASSUME NEW r \in Requests, SweepStarts(r)  PROVE Leftovers'
  BY <1>1 DEF SweepStarts, Deletion, Goto, IInv, Types, Leftovers, Forgetting, files3
<1>2. ASSUME NEW r \in Requests, SweepOne(r)  PROVE Leftovers'
  BY <1>2 DEF SweepOne, Clean, Deletion, Unlink, With, IInv, Types, Book, Leftovers, Forgetting
<1>3. ASSUME NEW r \in Requests, SweepEnds(r)  PROVE Leftovers'
  BY <1>3 DEF IInv, Types, SweepEnds, Clock, Deletion, Goto, CleanUpOver, Apart,
     Unrecorded, Leftovers, Forgetting, files3
<1>4. ASSUME NEW r \in Requests, Write(r)  PROVE Leftovers'
  BY <1>4 DEF Write, Clean, Deletion, Goto, Writes, IInv, Types, Leftovers, Forgetting
<1>5. ASSUME NEW r \in Requests, WriteFails(r)  PROVE Leftovers'
  BY <1>5 DEF WriteFails, Fault, Book, Leftovers
<1>6. ASSUME NEW r \in Requests, Refused(r)  PROVE Leftovers'
  <2>1. GivesUp(r)
    BY <1>6, GiveUpIs DEF Refused
  <2> QED
    BY <1>6, <2>1 DEF GivesUp, Refused, Clean, Deletion, Leftovers, Forgetting, files3
<1>7. ASSUME NEW r \in Requests, RecordOwner(r)  PROVE Leftovers'
  <2>1. OwnerRecorded(r)
    BY <1>7, RecordOwnerIs
  <2>2. \A i : Forgetting(i) => Forgetting(i)'
    BY <2>1 DEF OwnerRecorded, Forgetting, Clean, Deletion
  <2>3. lost' = lost /\ files' = files
    BY <2>1 DEF OwnerRecorded
  <2>4. CASE pc'[r] = "undo"
    BY <2>1, <2>4 DEF OwnerRecorded, Leftovers
  <2>5. CASE pc'[r] = "prompt"
    <3>1. PICK i \in saved[r] : IsNewest(i, r) /\ DOMAIN owners' = DOMAIN owners \cup {i}
      BY <2>1, <2>5 DEF OwnerRecorded
    <3>2. i \in files \/ lost[i].had = "none"
      BY <2>1, <3>1 DEF OwnerRecorded, Unrecorded, Book, IInv, Types
    <3>3. faults' = faults
      BY <2>1, <2>5 DEF OwnerRecorded
    <3> QED
      BY <2>2, <2>3, <3>1, <3>2, <3>3 DEF Leftovers
  <2> QED
    BY <2>1, <2>4, <2>5 DEF OwnerRecorded
<1>8. ASSUME NEW r \in Requests, RecordPrompt(r)  PROVE Leftovers'
  <2>1. PromptRecorded(r)
    BY <1>8, RecordPromptIs
  <2>2. faults' = 0 => faults = 0
    BY <2>1 DEF PromptRecorded
  <2>3. \A i : Forgetting(i) => Forgetting(i)'
    BY <2>1 DEF PromptRecorded, Forgetting, Clean, Deletion
  <2> QED
    BY <2>1, <2>2, <2>3 DEF PromptRecorded, Leftovers
<1>9. ASSUME NEW r \in Requests, LimitReads(r)  PROVE Leftovers'
  BY <1>9 DEF LimitReads, Deletion, Goto, IInv, Types, Leftovers, Forgetting, files3
<1>10. ASSUME NEW r \in Requests, LimitWalks(r)  PROVE Leftovers'
  <2>1. Walked(r)
    BY <1>10, LimitWalksIs
  <2>2. \A i : Forgetting(i) => Forgetting(i)'
    BY <2>1 DEF Walked, Forgetting, Deletion
  <2> QED
    BY <2>1, <2>2, LeftoversKept DEF Walked, files3
<1>11. ASSUME NEW r \in Requests, PurgeOne(r)  PROVE Leftovers'
  <2>1. PurgedOne(r)
    BY <1>11, PurgeOneIs
  <2>2. faults' = 0 => faults = 0
    BY <2>1 DEF PurgedOne
  <2>3. \A i : Forgetting(i) => Forgetting(i)'
    BY <2>1 DEF PurgedOne, Forgetting, Deletion
  <2>4. \/ UNCHANGED <<files, lost>>
        \/ \E i \in files : Gone(i, "limit") /\ i \in removed'[r] /\ pc'[r] = "purge"
    BY <2>1 DEF PurgedOne
  <2>5. \/ UNCHANGED <<files, lost>>
        \/ \E i \in files : Gone(i, "limit") /\ Forgetting(i)'
    BY <2>4 DEF Forgetting
  <2>6. owners' = owners
    BY <2>1 DEF PurgedOne
  <2> QED
    BY <2>2, <2>3, <2>5, <2>6, LeftoversKept
<1>12. ASSUME NEW r \in Requests, PurgeEnds(r)  PROVE Leftovers'
  <2>1. PurgeEnded(r)
    BY <1>12, PurgeEndsIs
  <2>2. Forgot(removed[r])
    BY <2>1, ForgetIs DEF PurgeEnded
  <2>3. faults' = 0 => faults = 0 /\ DOMAIN owners' = DOMAIN owners \ removed[r]
    BY <2>2 DEF Forgot
  <2>4. \A i : Forgetting(i) => i \in removed[r] \/ Forgetting(i)'
    BY <2>1 DEF PurgeEnded, Forgetting, Deletion
  <2> QED
    BY <2>1, <2>3, <2>4 DEF PurgeEnded, Leftovers
<1>13. ASSUME NEW r \in Requests, Completed(r)  PROVE Leftovers'
  BY <1>13 DEF Completed, Clean, Deletion, Goto, IInv, Types, Leftovers, Forgetting, files3
<1>14. ASSUME NEW r \in Requests, Overtaken(r)  PROVE Leftovers'
  <2>1. GivesUp(r)
    BY <1>14, GiveUpIs DEF Overtaken
  <2> QED
    BY <1>14, <2>1 DEF GivesUp, Overtaken, Clean, Deletion, Leftovers, Forgetting, files3
<1>15. ASSUME NEW r \in Requests, UndoOne(r)  PROVE Leftovers'
  <2>1. UndidOne(r)
    BY <1>15, UndoOneIs
  <2>2. faults' = 0 => faults = 0
    BY <2>1 DEF UndidOne
  <2>3. \A i : Forgetting(i) => Forgetting(i)'
    BY <2>1 DEF UndidOne, Forgetting, Clean, Deletion
  <2>4. \/ UNCHANGED <<files, lost>>
        \/ \E i \in files : Gone(i, "undo") /\ i \in saved'[r] /\ pc'[r] = "undo"
    BY <2>1 DEF UndidOne, Gone
  <2>5. \/ UNCHANGED <<files, lost>>
        \/ \E i \in files : Gone(i, "undo") /\ Forgetting(i)'
    BY <2>4 DEF Forgetting
  <2>6. owners' = owners
    BY <2>1 DEF UndidOne
  <2> QED
    BY <2>2, <2>3, <2>5, <2>6, LeftoversKept
<1>16. ASSUME NEW r \in Requests, UndoEnds(r)  PROVE Leftovers'
  <2>1. UndoEnded(r)
    BY <1>16, UndoEndsIs
  <2>2. Forgot(saved[r])
    BY <2>1, ForgetIs DEF UndoEnded
  <2> QED
    BY <2>1, <2>2 DEF UndoEnded, Forgot, Clean, Deletion, Leftovers, Forgetting
<1>17. ASSUME NEW r \in Requests, Crash(r)  PROVE Leftovers'
  BY <1>17 DEF Crash, Fault, Book, Leftovers
<1>18. CASE DeleteReads
  BY <1>18 DEF DeleteReads, Clean, Leftovers, Forgetting, files3
<1>19. CASE DeleteOne
  <2>1. DeletedOne
    BY <1>19, DeleteOneIs
  <2> QED
    BY <2>1 DEF DeletedOne, Gone, IInv, Types, Clean, Book, Leftovers, Forgetting
<1>20. CASE DeleteEnds
  <2>1. DeleteEnded
    BY <1>20, DeleteEndsIs
  <2>2. Forgot(del.removed)
    BY <2>1, ForgetIs DEF DeleteEnded
  <2> QED
    BY <2>1, <2>2 DEF DeleteEnded, Forgot, Clean, Leftovers, Forgetting
<1>21. CASE Tick
  BY <1>21 DEF Tick, Clean, Deletion, Leftovers, Forgetting, files3
<1>22. CASE UNCHANGED vars
  BY <1>22 DEF vars, Leftovers, Forgetting
<1> QED
  BY <1>1, <1>2, <1>3, <1>4, <1>5, <1>6, <1>7, <1>8, <1>9, <1>10, <1>11, <1>12, <1>13, <1>14,
     <1>15, <1>16, <1>17, <1>18, <1>19, <1>20, <1>21, <1>22
  DEF Next, RequestNext

(* An answer has images.                                                   *)
LEMMA HasSavedStep ==
  ASSUME IInv, Book, HasSaved, [Next]_vars
  PROVE  HasSaved'
<1>1. ASSUME NEW r \in Requests, SweepStarts(r)  PROVE HasSaved'
  BY <1>1 DEF IInv, Types, SweepStarts, Goto, HasSaved
<1>2. ASSUME NEW r \in Requests, SweepOne(r)  PROVE HasSaved'
  BY <1>2 DEF SweepOne, HasSaved
<1>3. ASSUME NEW r \in Requests, SweepEnds(r)  PROVE HasSaved'
  BY <1>3 DEF IInv, Types, SweepEnds, Goto, HasSaved
<1>4. ASSUME NEW r \in Requests, Write(r)  PROVE HasSaved'
  BY <1>4 DEF Write, Goto, IInv, Types, HasSaved
<1>5. ASSUME NEW r \in Requests, WriteFails(r)  PROVE HasSaved'
  <2>1. GivesUp(r)
    BY <1>5, GiveUpIs DEF WriteFails
  <2> QED
    BY <1>5, <2>1 DEF GivesUp, WriteFails, HasSaved
<1>6. ASSUME NEW r \in Requests, Refused(r)  PROVE HasSaved'
  <2>1. GivesUp(r)
    BY <1>6, GiveUpIs DEF Refused
  <2> QED
    BY <1>6, <2>1 DEF GivesUp, Refused, HasSaved
<1>7. ASSUME NEW r \in Requests, RecordOwner(r)  PROVE HasSaved'
  <2>1. OwnerRecorded(r)
    BY <1>7, RecordOwnerIs
  <2> QED
    BY <2>1 DEF OwnerRecorded, HasSaved
<1>8. ASSUME NEW r \in Requests, RecordPrompt(r)  PROVE HasSaved'
  <2>1. PromptRecorded(r)
    BY <1>8, RecordPromptIs
  <2> QED
    BY <2>1 DEF PromptRecorded, HasSaved
<1>9. ASSUME NEW r \in Requests, LimitReads(r)  PROVE HasSaved'
  BY <1>9 DEF IInv, Types, LimitReads, Goto, HasSaved
<1>10. ASSUME NEW r \in Requests, LimitWalks(r)  PROVE HasSaved'
  <2>1. Walked(r)
    BY <1>10, LimitWalksIs
  <2> QED
    BY <2>1 DEF Walked, HasSaved
<1>11. ASSUME NEW r \in Requests, PurgeOne(r)  PROVE HasSaved'
  <2>1. PurgedOne(r)
    BY <1>11, PurgeOneIs
  <2> QED
    BY <2>1 DEF PurgedOne, HasSaved
<1>12. ASSUME NEW r \in Requests, PurgeEnds(r)  PROVE HasSaved'
  <2>1. PurgeEnded(r)
    BY <1>12, PurgeEndsIs
  <2> QED
    BY <2>1 DEF PurgeEnded, HasSaved
<1>13. ASSUME NEW r \in Requests, Completed(r)  PROVE HasSaved'
  BY <1>13 DEF IInv, Types, Completed, Goto, HasSaved
<1>14. ASSUME NEW r \in Requests, Overtaken(r)  PROVE HasSaved'
  <2>1. GivesUp(r)
    BY <1>14, GiveUpIs DEF Overtaken
  <2> QED
    BY <1>14, <2>1 DEF GivesUp, Overtaken, HasSaved
<1>15. ASSUME NEW r \in Requests, UndoOne(r)  PROVE HasSaved'
  <2>1. UndidOne(r)
    BY <1>15, UndoOneIs
  <2> QED
    BY <2>1 DEF UndidOne, HasSaved
<1>16. ASSUME NEW r \in Requests, UndoEnds(r)  PROVE HasSaved'
  <2>1. UndoEnded(r)
    BY <1>16, UndoEndsIs
  <2> QED
    BY <2>1 DEF UndoEnded, HasSaved
<1>17. ASSUME NEW r \in Requests, Crash(r)  PROVE HasSaved'
  BY <1>17 DEF IInv, Types, Crash, Goto, HasSaved
<1>18. CASE DeleteReads
  BY <1>18 DEF DeleteReads, HasSaved
<1>19. CASE DeleteOne
  <2>1. DeletedOne
    BY <1>19, DeleteOneIs
  <2> QED
    BY <2>1 DEF DeletedOne, HasSaved
<1>20. CASE DeleteEnds
  <2>1. DeleteEnded
    BY <1>20, DeleteEndsIs
  <2> QED
    BY <2>1 DEF DeleteEnded, HasSaved
<1>21. CASE Tick
  BY <1>21 DEF Tick, HasSaved
<1>22. CASE UNCHANGED vars
  BY <1>22 DEF vars, HasSaved
<1> QED
  BY <1>1, <1>2, <1>3, <1>4, <1>5, <1>6, <1>7, <1>8, <1>9, <1>10, <1>11, <1>12, <1>13, <1>14,
     <1>15, <1>16, <1>17, <1>18, <1>19, <1>20, <1>21, <1>22
  DEF Next, RequestNext

(* What a clean-up has read stays true: no user's record goes while the    *)
(* file is there.                                                          *)
LEMMA ProtectedOwnedStep ==
  ASSUME IInv, Book, Undoing, ProtectedOwned, [Next]_vars
  PROVE  ProtectedOwned'
<1>1. ASSUME NEW r \in Requests, SweepStarts(r)  PROVE ProtectedOwned'
  BY <1>1 DEF IInv, Types, SweepStarts, Goto, ProtectedOwned, UserImages, files3
<1>2. ASSUME NEW r \in Requests, SweepOne(r)  PROVE ProtectedOwned'
  BY <1>2 DEF SweepOne, Clock, Clean, Unlink, ProtectedOwned, UserImages
<1>3. ASSUME NEW r \in Requests, SweepEnds(r)  PROVE ProtectedOwned'
  BY <1>3 DEF IInv, Types, SweepEnds, Clock, Goto, CleanUpOver, ProtectedOwned, UserImages,
     files3
<1>4. ASSUME NEW r \in Requests, Write(r)  PROVE ProtectedOwned'
  <2>1. /\ files' = files \cup {New} /\ New \notin Ids /\ UNCHANGED <<owners, protect, protected, faults>>
        /\ \A q \in Requests : saved[q] \subseteq saved'[q]
    BY <1>4, Numbered DEF Write, Clean, IInv
  <2>2. \A q \in Requests : pc'[q] \in {"walk", "purge"} => pc[q] \in {"walk", "purge"}
    BY <1>4 DEF IInv, Types, Write, Goto
  <2> QED
    BY <2>1, <2>2 DEF ProtectedOwned, UserImages, Book
<1>5. ASSUME NEW r \in Requests, WriteFails(r)  PROVE ProtectedOwned'
  BY <1>5 DEF WriteFails, Fault, Book, ProtectedOwned
<1>6. ASSUME NEW r \in Requests, Refused(r)  PROVE ProtectedOwned'
  <2>1. GivesUp(r)
    BY <1>6, GiveUpIs DEF Refused
  <2> QED
    BY <1>6, <2>1 DEF GivesUp, Refused, Clock, Clean, ProtectedOwned, UserImages, files3
<1>7. ASSUME NEW r \in Requests, RecordOwner(r)  PROVE ProtectedOwned'
  <2>1. OwnerRecorded(r)
    BY <1>7, RecordOwnerIs
  <2>2. \A i \in DOMAIN owners : i \in DOMAIN owners' /\ owners'[i] = owners[i]
    BY <2>1 DEF OwnerRecorded, IInv, Attributed
  <2>3. UserImages \subseteq UserImages'
    BY <2>1, <2>2 DEF UserImages, OwnerRecorded, Clock
  <2> QED
    BY <2>1, <2>3 DEF OwnerRecorded, ProtectedOwned, Clean
<1>8. ASSUME NEW r \in Requests, RecordPrompt(r)  PROVE ProtectedOwned'
  <2>1. PromptRecorded(r)
    BY <1>8, RecordPromptIs
  <2> QED
    BY <2>1 DEF PromptRecorded, Clock, Clean, ProtectedOwned, UserImages
<1>9. ASSUME NEW r \in Requests, LimitReads(r)  PROVE ProtectedOwned'
  BY <1>9 DEF LimitReads, Clock, Goto, IInv, Types, ProtectedOwned, UserImages, files3
<1>10. ASSUME NEW r \in Requests, LimitWalks(r)  PROVE ProtectedOwned'
  <2>1. Walked(r)
    BY <1>10, LimitWalksIs
  <2> QED
    BY <2>1 DEF Walked, Clock, ProtectedOwned, UserImages, files3
<1>11. ASSUME NEW r \in Requests, PurgeOne(r)  PROVE ProtectedOwned'
  <2>1. PurgedOne(r)
    BY <1>11, PurgeOneIs
  <2> QED
    BY <2>1 DEF PurgedOne, Gone, Clock, ProtectedOwned, UserImages
<1>12. ASSUME NEW r \in Requests, PurgeEnds(r)  PROVE ProtectedOwned'
  <2>1. PurgeEnded(r)
    BY <1>12, PurgeEndsIs
  <2>2. Forgot(removed[r])
    BY <2>1, ForgetIs DEF PurgeEnded
  <2> SUFFICES ASSUME faults' = 0  PROVE ProtectedOwned'
    BY DEF ProtectedOwned
  <2>3. faults = 0 /\ files' = files /\ saved' = saved /\ protect' = protect
    BY <2>1, <2>2 DEF PurgeEnded, Forgot, Clock
  <2>4. removed[r] \cap files = {}
    BY DEF Book
  <2>5. UserImages \cap files' \subseteq UserImages'
    BY <2>2, <2>3, <2>4, ForgotOther
  <2> QED
    BY <2>1, <2>3, <2>5 DEF PurgeEnded, ProtectedOwned
<1>13. ASSUME NEW r \in Requests, Completed(r)  PROVE ProtectedOwned'
  BY <1>13 DEF IInv, Types, Completed, Clock, Clean, Goto, ProtectedOwned, UserImages, files3
<1>14. ASSUME NEW r \in Requests, Overtaken(r)  PROVE ProtectedOwned'
  <2>1. GivesUp(r)
    BY <1>14, GiveUpIs DEF Overtaken
  <2> QED
    BY <1>14, <2>1 DEF GivesUp, Overtaken, Clock, Clean, ProtectedOwned, UserImages, files3
<1>15. ASSUME NEW r \in Requests, UndoOne(r)  PROVE ProtectedOwned'
  <2>1. UndidOne(r)
    BY <1>15, UndoOneIs
  <2> QED
    BY <2>1 DEF UndidOne, Gone, Clock, Clean, ProtectedOwned, UserImages
<1>16. ASSUME NEW r \in Requests, UndoEnds(r)  PROVE ProtectedOwned'
  <2>1. UndoEnded(r)
    BY <1>16, UndoEndsIs
  <2>2. Forgot(saved[r])
    BY <2>1, ForgetIs DEF UndoEnded
  <2> SUFFICES ASSUME faults' = 0  PROVE ProtectedOwned'
    BY DEF ProtectedOwned
  <2>3. faults = 0 /\ files' = files /\ saved' = saved /\ protect' = protect
    BY <2>1, <2>2 DEF UndoEnded, Forgot, Clock
  <2>4. saved[r] \cap files = {}
    BY <2>1, <2>3 DEF UndoEnded, Undoing
  <2>5. UserImages \cap files' \subseteq UserImages'
    BY <2>2, <2>3, <2>4, ForgotOther
  <2> QED
    BY <2>1, <2>3, <2>5 DEF UndoEnded, ProtectedOwned, Clean
<1>17. ASSUME NEW r \in Requests, Crash(r)  PROVE ProtectedOwned'
  BY <1>17 DEF Crash, Fault, Book, ProtectedOwned
<1>18. CASE DeleteReads
  BY <1>18 DEF DeleteReads, Clock, Clean, ProtectedOwned, UserImages, files3
<1>19. CASE DeleteOne
  <2>1. DeletedOne
    BY <1>19, DeleteOneIs
  <2> QED
    BY <2>1 DEF DeletedOne, Gone, Clock, Clean, ProtectedOwned, UserImages
<1>20. CASE DeleteEnds
  <2>1. DeleteEnded
    BY <1>20, DeleteEndsIs
  <2>2. Forgot(del.removed)
    BY <2>1, ForgetIs DEF DeleteEnded
  <2> QED
    BY <2>1, <2>2 DEF DeleteEnded, Forgot, Clock, Clean, Book, ProtectedOwned, UserImages
<1>21. CASE Tick
  BY <1>21 DEF Tick, Clean, ProtectedOwned, UserImages, files3
<1>22. CASE UNCHANGED vars
  BY <1>22 DEF vars, ProtectedOwned, UserImages
<1> QED
  BY <1>1, <1>2, <1>3, <1>4, <1>5, <1>6, <1>7, <1>8, <1>9, <1>10, <1>11, <1>12, <1>13, <1>14,
     <1>15, <1>16, <1>17, <1>18, <1>19, <1>20, <1>21, <1>22
  DEF Next, RequestNext

(* The last to count finds the storage within the limit or starts to purge,*)
(* and a purge ends within the limit or with nothing but what is protected.*)
LEMMA WithinStep ==
  ASSUME IInv, Book, Undoing, ProtectedOwned, Within, [Next]_vars
  PROVE  Within'
<1>1. ASSUME NEW r \in Requests, SweepStarts(r)  PROVE Within'
  <2>1. faults' = 0 => Harmless
    BY <1>1 DEF IInv, Types, SweepStarts, Goto, ToWalk, UserImages, Same, Harmless, files3
  <2> QED
    BY <2>1, WithinKept
<1>2. ASSUME NEW r \in Requests, SweepOne(r)  PROVE Within'
  <2>1. faults' = 0 => Harmless
    BY <1>2 DEF SweepOne, Unlink, ToWalk, UserImages, Same, Harmless, Clock, Clean
  <2> QED
    BY <2>1, WithinKept
<1>3. ASSUME NEW r \in Requests, SweepEnds(r)  PROVE Within'
  <2>1. faults' = 0 => Harmless
    BY <1>3 DEF IInv, Types, SweepEnds, Goto, CleanUpOver, ToWalk, UserImages, Same,
       Harmless, files3, Clock
  <2> QED
    BY <2>1, WithinKept
<1>4. ASSUME NEW r \in Requests, Write(r)  PROVE Within'
  <2>1. r \in ToWalk'
    BY <1>4 DEF Write, Goto, ToWalk, IInv, Types
  <2> QED
    BY <2>1 DEF Within
<1>5. ASSUME NEW r \in Requests, WriteFails(r)  PROVE Within'
  <2>1. faults' # 0
    BY <1>5 DEF WriteFails, Fault, Book
  <2> QED
    BY <2>1 DEF Within
<1>6. ASSUME NEW r \in Requests, Refused(r)  PROVE Within'
  <2>1. GivesUp(r)
    BY <1>6, GiveUpIs DEF Refused
  <2>2. faults' = 0 => Harmless
    BY <1>6, <2>1 DEF GivesUp, Refused, ToWalk, UserImages, Same, Harmless, files3, Clock,
       Clean
  <2> QED
    BY <2>2, WithinKept
<1>7. ASSUME NEW r \in Requests, RecordOwner(r)  PROVE Within'
  <2>1. OwnerRecorded(r)
    BY <1>7, RecordOwnerIs
  <2>2. faults' # 0 \/ r \in ToWalk'
    BY <2>1 DEF OwnerRecorded, ToWalk
  <2> QED
    BY <2>2 DEF Within
<1>8. ASSUME NEW r \in Requests, RecordPrompt(r)  PROVE Within'
  <2>1. PromptRecorded(r)
    BY <1>8, RecordPromptIs
  <2>2. faults' # 0 \/ r \in ToWalk'
    BY <2>1 DEF PromptRecorded, ToWalk
  <2> QED
    BY <2>2 DEF Within
<1>9. ASSUME NEW r \in Requests, LimitReads(r)  PROVE Within'
  <2>1. r \in ToWalk'
    BY <1>9 DEF IInv, Types, LimitReads, Goto, ToWalk
  <2> QED
    BY <2>1 DEF Within
<1>10. ASSUME NEW r \in Requests, LimitWalks(r)  PROVE Within'
  <2>1. Walked(r)
    BY <1>10, LimitWalksIs
  <2>2. CASE Cardinality(files) <= Limit
    BY <2>1, <2>2 DEF Walked, files3, Within
  <2>3. CASE ~(Cardinality(files) <= Limit)
    <3>1. Purging(r)'
      BY <2>1, <2>3, FilesFinite DEF Walked, files3, Purging
    <3> QED
      BY <3>1 DEF Within
  <2> QED
    BY <2>2, <2>3
<1>11. ASSUME NEW r \in Requests, PurgeOne(r)  PROVE Within'
  <2>1. PurgedOne(r)
    BY <1>11, PurgeOneIs
  <2>2. ASSUME faults' = 0, Purging(r)  PROVE Purging(r)'
    <3>1. PICK i \in files \ protected[r] :
            /\ \A p \in Candidates(r) : p[2] = i \/ p \in todo'[r]
            /\ files' = files \ {i} /\ total'[r] = total[r] - 1
      BY <2>1, <2>2 DEF PurgedOne, Gone
    <3>2. Cardinality(files') <= total'[r]
      <4>1. Cardinality(files') = Cardinality(files) - 1
        BY <3>1, FilesFinite, FS_RemoveElement
      <4>2. Cardinality(files) <= total[r] /\ total[r] \in Int
        BY <2>2 DEF Purging, Book
      <4> QED
        BY <3>1, <4>1, <4>2, FilesFinite
    <3>3. pc'[r] = "purge" /\ protected'[r] = protected[r]
      BY <2>1, <2>2 DEF PurgedOne
    <3>4. ASSUME NEW j \in files' \ protected[r]  PROVE \E p \in todo'[r] : p[2] = j
      <4>1. PICK p \in todo[r] : p[2] = j
        BY <2>2, <3>1 DEF Purging
      <4>2. p \in Candidates(r) /\ p[2] # i
        BY <3>1, <4>1 DEF Candidates
      <4> QED
        BY <3>1, <4>1, <4>2
    <3> QED
      BY <3>2, <3>3, <3>4 DEF Purging
  <2>3. /\ files' \subseteq files /\ UserImages' = UserImages /\ ToWalk' = ToWalk /\ saved' = saved
        /\ \A q \in Requests \ {r} : Same(q) /\ (faults' = 0 => faults = 0)
    BY <2>1 DEF PurgedOne, Gone, UserImages, ToWalk, Same, Clock
  <2>4. saved' = saved /\ (faults' = 0 => faults = 0)
    BY <2>1, <1>11 DEF PurgedOne
  <2>5. faults' = 0 => Harmless
    BY <2>2, <2>3, <2>4 DEF Harmless
  <2> QED
    BY <2>5, WithinKept
<1>12. ASSUME NEW r \in Requests, PurgeEnds(r)  PROVE Within'
  <2>1. PurgeEnded(r)
    BY <1>12, PurgeEndsIs
  <2>2. Forgot(removed[r])
    BY <2>1, ForgetIs DEF PurgeEnded
  <2>3. SUFFICES ASSUME faults' = 0  PROVE Within'
    BY DEF Within
  <2>4. faults = 0 /\ files' = files /\ saved' = saved /\ UserImages \cap files' \subseteq UserImages'
    <3>1. faults = 0 /\ files' = files /\ saved' = saved /\ protect' = protect
      BY <2>1, <2>2, <2>3 DEF PurgeEnded, Forgot, Clock
    <3>2. removed[r] \cap files = {}
      BY DEF Book
    <3> QED
      BY <2>2, <2>3, <3>1, <3>2, ForgotOther
  <2>5. CASE Purging(r)
    <3>1. CASE total[r] <= Limit
      <4>1. Cardinality(files') <= Limit
        BY <2>4, <2>5, <3>1, FilesFinite, StorageAssumption DEF Purging, Book
      <4> QED
        BY <4>1 DEF Within
    <3>2. CASE Candidates(r) = {}
      <4>1. files \subseteq protected[r]
        BY <2>5, <3>2 DEF Purging, Candidates
      <4>2. files \subseteq saved[r] \cup UserImages
        BY <2>1, <2>4, <4>1 DEF PurgeEnded, ProtectedOwned
      <4>3. files' \subseteq saved'[r] \cup UserImages'
        BY <2>4, <4>2
      <4> QED
        BY <4>3 DEF Within
    <3> QED
      BY <2>1, <3>1, <3>2 DEF PurgeEnded
  <2>6. CASE ~Purging(r)
    <3>1. Harmless
      BY <2>1, <2>4, <2>6 DEF PurgeEnded, Harmless, Same, ToWalk
    <3> QED
      BY <3>1, WithinKept
  <2> QED
    BY <2>5, <2>6
<1>13. ASSUME NEW r \in Requests, Completed(r)  PROVE Within'
  <2>1. faults' = 0 => Harmless
    BY <1>13 DEF IInv, Types, Completed, Goto, ToWalk, UserImages, Same, Harmless, files3,
       Clock, Clean
  <2> QED
    BY <2>1, WithinKept
<1>14. ASSUME NEW r \in Requests, Overtaken(r)  PROVE Within'
  <2>1. GivesUp(r)
    BY <1>14, GiveUpIs DEF Overtaken
  <2>2. faults' = 0 => Harmless
    BY <1>14, <2>1 DEF GivesUp, Overtaken, ToWalk, UserImages, Same, Harmless, files3, Clock,
       Clean
  <2> QED
    BY <2>2, WithinKept
<1>15. ASSUME NEW r \in Requests, UndoOne(r)  PROVE Within'
  <2>1. UndidOne(r)
    BY <1>15, UndoOneIs
  <2>2. faults' = 0 => Harmless
    BY <2>1 DEF UndidOne, Gone, ToWalk, UserImages, Same, Harmless, Clock, Clean
  <2> QED
    BY <2>2, WithinKept
<1>16. ASSUME NEW r \in Requests, UndoEnds(r)  PROVE Within'
  <2>1. UndoEnded(r)
    BY <1>16, UndoEndsIs
  <2>2. Forgot(saved[r])
    BY <2>1, ForgetIs DEF UndoEnded
  <2>3. faults' = 0 => faults = 0 /\ UserImages \cap files' \subseteq UserImages'
    <3> SUFFICES ASSUME faults' = 0  PROVE faults = 0 /\ UserImages \cap files' \subseteq UserImages'
      OBVIOUS
    <3>1. faults = 0 /\ files' = files /\ protect' = protect
      BY <2>1, <2>2 DEF UndoEnded, Forgot, Clock
    <3>2. saved[r] \cap files = {}
      BY <2>1, <3>1 DEF UndoEnded, Undoing
    <3> QED
      BY <2>2, <3>1, <3>2, ForgotOther
  <2>4. faults' = 0 => Harmless
    BY <2>1, <2>3 DEF UndoEnded, Harmless, Same, ToWalk, Clean
  <2> QED
    BY <2>4, WithinKept
<1>17. ASSUME NEW r \in Requests, Crash(r)  PROVE Within'
  <2>1. faults' # 0
    BY <1>17 DEF Crash, Fault, Book
  <2> QED
    BY <2>1 DEF Within
<1>18. CASE DeleteReads
  <2>1. faults' = 0 => Harmless
    BY <1>18 DEF DeleteReads, ToWalk, UserImages, Same, Harmless, files3, Clock, Clean
  <2> QED
    BY <2>1, WithinKept
<1>19. CASE DeleteOne
  <2>1. DeletedOne
    BY <1>19, DeleteOneIs
  <2>2. faults' = 0 => Harmless
    BY <2>1 DEF DeletedOne, Gone, ToWalk, UserImages, Same, Harmless, Clock, Clean
  <2> QED
    BY <2>2, WithinKept
<1>20. CASE DeleteEnds
  <2>1. DeleteEnded
    BY <1>20, DeleteEndsIs
  <2>2. Forgot(del.removed)
    BY <2>1, ForgetIs DEF DeleteEnded
  <2>3. faults' = 0 => faults = 0 /\ UserImages \cap files' \subseteq UserImages'
    BY <2>1, <2>2, ForgotOther DEF DeleteEnded, Forgot, Book, Clock
  <2>4. faults' = 0 => Harmless
    BY <2>1, <2>3 DEF DeleteEnded, Harmless, Same, ToWalk, Clean
  <2> QED
    BY <2>4, WithinKept
<1>21. CASE Tick
  <2>1. faults' = 0 => Harmless
    BY <1>21 DEF Tick, ToWalk, UserImages, Same, Harmless, files3, Clean
  <2> QED
    BY <2>1, WithinKept
<1>22. CASE UNCHANGED vars
  BY <1>22 DEF vars, Within, Purging, UserImages, ToWalk
<1> QED
  BY <1>1, <1>2, <1>3, <1>4, <1>5, <1>6, <1>7, <1>8, <1>9, <1>10, <1>11, <1>12, <1>13, <1>14,
     <1>15, <1>16, <1>17, <1>18, <1>19, <1>20, <1>21, <1>22
  DEF Next, RequestNext

-----------------------------------------------------------------------------
(* Everything together.                                                    *)
StorageInv ==
  /\ IInv /\ Book /\ Recorded /\ Unrecorded /\ Undoing /\ Undone /\ Leftovers
  /\ HasSaved /\ ProtectedOwned /\ Within

LEMMA InitStorage == Init => StorageInv
<1> SUFFICES ASSUME Init PROVE StorageInv
  OBVIOUS
<1>1. IInv
  BY InitInv
<1>2. /\ Ids = DOMAIN Old /\ files = DOMAIN Old /\ DOMAIN owners \subseteq files
      /\ del.removed = {} /\ \A r \in Requests : saved[r] = {} /\ pc[r] \in {"absent", "save"}
  BY StorageAssumption DEF Init, Ids, Idle
<1>3. Book
  BY <1>2 DEF Init, Book
<1>4. Recorded /\ Unrecorded /\ Undoing /\ Undone /\ Leftovers
  BY <1>2 DEF Recorded, Unrecorded, Undoing, Undone, Leftovers
<1>5. HasSaved /\ ProtectedOwned /\ Within
  BY <1>2 DEF HasSaved, ProtectedOwned, Within
<1> QED
  BY <1>1, <1>3, <1>4, <1>5 DEF StorageInv

LEMMA StorageKept == Spec => []StorageInv
<1>1. IInv /\ [Next]_vars => IInv'
  BY NextInv
<1>2. StorageInv /\ [Next]_vars => StorageInv'
  <2> SUFFICES ASSUME StorageInv, [Next]_vars  PROVE StorageInv'
    OBVIOUS
  <2>1. /\ IInv /\ Book /\ Recorded /\ Unrecorded /\ Undoing /\ Undone /\ Leftovers
        /\ HasSaved /\ ProtectedOwned /\ Within
    BY DEF StorageInv
  <2> QED
    BY <1>1, <2>1, BookStep, RecordedStep, UnrecordedStep, UndoingStep, UndoneStep,
       LeftoversStep, HasSavedStep, ProtectedOwnedStep, WithinStep DEF StorageInv
<1> QED
  BY <1>2, InitStorage, PTL DEF Spec

(* A request's images keep their owner as long as they are stored, one     *)
(* that failed leaves neither file nor record, and when nobody works every *)
(* record without a file is of an image that the retention removed or that *)
(* was gone before it was recorded.                                        *)
THEOREM RecordsFit == Spec => []RecordsMatchFiles
<1>1. StorageInv => RecordsMatchFiles
  <2> SUFFICES ASSUME StorageInv  PROVE RecordsMatchFiles
    OBVIOUS
  <2>1. Recorded /\ Undone /\ Leftovers
    BY DEF StorageInv
  <2>2. ASSUME NEW r \in Requests, pc[r] \notin {"owner", "undo", "failed", "dead"},
               NEW i \in saved[r] \cap files
        PROVE  Owner(i) = OwnerOf[r]
    BY <2>1, <2>2 DEF Recorded
  <2>3. ASSUME NEW r \in Requests, pc[r] = "failed", faults = 0
        PROVE  saved[r] \cap (files \cup DOMAIN owners \cup DOMAIN prompts) = {}
    BY <2>1, <2>3 DEF Undone
  <2>4. ASSUME Quiet, faults = 0, NEW i \in DOMAIN owners \ files
        PROVE  lost[i].by = "retention" \/ lost[i].had = "none"
    BY <2>1, <2>4 DEF Leftovers, Forgetting, Quiet, Idle
  <2> QED
    BY <2>2, <2>3, <2>4 DEF RecordsMatchFiles
<1> QED
  BY <1>1, StorageKept, PTL

(* However the clean-ups overlap: once an answer has been given and nobody *)
(* works, the storage is within the limit or everything left is protected. *)
THEOREM LimitKept == Spec => []LimitHolds
<1>1. StorageInv => LimitHolds
  <2> SUFFICES ASSUME StorageInv, Quiet, faults = 0, NEW r \in Requests, pc[r] = "done"
               PROVE  \/ Cardinality(files) <= Limit
                      \/ \E q \in Requests : files \subseteq saved[q] \cup UserImages
    BY DEF LimitHolds
  <2>1. saved[r] # {}
    BY DEF StorageInv, HasSaved
  <2>2. ToWalk = {} /\ \A q \in Requests : ~Purging(q)
    BY DEF ToWalk, Quiet, Purging
  <2> QED
    BY <2>1, <2>2 DEF StorageInv, Within
<1> QED
  BY <1>1, StorageKept, PTL

=============================================================================
