---------------------------- MODULE MCImageTasks ----------------------------
(* Single instances of ImageTasks for TLC; MCTaskSettings has the rest.    *)
EXTENDS ImageTasks

CONSTANTS a, b,        (* requests *)
          t1, t2,      (* task ids *)
          alice,       (* the owner *)
          s1, s2,      (* slots *)
          p1, p2       (* worker processes *)

TaskEach == [r \in Requests |-> IF r = a THEN t1 ELSE t2]
OneOwner == [r \in Requests |-> alice]
QuotaThree == [o \in Owners |-> 3]

(* a is an edit of one image; b asks for two *)
WantMixed == [r \in Requests |-> IF r = a THEN 1 ELSE 2]
AllInOne == [w \in Slots |-> p1]
EachOwn == [w \in Slots |-> IF w = s1 THEN p1 ELSE p2]
=============================================================================
