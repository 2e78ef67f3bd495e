------------------------------ MODULE Lightbox ------------------------------
(***************************************************************************)
(* The full-screen image viewer (components/image-lightbox.tsx): the index *)
(* of the shown image, its zoom and displacement, and the touch gestures,  *)
(* whose moves are applied in the next animation frame only.  Images can   *)
(* be changed by keyboard, wheel, thumbnail or swipe while fingers are     *)
(* down and a frame is waiting.                                            *)
(*                                                                         *)
(* Scales are counted in halves (2 is the natural size, 8 the largest) and *)
(* the displacement in quarters of the window, so an image of scale s can  *)
(* be moved s - 2 units to either side; one axis stands for both.          *)
(***************************************************************************)
EXTENDS WebClient

CONSTANTS Images       \* how many images the viewer is opened with

ASSUME ImagesAssumption == Images \in Nat \ {0}

minScale == 2
maxScale == 8

Natural == [scale |-> minScale, x |-> 0]

NoGesture == [type |-> "none", of |-> 0]

NoFrame == [scale |-> 0, x |-> 0, of |-> 0]

clamp(v, low, high) == IF v < low THEN low ELSE IF v > high THEN high ELSE v

normalizeTransform(s, x) ==
  IF s <= minScale THEN Natural
  ELSE [scale |-> s, x |-> clamp(x, minScale - s, s - minScale)]

LightboxInit ==
  /\ page = "lightbox"
  /\ \E i \in 1 .. Images :
       ui = [open |-> TRUE, at |-> i, now |-> Natural, of |-> i, due |-> FALSE,
             gesture |-> NoGesture, frame |-> NoFrame, tapped |-> FALSE, wheel |-> FALSE]
  /\ mem = <<>> /\ calls = <<>> /\ server = <<>> /\ disk = <<>> /\ past = <<>>

Only(u) == ui' = u /\ UNCHANGED <<page, mem, calls, server, disk, past>>

(* onIndexChange: the effect on [current.id, open] has to follow.          *)
Show(u, i) == IF i = u.at THEN u ELSE [u EXCEPT !.at = i, !.due = TRUE]

(* Arrow keys and a swipe stop at the ends, a thumbnail may be any.        *)
Neighbours == {i \in 1 .. Images : i \in {ui.at - 1, ui.at + 1}}

ArrowKey == ui.open /\ \E i \in Neighbours : Only(Show(ui, i))

ThumbnailClicked == ui.open /\ \E i \in 1 .. Images : i # ui.at /\ Only(Show(ui, i))

(* The wheel is left alone while zoomed, and locked for 280 ms after use.  *)
WheelTurned ==
  /\ ui.open /\ ui.now.scale <= minScale /\ ~ui.wheel
  /\ \E i \in Neighbours \cup {ui.at} : Only([Show(ui, i) EXCEPT !.wheel = TRUE])

LocksExpire == (ui.wheel \/ ui.tapped) /\ Only([ui EXCEPT !.wheel = FALSE, !.tapped = FALSE])

Closed == ui.open /\ Only([ui EXCEPT !.open = FALSE, !.due = TRUE])

Reopened ==
  /\ ~ui.open
  /\ \E i \in 1 .. Images : Only([ui EXCEPT !.open = TRUE, !.at = i, !.due = TRUE])

(* Mutant: the frame that waits is not cancelled.                          *)
ResetKeepsFrame ==
  /\ ui.due
  /\ Only([ui EXCEPT !.due = FALSE, !.now = Natural, !.of = ui.at, !.gesture = NoGesture])

(* resetTransform: the waiting frame is cancelled, the gesture forgotten.  *)
ResetEffect ==
  /\ ui.due
  /\ Only([ui EXCEPT !.due = FALSE, !.now = Natural, !.of = ui.at,
                     !.gesture = NoGesture, !.frame = NoFrame])

toggleZoom(u) ==
  [u EXCEPT !.now = IF @.scale > minScale THEN Natural ELSE [scale |-> 5, x |-> 0],
            !.of = u.at]

DoubleClicked == ui.open /\ Only(toggleZoom(ui))

-----------------------------------------------------------------------------
(* Touches.                                                                *)

TouchStarts ==
  /\ ui.open
  /\ \E fingers \in {1, 2} :
       LET kind == IF fingers = 2 THEN "pinch"
                   ELSE IF ui.now.scale > minScale THEN "pan" ELSE "swipe"
       IN  Only([ui EXCEPT !.gesture = [type |-> kind, of |-> ui.at],
                           !.frame = IF kind = "swipe" THEN @ ELSE NoFrame])

(* A pinch asks for any scale, a pan keeps its own; both ask for any       *)
(* displacement, which is brought inside before the frame is scheduled.    *)
TouchMoves ==
  /\ ui.open
  /\ ui.gesture.type \in {"pinch", "pan"}
  /\ \E s \in {0, 4, 9} : \E x \in {-9, 1, 9} :
       LET scale == IF ui.gesture.type = "pinch" THEN clamp(s, minScale, maxScale)
                    ELSE ui.now.scale
           next == normalizeTransform(scale, x)
       IN  Only([ui EXCEPT !.frame = [scale |-> next.scale, x |-> next.x,
                                      of |-> ui.gesture.of]])

(* flushScheduledTransform, and the animation frame itself.                *)
Flushed(u) ==
  IF u.frame = NoFrame THEN u
  ELSE [u EXCEPT !.now = [scale |-> u.frame.scale, x |-> u.frame.x],
                 !.of = u.frame.of, !.frame = NoFrame]

FrameComes == ui.frame # NoFrame /\ Only(Flushed(ui))

(* The last move is applied at once.  A short tap after another toggles    *)
(* the zoom, a long enough swipe changes the image.                        *)
TouchEnds ==
  /\ ui.open
  /\ ui.gesture # NoGesture
  /\ LET u == [Flushed(ui) EXCEPT !.gesture = NoGesture]
     IN  \/ ui.gesture.type # "swipe" /\ Only(u)
         \/ /\ ui.gesture.type = "swipe"
            /\ Only(IF u.tapped THEN [toggleZoom(u) EXCEPT !.tapped = FALSE]
                                ELSE [u EXCEPT !.tapped = TRUE])
         \/ /\ ui.gesture.type = "swipe"
            /\ \E i \in Neighbours : Only([Show(u, i) EXCEPT !.tapped = TRUE])

TouchCancelled ==
  /\ ui.gesture # NoGesture
  /\ Only([ui EXCEPT !.gesture = NoGesture, !.frame = NoFrame])

LightboxNext ==
  \/ ArrowKey \/ ThumbnailClicked \/ WheelTurned \/ LocksExpire \/ Closed \/ Reopened
  \/ ResetEffect \/ DoubleClicked \/ TouchStarts \/ TouchMoves \/ FrameComes
  \/ TouchEnds \/ TouchCancelled

-----------------------------------------------------------------------------
(* Once the reset after a change of image has run, zoom and displacement   *)
(* belong to the image that is shown, a move made on the image before can  *)
(* no longer arrive, and no edge of a zoomed image comes further than the  *)
(* middle of the window (resetTransform, scheduleTransform,                *)
(* normalizeTransform).                                                    *)
ZoomBelongsToImage ==
  page = "lightbox" =>
    /\ ~ui.due => /\ ui.now # Natural => ui.of = ui.at
                  /\ ui.frame # NoFrame => ui.frame.of = ui.at
    /\ ui.now.scale \in minScale .. maxScale
    /\ ui.now.x \in (minScale - ui.now.scale) .. (ui.now.scale - minScale)

=============================================================================
