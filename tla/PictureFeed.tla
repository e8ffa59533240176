---------------------------- MODULE PictureFeed -----------------------------
(***************************************************************************)
(* What the pipeline of stitch thread, inference workers and display loop  *)
(* promises to whoever watches the stream, with no buffers, threads or     *)
(* queues: panoramas are made one after another, and from time to time one *)
(* of them becomes the picture on display.  Pictures may be skipped, but   *)
(* never go back, are never shown before they exist, always carry the      *)
(* boxes found in that very panorama, and none is shown once the display   *)
(* has closed.                                                             *)
(***************************************************************************)
EXTENDS Integers

VARIABLES made,      \* how many panoramas have been stitched
          shown,     \* the panorama on display and the one its boxes are of
          closed     \* the display loop is over

feed == <<made, shown, closed>>

Init ==
  /\ made = 0
  /\ shown = [pano |-> 0, boxes |-> 0]
  /\ closed = FALSE

Make ==
  /\ made' = made + 1
  /\ UNCHANGED <<shown, closed>>

Show ==
  /\ ~ closed
  /\ \E p \in shown.pano + 1 .. made : shown' = [pano |-> p, boxes |-> p]
  /\ UNCHANGED <<made, closed>>

Close ==
  /\ ~ closed
  /\ closed' = TRUE
  /\ UNCHANGED <<made, shown>>

Next == Make \/ Show \/ Close

Spec == Init /\ [][Next]_feed
=============================================================================
