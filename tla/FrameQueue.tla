----------------------------- MODULE FrameQueue -----------------------------
(***************************************************************************)
(* What one camera's queue promises, with no ring and no slots: the newest *)
(* Size frames wait in order, a push on a full queue drops the oldest, and *)
(* a take returns the oldest one waiting.  The one thing it does not       *)
(* promise is the content of a frame that is taken before the push of it   *)
(* is over, which can only be the last one waiting.  A frame leaves the    *)
(* queue in no other way than these, until the program closes it.          *)
(***************************************************************************)
EXTENDS Integers, Sequences

CONSTANTS Size,      \* how many frames may wait
          Frames,    \* the frames
          After(_),  \* the frame a camera delivers after a given one
          Whatever   \* what may be found where no frame is yet

VARIABLES queue,     \* the frames waiting, the oldest first
          newest,    \* the frame pushed last
          pushing,   \* its push is not over
          taken,     \* the frame taken last
          closed     \* the program has thrown the queue away

fq == <<queue, newest, pushing, taken, closed>>

Init ==
  /\ queue = << >>
  /\ newest \in Frames
  /\ pushing = FALSE
  /\ taken \in Whatever
  /\ closed = FALSE

Push ==
  /\ ~ closed /\ ~ pushing
  /\ newest' = After(newest)
  /\ queue' = Append(IF Len(queue) = Size THEN Tail(queue) ELSE queue, newest')
  /\ pushing' = TRUE
  /\ UNCHANGED <<taken, closed>>

Pushed ==
  /\ pushing
  /\ pushing' = FALSE
  /\ UNCHANGED <<queue, newest, taken, closed>>

Take ==
  /\ ~ closed /\ queue # << >>
  /\ \/ taken' = Head(queue)
     \/ pushing /\ Len(queue) = 1 /\ taken' \in Whatever
  /\ queue' = Tail(queue)
  /\ UNCHANGED <<newest, pushing, closed>>

(* The end of the program, once: what still waits is thrown away, and      *)
(* nothing is pushed or taken any more.                                    *)
Close ==
  /\ ~ closed /\ ~ pushing
  /\ closed' = TRUE
  /\ queue' = << >>
  /\ UNCHANGED <<newest, pushing, taken>>

Next == Push \/ Pushed \/ Take \/ Close

Spec == Init /\ [][Next]_fq
=============================================================================
