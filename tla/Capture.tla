------------------------------ MODULE Capture -------------------------------
(***************************************************************************)
(* The front end of the program: a capture thread per camera               *)
(* (worker_cpu.cpp) pushes decoded frames into that camera's ring of       *)
(* CPUQueue, the stitch thread (cpu_warp.cpp) goes through the rings in    *)
(* camera order to collect one frame of each, and main ends them and frees *)
(* the rings.  What becomes of a complete set is Pipeline's matter.        *)
(*                                                                         *)
(* The collecting thread waits at an empty ring for 10 ms at most.  Since  *)
(* the wait may end at any moment (timeout, notification, spuriously), it  *)
(* is modelled as a state in which the thread may at any time go on: no    *)
(* notification can be missed that a timeout would not make up for.        *)
(***************************************************************************)
EXTENDS CPUQueue, Sequences

CONSTANTS
  STITCH,      \* the stitch thread
  MAIN,        \* the main thread
  Faults       \* what may fail: "open" a camera, "poll" it

ASSUME CaptureAssumption ==
  /\ STITCH \notin Cams
  /\ MAIN \notin Cams
  /\ STITCH # MAIN
  /\ Faults \subseteq {"open", "poll"}

VARIABLES
  pc,          \* where each thread is
  seq,         \* the number of the frame each camera delivered last
  slot,        \* push's idx
  cam,         \* the loop variable i of the collecting thread
  frames,      \* its frames[4]
  running,     \* the running flags
  freed        \* CPUQueue::free_bufs has run

vars == <<ring, pc, seq, slot, cam, frames, running, freed>>

Threads == Cams \cup {STITCH, MAIN}

Move(t, from, to) == pc[t] = from /\ pc' = [pc EXCEPT ![t] = to]

Init ==
  /\ InitRings
  /\ pc = [t \in Threads |-> CASE t \in Cams  -> "init"
                               [] t = STITCH  -> "loop"
                               [] t = MAIN    -> "run"]
  /\ seq = [c \in Cams |-> 0]
  /\ slot = [c \in Cams |-> 0]
  /\ cam = 1
  /\ frames = [c \in Cams |-> Empty]
  /\ running = [t \in Threads \ {MAIN} |-> TRUE]
  /\ freed = FALSE
-----------------------------------------------------------------------------
(* A capture thread.                                                       *)

(* The device is opened and one frame skipped, or the thread gives up.     *)
CamInit(c) ==
  /\ \/ Move(c, "init", "loop")
     \/ "open" \in Faults /\ Move(c, "init", "done")
  /\ UNCHANGED <<ring, seq, slot, cam, frames, running, freed>>

(* Mutation: the running flag is not looked at.                            *)
CamCheck_Deaf(c) ==
  /\ Move(c, "loop", "poll")
  /\ UNCHANGED <<ring, seq, slot, cam, frames, running, freed>>

CamCheck(c) ==
  /\ Move(c, "loop", IF running[c] THEN "poll" ELSE "done")
  /\ UNCHANGED <<ring, seq, slot, cam, frames, running, freed>>

(* Nothing comes of this round: the poll times out, the buffer cannot be   *)
(* dequeued, or what it holds does not decode.                             *)
CamNothing(c) ==
  /\ Move(c, "poll", "loop")
  /\ UNCHANGED <<ring, seq, slot, cam, frames, running, freed>>

(* poll fails, as it does when a signal interrupts it: the camera is done. *)
CamPollFail(c) ==
  /\ "poll" \in Faults
  /\ Move(c, "poll", "done")
  /\ UNCHANGED <<ring, seq, slot, cam, frames, running, freed>>

(* A frame is decoded and push takes a slot for it.                        *)
CamReserve(c) ==
  /\ Move(c, "poll", "reserved")
  /\ seq' = [seq EXCEPT ![c] = NextFrame(@)]
  /\ slot' = [slot EXCEPT ![c] = tail[c]]
  /\ Reserve(c)
  /\ UNCHANGED <<cam, frames, running, freed>>

CamBeginCopy(c) ==
  /\ Move(c, "reserved", "copying")
  /\ BeginCopy(c, slot[c])
  /\ UNCHANGED <<seq, slot, cam, frames, running, freed>>

CamEndCopy(c) ==
  /\ Move(c, "copying", "loop")
  /\ EndCopy(c, slot[c], seq[c])
  /\ UNCHANGED <<seq, slot, cam, frames, running, freed>>

Camera(c) == CamInit(c) \/ CamCheck(c) \/ CamNothing(c) \/ CamPollFail(c)
             \/ CamReserve(c) \/ CamBeginCopy(c) \/ CamEndCopy(c)
-----------------------------------------------------------------------------
(* The stitch thread.                                                      *)

CollectStart ==
  /\ Move(STITCH, "loop", IF running[STITCH] THEN "collect" ELSE "done")
  /\ cam' = 1
  /\ UNCHANGED <<ring, seq, slot, frames, running, freed>>

(* A frame of camera cam is there, at once or after the wait.              *)
CollectTake ==
  /\ pc[STITCH] \in {"collect", "wait"}
  /\ TakeHead(cam)
  /\ frames' = [frames EXCEPT ![cam] = HeadFrame(cam)]
  /\ IF cam < NumCams
     THEN cam' = cam + 1 /\ pc' = [pc EXCEPT ![STITCH] = "collect"]
     ELSE UNCHANGED cam /\ pc' = [pc EXCEPT ![STITCH] = "stitch"]
  /\ UNCHANGED <<seq, slot, running, freed>>

CollectWait ==
  /\ ~ HasFrame(cam)
  /\ Move(STITCH, "collect", "wait")
  /\ UNCHANGED <<ring, seq, slot, cam, frames, running, freed>>

(* Mutation: a round that is given up empties every ring.                  *)
CollectGiveUp_Flush ==
  /\ ~ HasFrame(cam)
  /\ Move(STITCH, "wait", "loop")
  /\ head' = tail
  /\ count' = [c \in Cams |-> 0]
  /\ UNCHANGED <<tail, buf, seq, slot, cam, frames, running, freed>>

(* Still none: the round is given up, and with it the frames of the        *)
(* cameras before this one.                                                *)
CollectGiveUp ==
  /\ ~ HasFrame(cam)
  /\ Move(STITCH, "wait", "loop")
  /\ UNCHANGED <<ring, seq, slot, cam, frames, running, freed>>

Stitch ==
  /\ Move(STITCH, "stitch", "loop")
  /\ UNCHANGED <<ring, seq, slot, cam, frames, running, freed>>

Collect == CollectStart \/ CollectTake \/ CollectWait \/ CollectGiveUp
           \/ Stitch
-----------------------------------------------------------------------------
(* The main thread.                                                        *)

(* A signal has ended the display loop.                                    *)
MainLeave ==
  /\ Move(MAIN, "run", "stop")
  /\ UNCHANGED <<ring, seq, slot, cam, frames, running, freed>>

(* The flags are cleared one after another, the cameras' first.            *)
MainStop(t) ==
  /\ pc[MAIN] = "stop"
  /\ running[t]
  /\ \A c \in Cams : running[c] => t \in Cams /\ t <= c
  /\ running' = [running EXCEPT ![t] = FALSE]
  /\ UNCHANGED <<ring, pc, seq, slot, cam, frames, freed>>

(* Mutation: the cameras are not joined.                                   *)
MainJoin_StitchOnly ==
  /\ \A t \in Threads \ {MAIN} : ~ running[t]
  /\ pc[STITCH] = "done"
  /\ Move(MAIN, "stop", "free")
  /\ UNCHANGED <<ring, seq, slot, cam, frames, running, freed>>

MainJoin ==
  /\ \A t \in Threads \ {MAIN} : ~ running[t] /\ pc[t] = "done"
  /\ Move(MAIN, "stop", "free")
  /\ UNCHANGED <<ring, seq, slot, cam, frames, running, freed>>

MainFree ==
  /\ Move(MAIN, "free", "done")
  /\ free_bufs
  /\ freed' = TRUE
  /\ UNCHANGED <<seq, slot, cam, frames, running>>

MainWork == (\E t \in Threads \ {MAIN} : MainStop(t)) \/ MainJoin \/ MainFree

Terminated == pc[MAIN] = "done" /\ UNCHANGED vars
-----------------------------------------------------------------------------
Next ==
  \/ \E c \in Cams : Camera(c)
  \/ Collect
  \/ MainLeave
  \/ MainWork
  \/ Terminated

Spec == Init /\ [][Next]_vars

(* Every thread that can take a step does so in the end.  That a camera    *)
(* ever delivers a frame is not assumed here, nor that a signal comes.     *)
Fairness ==
  /\ \A c \in Cams : WF_vars(Camera(c))
  /\ WF_vars(Collect)
  /\ WF_vars(MainWork)

FairSpec == Spec /\ Fairness
-----------------------------------------------------------------------------
CamPcs == {"init", "loop", "poll", "reserved", "copying", "done"}
CollectPcs == {"loop", "collect", "wait", "stitch", "done"}
MainPcs == {"run", "stop", "free", "done"}

(* Type invariant.                                                         *)
TypeOK ==
  /\ head \in [Cams -> Slot]
  /\ tail \in [Cams -> Slot]
  /\ count \in [Cams -> 0 .. QueueSize]
  /\ buf \in [Cams -> [Slot -> Content]]
  /\ pc \in [Threads -> CamPcs \cup CollectPcs \cup MainPcs]
  /\ \A c \in Cams : pc[c] \in CamPcs
  /\ pc[STITCH] \in CollectPcs
  /\ pc[MAIN] \in MainPcs
  /\ seq \in [Cams -> FrameNo]
  /\ slot \in [Cams -> Slot]
  /\ cam \in Cams
  /\ frames \in [Cams -> Content]
  /\ running \in [Threads \ {MAIN} -> BOOLEAN]
  /\ freed \in BOOLEAN

(* The slot push has taken and not finished writing.                       *)
Pushing(c) == pc[c] \in {"reserved", "copying"}

(* The frames waiting in the ring, as if the push under way were over.     *)
Waiting(c) ==
  [n \in 1 .. count[c] |->
     LET k == (head[c] + n - 1) % QueueSize
     IN IF Pushing(c) /\ k = slot[c] THEN seq[c] ELSE buf[c][k]]

(* Each ring is a drop-oldest queue until free_bufs, which comes after the *)
(* last push and the last take: see FrameQueue.  head, tail and count stay *)
(* in step over drops, takes and wrap-arounds, no frame is lost otherwise, *)
(* and although slots are written after the unlock, a reader and the       *)
(* writer meet in one slot only when it is the only one waiting.           *)
Queue(c) == INSTANCE FrameQueue WITH
              Size <- QueueSize,
              Frames <- FrameNo,
              After <- NextFrame,
              Whatever <- Content,
              queue <- IF freed THEN << >> ELSE Waiting(c),
              newest <- seq[c],
              pushing <- Pushing(c),
              taken <- frames[c],
              closed <- freed

ImplementsQueues ==
  /\ \A c \in Cams : Queue(c)!Init
  /\ [][\A c \in Cams : [Queue(c)!Next]_(Queue(c)!fq)]_vars

(* The rings are only freed when no thread is left that pushes or takes.   *)
NothingAfterFree == freed => \A t \in Threads : pc[t] = "done"

(* What the code does not ensure: that a set to be stitched consists of    *)
(* whole frames that the cameras pushed.  cpu_queue.cpp:28 writes a slot   *)
(* that cpu_warp.cpp:29 may already be copying.                            *)
WholeFrames == pc[STITCH] = "stitch" => \A c \in Cams : frames[c] \in FrameNo

(* Liveness: if every camera goes on delivering, complete sets go on being *)
(* stitched, although a round that meets an empty ring throws away the     *)
(* frames it has.  The rings behind that one are untouched, so each of     *)
(* them keeps a frame once it has one, and the round gets further.         *)
StitchesForever ==
  (\A c \in Cams : []<>(pc[c] = "reserved")) => []<>(pc[STITCH] = "stitch")

(* Liveness: once main has left its loop the program ends, whichever       *)
(* cameras are dead.                                                       *)
EndsAfterSignal == pc[MAIN] = "stop" ~> pc[MAIN] = "done"
=============================================================================
