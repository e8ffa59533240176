------------------------------ MODULE Pipeline ------------------------------
(***************************************************************************)
(* The buffer pool of NPUQueue with the threads that hand its buffers      *)
(* round: the stitch thread (cpu_warp.cpp) fills them, the inference       *)
(* workers (worker_npu.cpp) run the detector on them and draw its boxes    *)
(* into the same pixels, the main thread (main.cpp) copies the oldest      *)
(* finished one to the display and gives it back, and ends the program.    *)
(*                                                                         *)
(* A buffer in state PROCESSING belongs to whichever thread took it; the   *)
(* queue does not record which one, only the thread's local index does.    *)
(* The pixels of a buffer are which panorama it shows and whose boxes are  *)
(* drawn on it; panoramas are numbered in the order they were stitched,    *)
(* which is not their frame_id: a panorama that finds no free buffer, or   *)
(* fails to be resized, gets no id.                                        *)
(***************************************************************************)
EXTENDS NPUQueue

CONSTANTS
  Workers,     \* the inference threads, NUM_NPU = 3 in the program
  STITCH,      \* the stitch thread
  MAIN,        \* the main thread
  Faults,      \* the calls that may fail
  MaxPanos     \* bound of the model: panoramas stitched in one run

Threads == Workers \cup {STITCH, MAIN}

FaultKinds == {"init", "resize", "inference", "imcopy"}

ASSUME ThreadAssumption ==
  /\ STITCH # MAIN
  /\ STITCH \notin Workers
  /\ MAIN \notin Workers

ASSUME FaultsAssumption == Faults \subseteq FaultKinds

ASSUME MaxPanosAssumption == MaxPanos \in Nat

VARIABLES
  pc,             \* where each thread is
  idx,            \* the buffer each thread holds: npu_idx, buf_idx, ready_idx
  image,          \* image[i]: the pixels of buffer i
  det,            \* od_results of each worker: the panorama the boxes are of
  pano,           \* how many panoramas have been stitched
  frame_id,       \* wctx.frame_id
  last_frame_id,  \* main's last_frame_id
  shown,          \* the picture last pushed to the streamer
  g_exit,         \* set by the signal handler
  running,        \* the running flags of the stitch thread and the workers
  destroyed       \* NPUQueue::destroy has freed the pool

vars == <<meta, pc, idx, image, det, pano, frame_id, last_frame_id, shown,
          g_exit, running, destroyed>>

NoBuf == -1

Blank == [pano |-> 0, boxes |-> 0]   \* pixels that show no whole panorama

Goto(t, l) == pc' = [pc EXCEPT ![t] = l]

Move(t, from, to) == pc[t] = from /\ Goto(t, to)

Take(t, i) == idx' = [idx EXCEPT ![t] = i]

Drop(t) == idx' = [idx EXCEPT ![t] = NoBuf]

Init ==
  /\ InitQueue
  /\ pc = [t \in Threads |-> IF t \in Workers THEN "start" ELSE "loop"]
  /\ idx = [t \in Threads |-> NoBuf]
  /\ image = [i \in Buf |-> Blank]
  /\ det = [w \in Workers |-> 0]
  /\ pano = 0
  /\ frame_id = 0
  /\ last_frame_id = -1
  /\ shown = Blank
  /\ g_exit = FALSE
  /\ running = [t \in Threads \ {MAIN} |-> TRUE]
  /\ destroyed = FALSE
-----------------------------------------------------------------------------
(* The stitch thread.                                                      *)

(* One frame of every camera has been taken and stitched; how the frames   *)
(* come together is the camera queues' matter.                             *)
StitchCollect ==
  /\ running[STITCH]
  /\ pano < MaxPanos
  /\ Move(STITCH, "loop", "claim")
  /\ pano' = pano + 1
  /\ UNCHANGED <<meta, idx, image, det, frame_id, last_frame_id, shown,
                 g_exit, running, destroyed>>

StitchClaim ==
  /\ Move(STITCH, "claim", "resize")
  /\ \E i \in Buf : claim_free(i) /\ Take(STITCH, i)
  /\ UNCHANGED <<image, det, pano, frame_id, last_frame_id, shown,
                 g_exit, running, destroyed>>

(* No buffer is free: the panorama is dropped.                             *)
StitchDrop ==
  /\ None("FREE")
  /\ Move(STITCH, "claim", "loop")
  /\ UNCHANGED <<meta, idx, image, det, pano, frame_id, last_frame_id, shown,
                 g_exit, running, destroyed>>

StitchResize ==
  /\ Move(STITCH, "resize", "fill")
  /\ image' = [image EXCEPT ![idx[STITCH]] = [pano |-> pano, boxes |-> 0]]
  /\ UNCHANGED <<meta, idx, det, pano, frame_id, last_frame_id, shown,
                 g_exit, running, destroyed>>

(* Mutation: the buffer is not given back when the resize fails.           *)
StitchResizeFail_Leak ==
  /\ "resize" \in Faults
  /\ Move(STITCH, "resize", "loop")
  /\ Drop(STITCH)
  /\ UNCHANGED <<meta, image, det, pano, frame_id, last_frame_id, shown,
                 g_exit, running, destroyed>>

StitchResizeFail ==
  /\ "resize" \in Faults
  /\ Move(STITCH, "resize", "giveback")
  /\ image' = [image EXCEPT ![idx[STITCH]] = Blank]
  /\ UNCHANGED <<meta, idx, det, pano, frame_id, last_frame_id, shown,
                 g_exit, running, destroyed>>

(* Mutation: the buffer gets the id from before the increment.             *)
StitchFill_OldId ==
  /\ Move(STITCH, "fill", "loop")
  /\ frame_id' = frame_id + 1
  /\ mark_filled(idx[STITCH], frame_id)
  /\ Drop(STITCH)
  /\ UNCHANGED <<image, det, pano, last_frame_id, shown, g_exit, running,
                 destroyed>>

StitchFill ==
  /\ Move(STITCH, "fill", "loop")
  /\ frame_id' = frame_id + 1
  /\ mark_filled(idx[STITCH], frame_id + 1)
  /\ Drop(STITCH)
  /\ UNCHANGED <<image, det, pano, last_frame_id, shown, g_exit, running,
                 destroyed>>

StitchGiveBack ==
  /\ Move(STITCH, "giveback", "loop")
  /\ mark_free(idx[STITCH])
  /\ Drop(STITCH)
  /\ UNCHANGED <<image, det, pano, frame_id, last_frame_id, shown, g_exit,
                 running, destroyed>>

StitchStop ==
  /\ ~ running[STITCH]
  /\ Move(STITCH, "loop", "done")
  /\ UNCHANGED <<meta, idx, image, det, pano, frame_id, last_frame_id, shown,
                 g_exit, running, destroyed>>

StitchWork == StitchClaim \/ StitchDrop \/ StitchResize \/ StitchResizeFail
              \/ StitchFill \/ StitchGiveBack \/ StitchStop
-----------------------------------------------------------------------------
(* The inference workers.                                                  *)

WorkerStart(w) ==
  /\ Move(w, "start", "loop")
  /\ UNCHANGED <<meta, idx, image, det, pano, frame_id, last_frame_id, shown,
                 g_exit, running, destroyed>>

(* The model cannot be loaded: this worker is gone, the others carry on.   *)
WorkerStartFail(w) ==
  /\ "init" \in Faults
  /\ Move(w, "start", "done")
  /\ UNCHANGED <<meta, idx, image, det, pano, frame_id, last_frame_id, shown,
                 g_exit, running, destroyed>>

(* Mutation: the running flag is not looked at.                            *)
WorkerCheck_Deaf(w) ==
  /\ Move(w, "loop", "claim")
  /\ UNCHANGED <<meta, idx, image, det, pano, frame_id, last_frame_id, shown,
                 g_exit, running, destroyed>>

(* The running flag is read before the queue: main may clear it between.   *)
WorkerCheck(w) ==
  /\ Move(w, "loop", IF running[w] THEN "claim" ELSE "done")
  /\ UNCHANGED <<meta, idx, image, det, pano, frame_id, last_frame_id, shown,
                 g_exit, running, destroyed>>

WorkerClaim(w) ==
  /\ Move(w, "claim", "infer")
  /\ \E i \in Buf : claim_filled(i) /\ Take(w, i)
  /\ UNCHANGED <<image, det, pano, frame_id, last_frame_id, shown, g_exit,
                 running, destroyed>>

WorkerSleep(w) ==
  /\ None("FILLED")
  /\ Move(w, "claim", "loop")
  /\ UNCHANGED <<meta, idx, image, det, pano, frame_id, last_frame_id, shown,
                 g_exit, running, destroyed>>

WorkerInfer(w) ==
  /\ Move(w, "infer", "draw")
  /\ det' = [det EXCEPT ![w] = image[idx[w]].pano]
  /\ UNCHANGED <<meta, idx, image, pano, frame_id, last_frame_id, shown,
                 g_exit, running, destroyed>>

WorkerInferFail(w) ==
  /\ "inference" \in Faults
  /\ Move(w, "infer", "giveback")
  /\ UNCHANGED <<meta, idx, image, det, pano, frame_id, last_frame_id, shown,
                 g_exit, running, destroyed>>

WorkerDraw(w) ==
  /\ Move(w, "draw", "ready")
  /\ image' = [image EXCEPT ![idx[w]] = [pano |-> @.pano, boxes |-> det[w]]]
  /\ UNCHANGED <<meta, idx, det, pano, frame_id, last_frame_id, shown,
                 g_exit, running, destroyed>>

WorkerReady(w) ==
  /\ Move(w, "ready", "loop")
  /\ mark_ready(idx[w])
  /\ Drop(w)
  /\ UNCHANGED <<image, det, pano, frame_id, last_frame_id, shown, g_exit,
                 running, destroyed>>

WorkerGiveBack(w) ==
  /\ Move(w, "giveback", "loop")
  /\ mark_free(idx[w])
  /\ Drop(w)
  /\ UNCHANGED <<image, det, pano, frame_id, last_frame_id, shown, g_exit,
                 running, destroyed>>

Worker(w) == WorkerStart(w) \/ WorkerStartFail(w) \/ WorkerCheck(w)
             \/ WorkerClaim(w) \/ WorkerSleep(w) \/ WorkerInfer(w)
             \/ WorkerInferFail(w) \/ WorkerDraw(w) \/ WorkerReady(w)
             \/ WorkerGiveBack(w)
-----------------------------------------------------------------------------
(* The main thread: the display loop, then the clean-up.                   *)

(* The claim follows the test of g_exit; only main reads g_exit, so taking *)
(* both in one step hides no interleaving.                                 *)
MainClaim ==
  /\ ~ g_exit
  /\ Move(MAIN, "loop", "show")
  /\ \E i \in Buf : claim_ready(i) /\ Take(MAIN, i)
  /\ UNCHANGED <<image, det, pano, frame_id, last_frame_id, shown, g_exit,
                 running, destroyed>>

(* Mutation: whatever is ready is shown, newer or not.                     *)
MainShow_Any ==
  /\ Move(MAIN, "show", "free")
  /\ last_frame_id' = meta[idx[MAIN]].frame_id
  /\ shown' = image[idx[MAIN]]
  /\ UNCHANGED <<meta, idx, image, det, pano, frame_id, g_exit, running,
                 destroyed>>

(* The id is read without the queue's mutex.  A newer picture is copied to *)
(* the display and pushed, unless the copy fails; either way its id is now *)
(* the last one.                                                           *)
MainShow ==
  LET i == idx[MAIN]
      fid == meta[i].frame_id
  IN /\ Move(MAIN, "show", "free")
     /\ \/ /\ fid > last_frame_id
           /\ last_frame_id' = fid
           /\ \/ shown' = image[i]
              \/ "imcopy" \in Faults /\ UNCHANGED shown
        \/ fid <= last_frame_id /\ UNCHANGED <<last_frame_id, shown>>
     /\ UNCHANGED <<meta, idx, image, det, pano, frame_id, g_exit, running,
                    destroyed>>

MainFree ==
  /\ Move(MAIN, "free", "loop")
  /\ mark_free(idx[MAIN])
  /\ Drop(MAIN)
  /\ UNCHANGED <<image, det, pano, frame_id, last_frame_id, shown, g_exit,
                 running, destroyed>>

(* The loop ends and the streamer is stopped.                              *)
MainLeave ==
  /\ g_exit
  /\ Move(MAIN, "loop", "stop")
  /\ UNCHANGED <<meta, idx, image, det, pano, frame_id, last_frame_id, shown,
                 g_exit, running, destroyed>>

(* The stitch thread's flag is cleared first, then the workers' flags.     *)
MainStop(t) ==
  /\ pc[MAIN] = "stop"
  /\ running[t]
  /\ t # STITCH => ~ running[STITCH]
  /\ running' = [running EXCEPT ![t] = FALSE]
  /\ UNCHANGED <<meta, pc, idx, image, det, pano, frame_id, last_frame_id,
                 shown, g_exit, destroyed>>

(* Mutation: the stitch thread is not joined.                              *)
MainJoin_WorkersOnly ==
  /\ \A t \in Threads \ {MAIN} : ~ running[t]
  /\ \A w \in Workers : pc[w] = "done"
  /\ Move(MAIN, "stop", "destroy")
  /\ UNCHANGED <<meta, idx, image, det, pano, frame_id, last_frame_id, shown,
                 g_exit, running, destroyed>>

(* Every flag is cleared: main joins the threads, and goes on when the     *)
(* last of them has ended.                                                 *)
MainJoin ==
  /\ \A t \in Threads \ {MAIN} : ~ running[t] /\ pc[t] = "done"
  /\ Move(MAIN, "stop", "destroy")
  /\ UNCHANGED <<meta, idx, image, det, pano, frame_id, last_frame_id, shown,
                 g_exit, running, destroyed>>

MainDestroy ==
  /\ Move(MAIN, "destroy", "done")
  /\ destroyed' = TRUE
  /\ UNCHANGED <<meta, idx, image, det, pano, frame_id, last_frame_id, shown,
                 g_exit, running>>

MainWork == MainClaim \/ MainShow \/ MainFree \/ MainLeave
            \/ (\E t \in Threads \ {MAIN} : MainStop(t))
            \/ MainJoin \/ MainDestroy

(* SIGINT or SIGTERM arrives.                                              *)
Signal ==
  /\ ~ g_exit
  /\ g_exit' = TRUE
  /\ UNCHANGED <<meta, pc, idx, image, det, pano, frame_id, last_frame_id,
                 shown, running, destroyed>>

Terminated == pc[MAIN] = "done" /\ UNCHANGED vars
-----------------------------------------------------------------------------
Next ==
  \/ StitchCollect
  \/ StitchWork
  \/ \E w \in Workers : Worker(w)
  \/ MainWork
  \/ Signal
  \/ Terminated

Spec == Init /\ [][Next]_vars

(* A thread that can go on does so in the end.  Nothing obliges the        *)
(* cameras to deliver another set of frames, nor a signal to arrive, and a *)
(* call that may fail is not obliged to succeed.                           *)
Fairness ==
  /\ WF_vars(StitchWork)
  /\ \A w \in Workers : WF_vars(Worker(w))
  /\ WF_vars(MainWork)

FairSpec == Spec /\ Fairness
-----------------------------------------------------------------------------
(* Every variable keeps its type, frame ids their range, and a place in    *)
(* the code its thread can be at.                                          *)
Picture == [pano : 0 .. MaxPanos, boxes : 0 .. MaxPanos]

StitchPcs == {"loop", "claim", "resize", "fill", "giveback", "done"}
WorkerPcs == {"start", "loop", "claim", "infer", "draw", "ready", "giveback",
              "done"}
MainPcs == {"loop", "show", "free", "stop", "destroy", "done"}

(* Type invariant.  The bounds on the ids are the part that says something *)
(* of the code: frame_id never runs ahead of the panoramas stitched, and   *)
(* only -1 or an id given out is ever found in a buffer or remembered by   *)
(* main.                                                                   *)
TypeOK ==
  /\ meta \in [Buf -> [frame_id : {-1} \cup 1 .. MaxPanos, state : BufState]]
  /\ pc \in [Threads -> StitchPcs \cup WorkerPcs \cup MainPcs]
  /\ pc[STITCH] \in StitchPcs
  /\ \A w \in Workers : pc[w] \in WorkerPcs
  /\ pc[MAIN] \in MainPcs
  /\ idx \in [Threads -> Buf \cup {NoBuf}]
  /\ image \in [Buf -> Picture]
  /\ det \in [Workers -> 0 .. MaxPanos]
  /\ pano \in 0 .. MaxPanos
  /\ frame_id \in 0 .. pano
  /\ last_frame_id \in {-1} \cup 1 .. MaxPanos
  /\ shown \in Picture
  /\ g_exit \in BOOLEAN
  /\ running \in [Threads \ {MAIN} -> BOOLEAN]
  /\ destroyed \in BOOLEAN

(* Where a thread holds a buffer.                                          *)
HoldingPcs == {"resize", "fill", "giveback", "infer", "draw", "ready", "show",
               "free"}

(* Ownership: the buffers in state PROCESSING are exactly those that a     *)
(* thread holds between a claim_* and its mark_*, each held by one thread, *)
(* though the queue records no owner and mark_* checks none.  So no two    *)
(* threads ever work on the same pixels, no buffer is lost to the pool on  *)
(* the error paths, and no mark_* is called with a buffer the caller no    *)
(* longer has.                                                             *)
Ownership ==
  /\ \A t \in Threads : pc[t] \in HoldingPcs <=> idx[t] # NoBuf
  /\ \A i \in Buf : InState(i, "PROCESSING") <=> \E t \in Threads : idx[t] = i
  /\ \A s, t \in Threads : idx[s] = idx[t] /\ idx[s] # NoBuf => s = t

(* Once main has freed the pool no thread is left that could touch it and  *)
(* no buffer was left claimed: the joins of main.cpp:142-143 stand between *)
(* the last mark_* and NPUQueue::destroy.                                  *)
NothingAfterDestroy ==
  destroyed => /\ \A t \in Threads : pc[t] = "done"
               /\ None("PROCESSING")

(* What the viewer sees is a picture feed: see PictureFeed.  The workers   *)
(* finish out of order and claim by index rather than age, so this rests   *)
(* on main skipping every id that is not newer than the last one, on ids   *)
(* growing with the panoramas they are given to, and on no buffer being    *)
(* rewritten between the claim of a worker and the copy of main.           *)
Feed == INSTANCE PictureFeed WITH
          made <- pano,
          closed <- pc[MAIN] \in {"stop", "destroy", "done"}

ImplementsFeed == Feed!Spec


(* Liveness: after a signal the program ends, whatever the threads were    *)
(* doing and whichever calls failed: no thread waits for another one that  *)
(* waits for it.  (Streamer and cameras have their own modules.)           *)
ExitsOnSignal == g_exit ~> pc[MAIN] = "done"
=============================================================================
