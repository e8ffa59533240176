---------------------------- MODULE CameraDevice ----------------------------
(***************************************************************************)
(* One capture thread (worker_cpu.cpp) and the V4L2 driver it gets its     *)
(* pictures from.  The driver owns a handful of buffers that the thread    *)
(* maps into its memory; a buffer is queued with the driver, filled by it, *)
(* dequeued by the thread, decoded where it lies, and queued again.  What  *)
(* is pushed to the camera's ring, and who takes it there, is Capture's    *)
(* matter; Capture in turn has of all this only that a round delivers a    *)
(* frame, or nothing, or ends the thread.                                  *)
(*                                                                         *)
(* The thread asks for as many buffers as its array bufs has elements and  *)
(* takes what it is granted.  A driver may grant more than it was asked    *)
(* for; the code would then write past the array, and that case is left    *)
(* out.                                                                    *)
(***************************************************************************)
EXTENDS Integers

CONSTANTS
  Asked,       \* req.count and the length of bufs, 4 in the program
  Faults       \* the calls that may fail

FaultKinds == {"open", "S_FMT", "REQBUFS", "QUERYBUF", "mmap", "first QBUF",
               "STREAMON", "poll", "DQBUF", "QBUF"}

ASSUME CameraAssumption ==
  /\ Asked \in Nat \ {0}
  /\ Faults \subseteq FaultKinds

VARIABLES
  pc,          \* where the thread is
  fd,          \* the device is open
  cam_fd,      \* ctx.cam_fd was set: cam_init has succeeded
  nbufs,       \* how many buffers were granted
  i,           \* cam_init's loop variable
  mapped,      \* the buffers mapped into the thread's memory
  owner,       \* who has each buffer
  streaming,   \* the driver is filling buffers
  buf,         \* buf.index: the buffer dequeued last and not yet requeued
  frame,       \* imdecode's result: a frame, or an empty Mat
  lost,        \* the buffers whose requeueing failed
  running

vars == <<pc, fd, cam_fd, nbufs, i, mapped, owner, streaming, buf, frame, lost,
          running>>

setup == <<fd, cam_fd, nbufs, i, mapped>>    \* unchanged while capturing

Index == 0 .. Asked - 1

NoBuf == -1

Move(from, to) == pc = from /\ pc' = to

Give(k, who) == owner' = [owner EXCEPT ![k] = who]

Init ==
  /\ pc = "open"
  /\ fd = FALSE
  /\ cam_fd = FALSE
  /\ nbufs = 0
  /\ i = 0
  /\ mapped = {}
  /\ owner = [k \in Index |-> "none"]
  /\ streaming = FALSE
  /\ buf = NoBuf
  /\ frame = FALSE
  /\ lost = {}
  /\ running = TRUE
-----------------------------------------------------------------------------
(* cam_init.                                                               *)

Open ==
  /\ \/ Move("open", "S_FMT") /\ fd' = TRUE
     \/ "open" \in Faults /\ Move("open", "done") /\ UNCHANGED fd
  /\ UNCHANGED <<cam_fd, nbufs, i, mapped, owner, streaming, buf, frame, lost,
                 running>>

(* Any later call that fails closes the device, which takes the buffers    *)
(* back, and ends the thread.  Mappings made so far stay.                  *)
InitFail ==
  /\ pc \in Faults \cap {"S_FMT", "REQBUFS", "QUERYBUF", "mmap", "first QBUF",
                         "STREAMON"}
  /\ pc' = "done"
  /\ fd' = FALSE
  /\ owner' = [k \in Index |-> "none"]
  /\ UNCHANGED <<cam_fd, nbufs, i, mapped, streaming, buf, frame, lost,
                 running>>

SetFormat ==
  /\ Move("S_FMT", "REQBUFS")
  /\ UNCHANGED <<setup, owner, streaming, buf, frame, lost, running>>

Request ==
  /\ Move("REQBUFS", "QUERYBUF")
  /\ \E n \in 1 .. Asked :
       /\ nbufs' = n
       /\ owner' = [k \in Index |-> IF k < n THEN "thread" ELSE "none"]
  /\ i' = 0
  /\ UNCHANGED <<fd, cam_fd, mapped, streaming, buf, frame, lost, running>>

Query ==
  /\ Move("QUERYBUF", "mmap")
  /\ UNCHANGED <<setup, owner, streaming, buf, frame, lost, running>>

Map ==
  /\ Move("mmap", "first QBUF")
  /\ mapped' = mapped \cup {i}
  /\ UNCHANGED <<fd, cam_fd, nbufs, i, owner, streaming, buf, frame, lost,
                 running>>

(* Mutation: the loop over the buffers goes one too far.                   *)
FirstQueue_OneMore ==
  /\ Move("first QBUF", IF i < nbufs THEN "QUERYBUF" ELSE "STREAMON")
  /\ i' = i + 1
  /\ Give(i, "driver")
  /\ UNCHANGED <<fd, cam_fd, nbufs, mapped, streaming, buf, frame, lost,
                 running>>

FirstQueue ==
  /\ Move("first QBUF", IF i + 1 < nbufs THEN "QUERYBUF" ELSE "STREAMON")
  /\ i' = i + 1
  /\ Give(i, "driver")
  /\ UNCHANGED <<fd, cam_fd, nbufs, mapped, streaming, buf, frame, lost,
                 running>>

StreamOn ==
  /\ Move("STREAMON", "warm-up")
  /\ streaming' = TRUE
  /\ cam_fd' = TRUE
  /\ UNCHANGED <<fd, nbufs, i, mapped, owner, buf, frame, lost, running>>

CamInit == Open \/ InitFail \/ SetFormat \/ Request \/ Query \/ Map
           \/ FirstQueue \/ StreamOn
-----------------------------------------------------------------------------
(* Capturing.                                                              *)

Ready(k) == owner[k] = "filled"

(* A buffer is dequeued; any filled one stands for the driver's choice.    *)
Dequeue(from, to) ==
  /\ Move(from, to)
  /\ \E k \in Index : Ready(k) /\ Give(k, "thread") /\ buf' = k
  /\ UNCHANGED <<setup, streaming, frame, lost, running>>

(* The buffer goes back to the driver; nobody looks whether it did.        *)
Requeue(from, to) ==
  /\ Move(from, to)
  /\ \/ Give(buf, "driver") /\ UNCHANGED lost
     \/ "QBUF" \in Faults /\ lost' = lost \cup {buf} /\ UNCHANGED owner
  /\ buf' = NoBuf
  /\ UNCHANGED <<setup, streaming, frame, running>>

Skip(from, to) ==
  /\ Move(from, to)
  /\ UNCHANGED <<setup, owner, streaming, buf, frame, lost, running>>

(* One picture is thrown away at the start, if one comes within 2 s.       *)
Warmup ==
  \/ running /\ Dequeue("warm-up", "warm QBUF")
  \/ Skip("warm-up", "loop")
  \/ Requeue("warm QBUF", "loop")

(* Mutation: the running flag is not looked at.                            *)
Check_Deaf == Skip("loop", "poll")

Check == Skip("loop", IF running THEN "poll" ELSE "deinit")

(* A timeout, if no buffer is filled.                                      *)
PollTimeout == (\A k \in Index : ~ Ready(k)) /\ Skip("poll", "loop")

(* Mutation: the thread returns at once when poll fails.                   *)
PollFail_Return == "poll" \in Faults /\ Skip("poll", "done")

PollFail == "poll" \in Faults /\ Skip("poll", "deinit")

(* A buffer is filled, or the device reports an error in revents, which    *)
(* the code does not look at.                                              *)
PollReady ==
  /\ (\E k \in Index : Ready(k)) \/ "DQBUF" \in Faults
  /\ Skip("poll", "DQBUF")

DequeueFail == "DQBUF" \in Faults /\ Skip("DQBUF", "loop")

(* Mutation: the buffer is requeued before it is decoded.                  *)
Capture_Early ==
  /\ Move("DQBUF", "decode")
  /\ \E k \in Index : Ready(k) /\ Give(k, "driver") /\ buf' = k
  /\ UNCHANGED <<setup, streaming, frame, lost, running>>

Capture == Dequeue("DQBUF", "decode")

(* What the buffer holds is a JPEG picture, or not.                        *)
Decode ==
  /\ Move("decode", "QBUF")
  /\ frame' \in BOOLEAN
  /\ UNCHANGED <<setup, owner, streaming, buf, lost, running>>

(* Mutation: a buffer that does not decode is left behind.                 *)
GiveBack_Whole ==
  IF frame THEN Requeue("QBUF", "push") ELSE Skip("QBUF", "loop")

GiveBack == Requeue("QBUF", IF frame THEN "push" ELSE "loop")

Push == Skip("push", "loop")

(* cam_deinit: STREAMOFF gives every buffer back, then all are unmapped.   *)
Deinit ==
  /\ Move("deinit", "done")
  /\ streaming' = FALSE
  /\ owner' = [k \in Index |-> "none"]
  /\ mapped' = mapped \ (0 .. nbufs - 1)
  /\ fd' = FALSE
  /\ UNCHANGED <<cam_fd, nbufs, i, buf, frame, lost, running>>

Thread == CamInit \/ Warmup \/ Check \/ PollTimeout \/ PollFail \/ PollReady
          \/ DequeueFail \/ Capture \/ Decode \/ GiveBack \/ Push \/ Deinit
-----------------------------------------------------------------------------
(* The driver, and the main thread.                                        *)

Fill(k) ==
  /\ streaming
  /\ owner[k] = "driver"
  /\ Give(k, "filled")
  /\ UNCHANGED <<pc, setup, streaming, buf, frame, lost, running>>

Stop ==
  /\ running
  /\ running' = FALSE
  /\ UNCHANGED <<pc, setup, owner, streaming, buf, frame, lost>>

Terminated == pc = "done" /\ UNCHANGED vars

Next ==
  \/ Thread
  \/ \E k \in Index : Fill(k)
  \/ Stop
  \/ Terminated

Spec == Init /\ [][Next]_vars

(* The thread goes on, since every call it makes returns, poll after 1 s   *)
(* at the latest, and the camera fills the buffers it has.                 *)
FairSpec == Spec /\ WF_vars(Thread) /\ \A k \in Index : WF_vars(Fill(k))
-----------------------------------------------------------------------------
Capturing == {"warm-up", "warm QBUF", "loop", "poll", "DQBUF", "decode", "QBUF",
              "push", "deinit"}

(* Type invariant.                                                         *)
TypeOK ==
  /\ pc \in {"open", "S_FMT", "REQBUFS", "QUERYBUF", "mmap", "first QBUF",
             "STREAMON", "done"} \cup Capturing
  /\ fd \in BOOLEAN /\ cam_fd \in BOOLEAN /\ streaming \in BOOLEAN
  /\ frame \in BOOLEAN /\ running \in BOOLEAN
  /\ nbufs \in 0 .. Asked
  /\ i \in 0 .. nbufs
  /\ mapped \subseteq Index
  /\ owner \in [Index -> {"none", "thread", "driver", "filled"}]
  /\ buf \in Index \cup {NoBuf}
  /\ lost \subseteq Index

(* The memory imdecode reads is a buffer the thread has mapped and the     *)
(* driver does not own: it is not filled again while it is decoded, for    *)
(* VIDIOC_QBUF comes after cv::imdecode.                                   *)
DecodesOwnBuffer == pc = "decode" => buf \in mapped /\ owner[buf] = "thread"

(* While it captures, the thread keeps no buffer from the driver but the   *)
(* one it has in hand and those the driver refused to take back: on every  *)
(* way round the loop, also for pictures that do not decode.               *)
NoneKept ==
  pc \in Capturing =>
    \A k \in 0 .. nbufs - 1 : owner[k] = "thread" <=> k = buf \/ k \in lost

(* A thread that has started capturing leaves nothing behind however it    *)
(* ends: no mapping, no stream, no descriptor.  (One that fails half way   *)
(* through cam_init closes the device but keeps the mappings made so far.) *)
CleanEnd ==
  pc = "done" => /\ ~ fd /\ ~ streaming
                 /\ cam_fd => mapped = {}

(* Liveness: a thread that goes on capturing goes on finding pictures to   *)
(* dequeue, unless the driver has refused to take back every single buffer *)
(* it granted: the thread never runs it out of buffers.                    *)
NeverStarves ==
  /\ <>[](lost # 0 .. nbufs - 1)
  /\ []<>(pc = "loop")
  => []<>(pc = "DQBUF" /\ \E k \in Index : Ready(k))

(* Liveness: once told to, the thread ends, whatever fails.                *)
EndsWhenTold == ~ running ~> pc = "done"
=============================================================================
