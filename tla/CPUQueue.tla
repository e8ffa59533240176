------------------------------ MODULE CPUQueue ------------------------------
(***************************************************************************)
(* The ring of decoded frames between one camera's capture thread and the  *)
(* stitch thread: SingleQueue and CPUQueue of cpu_queue.{h,cpp}, one ring  *)
(* per camera.                                                             *)
(*                                                                         *)
(* push takes its slot under the ring's mutex but copies the frame into it *)
(* after the unlock, so it is three steps here: Reserve, then the copy,    *)
(* which begins and ends.  The reader copies the head slot out under the   *)
(* mutex, which does not keep the writer's copy out.                       *)
(*                                                                         *)
(* The frames of a camera are numbered round 0 .. SeqMod - 1, so that a    *)
(* camera can go on for ever in a finite model; Empty is a cv::Mat that    *)
(* was never written, Torn one that is being written: what a reader gets   *)
(* out of it then is undefined.                                            *)
(***************************************************************************)
EXTENDS Integers

CONSTANTS
  NumCams,     \* 4 in the program
  QueueSize,   \* CPU_QUEUE_SIZE, 4 in the program
  SeqMod       \* bound of the model: how many frames have different numbers

ASSUME CPUQueueAssumption ==
  /\ NumCams \in Nat \ {0}
  /\ QueueSize \in Nat \ {0}
  /\ SeqMod \in Nat
  /\ SeqMod > QueueSize

VARIABLES head, tail, count, buf     \* of each camera's SingleQueue

ring == <<head, tail, count, buf>>

Cams == 1 .. NumCams

Slot == 0 .. QueueSize - 1

FrameNo == 0 .. SeqMod - 1

Empty == -1
Torn == -2

Content == FrameNo \cup {Empty, Torn}

NextSlot(k) == (k + 1) % QueueSize

NextFrame(f) == (f + 1) % SeqMod

InitRings ==
  /\ head = [c \in Cams |-> 0]
  /\ tail = [c \in Cams |-> 0]
  /\ count = [c \in Cams |-> 0]
  /\ buf = [c \in Cams |-> [k \in Slot |-> Empty]]

(* Mutation: a full ring is noticed one frame late.                        *)
Reserve_Late(c) ==
  /\ IF count[c] > QueueSize
     THEN head' = [head EXCEPT ![c] = NextSlot(@)] /\ UNCHANGED count
     ELSE count' = [count EXCEPT ![c] = @ + 1] /\ UNCHANGED head
  /\ tail' = [tail EXCEPT ![c] = NextSlot(@)]
  /\ UNCHANGED buf

(* Mutation: a full ring keeps its head when tail runs over it.            *)
Reserve_KeepHead(c) ==
  /\ count' = [count EXCEPT ![c] = IF @ >= QueueSize THEN @ ELSE @ + 1]
  /\ tail' = [tail EXCEPT ![c] = NextSlot(@)]
  /\ UNCHANGED <<head, buf>>

(* The locked part of push: a full ring gives up its oldest frame, and the *)
(* slot at tail becomes part of the ring.                                  *)
Reserve(c) ==
  /\ IF count[c] >= QueueSize
     THEN head' = [head EXCEPT ![c] = NextSlot(@)] /\ UNCHANGED count
     ELSE count' = [count EXCEPT ![c] = @ + 1] /\ UNCHANGED head
  /\ tail' = [tail EXCEPT ![c] = NextSlot(@)]
  /\ UNCHANGED buf

(* The rest of push, outside the lock: the slot holds f once it is over.   *)
BeginCopy(c, k) ==
  /\ buf' = [buf EXCEPT ![c][k] = Torn]
  /\ UNCHANGED <<head, tail, count>>

EndCopy(c, k, f) ==
  /\ buf' = [buf EXCEPT ![c][k] = f]
  /\ UNCHANGED <<head, tail, count>>

(* The reader's part, under the lock: the head slot leaves the ring.       *)
HasFrame(c) == count[c] > 0

HeadFrame(c) == buf[c][head[c]]

TakeHead(c) ==
  /\ HasFrame(c)
  /\ head' = [head EXCEPT ![c] = NextSlot(@)]
  /\ count' = [count EXCEPT ![c] = @ - 1]
  /\ UNCHANGED <<tail, buf>>

free_bufs ==
  /\ buf' = [c \in Cams |-> [k \in Slot |-> Empty]]
  /\ UNCHANGED <<head, tail, count>>
=============================================================================
