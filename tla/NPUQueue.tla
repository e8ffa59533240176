------------------------------ MODULE NPUQueue ------------------------------
(***************************************************************************)
(* The pool of panorama buffers of npu_queue.{h,cpp}: buf_num dma-heap     *)
(* buffers, each with the two integers NPUBufferMeta keeps behind its      *)
(* pixels.  Every operation of the program runs under the queue's one      *)
(* mutex from its first line to its last, so each is one step here.  The   *)
(* threads that call them, and the pixels, are in Pipeline.                *)
(*                                                                         *)
(* The claim_* operations take the buffer they return as a parameter: a    *)
(* caller binds it with \E i \in Buf, and NoneX says when the code returns *)
(* -1 instead.                                                             *)
(***************************************************************************)
EXTENDS Integers

CONSTANT BufNum      \* buf_num, NPU_QUEUE_CAPACITY = 6 in the program

ASSUME BufNumAssumption == BufNum \in Nat \ {0}

VARIABLE meta        \* meta[i]: the frame_id and the state of buffer i

Buf == 0 .. BufNum - 1

BufState == {"FREE", "FILLED", "PROCESSING", "READY"}

InState(i, s) == meta[i].state = s

Set(i, id, s) == meta' = [meta EXCEPT ![i] = [frame_id |-> id, state |-> s]]

SetState(i, s) == Set(i, meta[i].frame_id, s)

(* The first buffer in index order that is in state s: the scan of         *)
(* claim_free and claim_filled, which looks at the index and not at the    *)
(* age of what the buffer holds.                                           *)
FirstIn(i, s) ==
  /\ InState(i, s)
  /\ \A j \in Buf : InState(j, s) => i <= j

(* The buffer claim_ready settles on: the smallest frame_id, and of two    *)
(* equal ones the smaller index, since the scan replaces its candidate     *)
(* only for a strictly smaller id.                                         *)
OldestReady(i) ==
  /\ InState(i, "READY")
  /\ \A j \in Buf : InState(j, "READY") =>
       \/ meta[i].frame_id < meta[j].frame_id
       \/ meta[i].frame_id = meta[j].frame_id /\ i <= j

None(s) == \A j \in Buf : ~ InState(j, s)

InitQueue == meta = [i \in Buf |-> [frame_id |-> -1, state |-> "FREE"]]

claim_free(i) == FirstIn(i, "FREE") /\ SetState(i, "PROCESSING")


claim_filled(i) == FirstIn(i, "FILLED") /\ SetState(i, "PROCESSING")

claim_ready(i) == OldestReady(i) /\ SetState(i, "PROCESSING")

(* The mark_* operations do not look at the state the buffer is in: an     *)
(* index outside the pool is ignored, any other one is overwritten.        *)
mark_filled(idx, id) ==
  IF idx \in Buf THEN Set(idx, id, "FILLED") ELSE UNCHANGED meta

mark_ready(idx) ==
  IF idx \in Buf THEN SetState(idx, "READY") ELSE UNCHANGED meta

mark_free(idx) ==
  IF idx \in Buf THEN Set(idx, -1, "FREE") ELSE UNCHANGED meta
=============================================================================
