------------------------- MODULE CameraDeviceProofs -------------------------
(***************************************************************************)
(* Proofs about CameraDevice, for every number of buffers asked for and    *)
(* every set of calls that may fail.  IInv is the inductive invariant; its *)
(* conjuncts say how far cam_init has got and who has which buffer.        *)
(***************************************************************************)
EXTENDS CameraDevice, TLAPS

Granted == 0 .. nbufs - 1

(* Where the thread has a buffer in hand.                                  *)
InHand == {"warm QBUF", "decode", "QBUF"}

Setup == {"open", "S_FMT", "REQBUFS", "QUERYBUF", "mmap", "first QBUF",
          "STREAMON"}

(* How far the set-up is: buffers below i are mapped and queued.           *)
Progress ==
  /\ pc \in {"open", "S_FMT", "REQBUFS"} => mapped = {}
  /\ pc \in {"QUERYBUF", "mmap"} => i < nbufs /\ mapped = 0 .. i - 1
  /\ pc = "first QBUF" => i < nbufs /\ mapped = 0 .. i
  /\ pc = "STREAMON" => i = nbufs /\ mapped = Granted
  /\ pc \in Capturing => mapped = Granted

(* Device, stream and success go with the place the thread is at.          *)
Stages ==
  /\ fd <=> pc \notin {"open", "done"}
  /\ streaming <=> pc \in Capturing
  /\ pc \in Setup => ~ cam_fd
  /\ pc = "done" /\ cam_fd => mapped = {}

(* Who has which buffer during the set-up, and which one is in hand after. *)
Owners ==
  /\ \A k \in Index \ Granted : owner[k] = "none"
  /\ pc \in {"QUERYBUF", "mmap", "first QBUF", "STREAMON"} =>
       \A k \in Granted : owner[k] = IF k < i THEN "driver" ELSE "thread"
  /\ pc \in InHand => buf \in Granted \ lost
  /\ pc \notin InHand => buf = NoBuf
  /\ pc \in Setup => lost = {}
  /\ lost \subseteq Granted

(* The type invariant, the flags apart.                                    *)
Types ==
  /\ pc \in Setup \cup Capturing \cup {"done"}
  /\ nbufs \in 0 .. Asked
  /\ i \in 0 .. nbufs
  /\ mapped \subseteq Index
  /\ owner \in [Index -> {"none", "thread", "driver", "filled"}]
  /\ buf \in Index \cup {NoBuf}
  /\ lost \subseteq Index

Flags == fd \in BOOLEAN /\ cam_fd \in BOOLEAN /\ streaming \in BOOLEAN
         /\ frame \in BOOLEAN /\ running \in BOOLEAN

IInv == Flags /\ Types /\ Progress /\ Stages /\ Owners /\ NoneKept
-----------------------------------------------------------------------------
USE DEF Move, Skip, setup, Give, Capturing, Setup, InHand, Granted, Index,
        NoBuf

(* The granted buffers are among those the array bufs has room for.        *)
LEMMA Ranges ==
  ASSUME Types
  PROVE  /\ Asked \in Nat /\ nbufs \in Nat /\ i \in Nat
         /\ nbufs <= Asked /\ i <= nbufs
         /\ Granted \subseteq Index
         /\ NoBuf \notin Granted
<1>1. Asked \in Nat
  BY CameraAssumption
<1>2. nbufs \in 0 .. Asked /\ i \in 0 .. nbufs
  BY DEF Types
<1>3. \A k \in Granted : 0 <= k
  BY <1>1, <1>2
<1>4. NoBuf \notin Granted
  BY <1>3
<1> QED
  BY <1>1, <1>2, <1>4

(* The thread starts with nothing.                                         *)
LEMMA Initially == Init => IInv
<1> SUFFICES ASSUME Init PROVE IInv
  OBVIOUS
<1>1. Flags
  BY DEF Init, Flags
<1>2. Types
  BY CameraAssumption DEF Init, Types
<1>3. Progress /\ Owners /\ NoneKept
  BY DEF Init, Progress, Owners, NoneKept
<1>4. Stages
  BY DEF Init, Stages
<1> QED
  BY <1>1, <1>2, <1>3, <1>4 DEF IInv

(* cam_init keeps the invariant: it queues one buffer after another.       *)
LEMMA InitSteps == IInv /\ CamInit => IInv'
<1> SUFFICES ASSUME IInv, CamInit PROVE IInv'
  OBVIOUS
<1>0. Flags /\ Types /\ Progress /\ Stages /\ Owners /\ NoneKept
  BY DEF IInv
<1>1. CASE Open
  <2>1. Flags'
    BY <1>0, <1>1, CameraAssumption DEF Flags, Open
  <2>2. Types'
    BY <1>0, <1>1, CameraAssumption DEF Types, Progress, Owners, Open
  <2>3. Progress'
    BY <1>0, <1>1, CameraAssumption DEF Types, Progress, Open
  <2>4. Stages'
    <3>1. ~ cam_fd /\ ~ streaming /\ ~ fd
      BY <1>0, <1>1 DEF Stages, Open
    <3>2. ~ cam_fd' /\ ~ streaming'
      BY <3>1, <1>1 DEF Open
    <3>3. fd' <=> pc' = "S_FMT"
      BY <3>1, <1>1 DEF Open
    <3>4. pc' \in {"S_FMT", "done"}
      BY <1>1 DEF Open
    <3> QED
      BY <3>2, <3>3, <3>4 DEF Stages
  <2>5. Owners'
    BY <1>0, <1>1, CameraAssumption DEF Types, Progress, Owners, NoneKept, Open
  <2>6. NoneKept'
    BY <1>0, <1>1, CameraAssumption DEF Types, Progress, Owners, NoneKept, Open
  <2> QED
    BY <2>1, <2>2, <2>3, <2>4, <2>5, <2>6 DEF IInv
<1>2. CASE InitFail
  <2>1. Flags'
    BY <1>0, <1>2, CameraAssumption DEF Flags, InitFail
  <2>2. Types'
    BY <1>0, <1>2, CameraAssumption DEF Types, Progress, Owners, InitFail
  <2>3. Progress'
    BY <1>0, <1>2, CameraAssumption DEF Types, Progress, InitFail
  <2>4. Stages'
    BY <1>0, <1>2, CameraAssumption DEF Types, Stages, Progress, InitFail
  <2>5. Owners'
    BY <1>0, <1>2, CameraAssumption DEF Types, Progress, Owners, NoneKept, InitFail
  <2>6. NoneKept'
    BY <1>0, <1>2, CameraAssumption DEF Types, Progress, Owners, NoneKept, InitFail
  <2> QED
    BY <2>1, <2>2, <2>3, <2>4, <2>5, <2>6 DEF IInv
<1>3. CASE SetFormat
  <2>1. Flags'
    BY <1>0, <1>3 DEF Flags, SetFormat
  <2>2. Types'
    BY <1>0, <1>3 DEF Types, Progress, Owners, SetFormat
  <2>3. Progress'
    BY <1>0, <1>3 DEF Types, Progress, SetFormat
  <2>4. Stages'
    BY <1>0, <1>3 DEF Types, Stages, Progress, SetFormat
  <2>5. Owners'
    BY <1>0, <1>3 DEF Types, Progress, Owners, NoneKept, SetFormat
  <2>6. NoneKept'
    BY <1>0, <1>3 DEF Types, Progress, Owners, NoneKept, SetFormat
  <2> QED
    BY <2>1, <2>2, <2>3, <2>4, <2>5, <2>6 DEF IInv
<1>4. CASE Request
  <2>1. Flags'
    BY <1>0, <1>4, CameraAssumption DEF Flags, Request
  <2>2. Types'
    BY <1>0, <1>4, CameraAssumption DEF Types, Progress, Owners, Request
  <2>3. Progress'
    BY <1>0, <1>4, CameraAssumption DEF Types, Progress, Request
  <2>4. Stages'
    BY <1>0, <1>4, CameraAssumption DEF Types, Stages, Progress, Request
  <2>5. Owners'
    BY <1>0, <1>4, CameraAssumption DEF Types, Progress, Owners, NoneKept, Request
  <2>6. NoneKept'
    BY <1>0, <1>4, CameraAssumption DEF Types, Progress, Owners, NoneKept, Request
  <2> QED
    BY <2>1, <2>2, <2>3, <2>4, <2>5, <2>6 DEF IInv
<1>5. CASE Query
  <2>1. Flags'
    BY <1>0, <1>5 DEF Flags, Query
  <2>2. Types'
    BY <1>0, <1>5 DEF Types, Progress, Owners, Query
  <2>3. Progress'
    BY <1>0, <1>5 DEF Types, Progress, Query
  <2>4. Stages'
    BY <1>0, <1>5 DEF Types, Stages, Progress, Query
  <2>5. Owners'
    BY <1>0, <1>5 DEF Types, Progress, Owners, NoneKept, Query
  <2>6. NoneKept'
    BY <1>0, <1>5 DEF Types, Progress, Owners, NoneKept, Query
  <2> QED
    BY <2>1, <2>2, <2>3, <2>4, <2>5, <2>6 DEF IInv
<1>6. CASE Map
  <2>1. Flags'
    BY <1>0, <1>6 DEF Flags, Map
  <2>1a. i < nbufs /\ mapped = 0 .. i - 1
    BY <1>0, <1>6 DEF Progress, Map
  <2>a. i \in Index /\ i < nbufs /\ i \in Nat /\ mapped = 0 .. i - 1
    BY <2>1a, <1>0, Ranges
  <2>b. mapped' = 0 .. i
    <3>1. mapped' = (0 .. i - 1) \cup {i}
      BY <2>a, <1>6 DEF Map
    <3>2. i \in Nat
      BY <2>a
    <3>3. (0 .. i - 1) \cup {i} = 0 .. i
      BY <3>2
    <3> QED
      BY <3>1, <3>3
  <2>2. Types'
    <3>1. mapped' \subseteq Index
      BY <2>a, <2>b, <1>0, Ranges
    <3> QED
      BY <3>1, <1>0, <1>6 DEF Types, Map
  <2>3. Progress'
    BY <2>a, <2>b, <1>6 DEF Progress, Map
  <2>4. Stages'
    BY <1>0, <1>6 DEF Types, Stages, Progress, Map
  <2>5. Owners'
    BY <1>0, <1>6 DEF Types, Progress, Owners, NoneKept, Map
  <2>6. NoneKept'
    BY <1>0, <1>6 DEF Types, Progress, Owners, NoneKept, Map
  <2> QED
    BY <2>1, <2>2, <2>3, <2>4, <2>5, <2>6 DEF IInv
<1>7. CASE FirstQueue
  <2>1. Flags'
    BY <1>0, <1>7 DEF Flags, FirstQueue
  <2>a. i \in Index /\ i < nbufs /\ nbufs \in Nat /\ mapped = 0 .. i
    <3>1. i < nbufs /\ mapped = 0 .. i
      BY <1>0, <1>7 DEF Progress, FirstQueue
    <3> QED
      BY <3>1, <1>0, Ranges
  <2>b. /\ i' = i + 1 /\ nbufs' = nbufs /\ mapped' = mapped
        /\ i + 1 < nbufs => pc' = "QUERYBUF"
        /\ ~ (i + 1 < nbufs) => pc' = "STREAMON"
    BY <1>7 DEF FirstQueue
  <2>2. Types'
    <3>1. i' \in 0 .. nbufs'
      BY <2>a, <2>b
    <3> QED
      BY <3>1, <2>a, <1>0, <1>7 DEF Types, FirstQueue
  <2>3. Progress'
    <3>1. CASE i + 1 < nbufs
      BY <3>1, <2>a, <2>b DEF Progress
    <3>2. CASE ~ (i + 1 < nbufs)
      BY <3>2, <2>a, <2>b DEF Progress
    <3> QED
      BY <3>1, <3>2
  <2>4. Stages'
    BY <1>0, <1>7 DEF Types, Stages, Progress, FirstQueue
  <2>5. Owners'
    <3>1. owner' = [owner EXCEPT ![i] = "driver"]
      BY <1>7 DEF FirstQueue
    <3>2. \A k \in Index \ Granted : owner[k] = "none" /\ k # i
      <4>1. i \in Granted
        BY <2>a
      <4> QED
        BY <4>1, <1>0 DEF Owners
    <3>3. \A k \in Granted : owner[k] = IF k < i THEN "driver" ELSE "thread"
      BY <1>0, <1>7 DEF Owners, FirstQueue
    <3>4. Granted \subseteq Index
      BY <1>0, Ranges
    <3>5. \A k \in Index : owner'[k] = IF k = i THEN "driver" ELSE owner[k]
      BY <3>1, <1>0 DEF Types
    <3>6. \A k \in Granted :
             owner'[k] = IF k < i + 1 THEN "driver" ELSE "thread"
      <4> SUFFICES ASSUME NEW k \in Granted
                   PROVE  owner'[k] = IF k < i + 1 THEN "driver" ELSE "thread"
        OBVIOUS
      <4>1. CASE k = i
        BY <4>1, <3>5, <2>a
      <4>2. CASE k < i
        BY <4>2, <3>3, <3>4, <3>5, <2>a
      <4>3. CASE k > i
        BY <4>3, <3>3, <3>4, <3>5, <2>a
      <4> QED
        BY <4>1, <4>2, <4>3, <2>a
    <3>7. \A k \in Index \ Granted : owner'[k] = "none"
      BY <3>2, <3>5
    <3>8. /\ pc' \in {"QUERYBUF", "STREAMON"} /\ pc = "first QBUF"
          /\ buf' = buf /\ lost' = lost
      BY <1>7 DEF FirstQueue
    <3>9. buf = NoBuf /\ lost = {}
      BY <3>8, <1>0 DEF Owners
    <3> QED
      BY <2>b, <3>6, <3>7, <3>8, <3>9 DEF Owners
  <2>6. NoneKept'
    BY <1>0, <1>7 DEF Types, Progress, Owners, NoneKept, FirstQueue
  <2> QED
    BY <2>1, <2>2, <2>3, <2>4, <2>5, <2>6 DEF IInv
<1>8. CASE StreamOn
  <2>1. Flags'
    BY <1>0, <1>8 DEF Flags, StreamOn
  <2>2. Types'
    BY <1>0, <1>8 DEF Types, Progress, Owners, StreamOn
  <2>3. Progress'
    BY <1>0, <1>8 DEF Types, Progress, StreamOn
  <2>4. Stages'
    BY <1>0, <1>8 DEF Types, Stages, Progress, StreamOn
  <2>5. Owners'
    BY <1>0, <1>8 DEF Types, Progress, Owners, NoneKept, StreamOn
  <2>6. NoneKept'
    BY <1>0, <1>8 DEF Types, Progress, Owners, NoneKept, StreamOn
  <2> QED
    BY <2>1, <2>2, <2>3, <2>4, <2>5, <2>6 DEF IInv
<1> QED
  BY <1>1, <1>2, <1>3, <1>4, <1>5, <1>6, <1>7, <1>8 DEF CamInit

(* Dequeueing takes a filled buffer in hand.                               *)
LEMMA Dequeueing ==
  ASSUME IInv,
         \/ Dequeue("warm-up", "warm QBUF")
         \/ Dequeue("DQBUF", "decode")
  PROVE  IInv'
<1>0. Flags /\ Types /\ Progress /\ Stages /\ Owners /\ NoneKept
  BY DEF IInv
<1>1. PICK k \in Index : Ready(k) /\ Give(k, "thread") /\ buf' = k
  BY DEF Dequeue
<1>2. /\ pc \in {"warm-up", "DQBUF"}
      /\ pc' \in {"warm QBUF", "decode"}
      /\ nbufs' = nbufs /\ i' = i /\ mapped' = mapped /\ lost' = lost
  BY DEF Dequeue
<1>3. Granted \subseteq Index /\ nbufs \in Nat
  BY <1>0, Ranges
<1>4. k \in Granted /\ k \notin lost
  BY <1>0, <1>1, <1>2, <1>3 DEF Ready, Owners, NoneKept, Types
<1>5. \A j \in Index : owner'[j] = IF j = k THEN "thread" ELSE owner[j]
  BY <1>0, <1>1 DEF Types
<1>6. Flags'
  BY <1>0 DEF Flags, Dequeue
<1>7. Types'
  BY <1>0, <1>1, <1>2 DEF Types
<1>8. Progress'
  BY <1>0, <1>2 DEF Progress
<1>9. Stages'
  BY <1>0, <1>2 DEF Stages, Dequeue
<1>10. Owners'
  BY <1>0, <1>1, <1>2, <1>4, <1>5 DEF Owners
<1>11. NoneKept'
  <2>1. \A j \in Granted : owner[j] = "thread" <=> j \in lost
    <3>1. buf \notin Granted
      <4>1. buf = NoBuf
        BY <1>0, <1>2 DEF Owners
      <4> QED
        BY <4>1, <1>0, Ranges
    <3> QED
      BY <3>1, <1>0, <1>2 DEF NoneKept
  <2>2. \A j \in Granted : owner'[j] = "thread" <=> j = buf' \/ j \in lost'
    BY <2>1, <1>1, <1>2, <1>3, <1>5
  <2> QED
    BY <2>2, <1>2 DEF NoneKept
<1> QED
  BY <1>6, <1>7, <1>8, <1>9, <1>10, <1>11 DEF IInv

(* Requeueing lets go of it, whether the driver takes it or not.           *)
LEMMA Requeueing ==
  ASSUME IInv,
         \/ Requeue("warm QBUF", "loop")
         \/ Requeue("QBUF", "loop")
         \/ Requeue("QBUF", "push")
  PROVE  IInv'
<1>0. Flags /\ Types /\ Progress /\ Stages /\ Owners /\ NoneKept
  BY DEF IInv
<1>1. /\ pc \in {"warm QBUF", "QBUF"}
      /\ pc' \in {"loop", "push"}
      /\ nbufs' = nbufs /\ i' = i /\ mapped' = mapped /\ buf' = NoBuf
  BY DEF Requeue
<1>2. buf \in Granted /\ buf \notin lost /\ Granted \subseteq Index
  BY <1>0, <1>1, Ranges DEF Owners
<1>3. \/ Give(buf, "driver") /\ lost' = lost
      \/ lost' = lost \cup {buf} /\ owner' = owner
  BY DEF Requeue
<1>4. Flags'
  BY <1>0 DEF Flags, Requeue
<1>5. Types'
  BY <1>0, <1>1, <1>2, <1>3 DEF Types
<1>6. Progress'
  BY <1>0, <1>1 DEF Progress
<1>7. Stages'
  BY <1>0, <1>1 DEF Stages, Requeue
<1>8. Owners'
  <2>1. \A k \in Index \ Granted : owner'[k] = "none"
    BY <1>0, <1>2, <1>3 DEF Owners, Types
  <2> QED
    BY <2>1, <1>0, <1>1, <1>2, <1>3 DEF Owners
<1>9. NoneKept'
  <2>1. \A k \in Granted : owner[k] = "thread" <=> k = buf \/ k \in lost
    BY <1>0, <1>1 DEF NoneKept
  <2>2. \A k \in Granted : owner'[k] = "thread" <=> k \in lost'
    <3>1. CASE Give(buf, "driver") /\ lost' = lost
      BY <3>1, <2>1, <1>0, <1>2 DEF Types
    <3>2. CASE lost' = lost \cup {buf} /\ owner' = owner
      BY <3>2, <2>1
    <3> QED
      BY <1>3, <3>1, <3>2
  <2> QED
    <3>1. buf' \notin Granted
      <4>1. buf' = NoBuf
        BY <1>1
      <4> QED
        BY <4>1, <1>0, Ranges
    <3>2. \A k \in Granted : owner'[k] = "thread" <=> k = buf' \/ k \in lost'
      BY <2>2, <3>1
    <3> QED
      BY <3>2, <1>1 DEF NoneKept
<1> QED
  BY <1>4, <1>5, <1>6, <1>7, <1>8, <1>9 DEF IInv

(* The steps of the loop that leave the buffers alone.                     *)
LEMMA Skipping ==
  ASSUME IInv,
         \/ Skip("warm-up", "loop")
         \/ Check \/ PollTimeout \/ PollFail \/ PollReady \/ DequeueFail
         \/ Push
  PROVE  IInv'
  BY DEF IInv, Flags, Types, Progress, Stages, Owners, NoneKept, Check, PollTimeout,
         PollFail, PollReady, DequeueFail, Push

(* cam_deinit undoes everything cam_init did.                              *)
LEMMA Ending == ASSUME IInv, Deinit PROVE IInv'
  BY CameraAssumption
  DEF IInv, Flags, Types, Progress, Stages, Owners, NoneKept, Deinit

(* Every step keeps the invariant.                                         *)
LEMMA Preserved == IInv /\ [Next]_vars => IInv'
<1> SUFFICES ASSUME IInv, [Next]_vars PROVE IInv'
  OBVIOUS
<1>1. CASE CamInit
  BY <1>1, InitSteps
<1>2. CASE Warmup
  BY <1>2, Dequeueing, Requeueing, Skipping DEF Warmup
<1>3. CASE Check \/ PollTimeout \/ PollFail \/ PollReady \/ DequeueFail
           \/ Push
  BY <1>3, Skipping
<1>4. CASE Capture
  BY <1>4, Dequeueing DEF Capture
<1>5. CASE Decode
  BY <1>5
  DEF IInv, Flags, Types, Progress, Stages, Owners, NoneKept, Decode
<1>6. CASE GiveBack
  BY <1>6, Requeueing DEF GiveBack
<1>7. CASE Deinit
  BY <1>7, Ending
<1>8. ASSUME NEW k \in Index, Fill(k) PROVE IInv'
  BY <1>8 DEF IInv, Flags, Types, Progress, Stages, Owners, NoneKept, Fill
<1>9. CASE Stop
  <2>1. Types' /\ Progress' /\ Owners' /\ NoneKept'
    BY <1>9 DEF IInv, Types, Progress, Owners, NoneKept, Stop
  <2>2. Flags' /\ Stages'
    BY <1>9 DEF IInv, Flags, Stages, Stop
  <2> QED
    BY <2>1, <2>2 DEF IInv
<1>10. CASE UNCHANGED vars
  <2>1. Types' /\ Progress' /\ Owners' /\ NoneKept'
    BY <1>10 DEF IInv, Types, Progress, Owners, NoneKept, vars
  <2>2. Flags' /\ Stages'
    BY <1>10 DEF IInv, Flags, Stages, vars
  <2> QED
    BY <2>1, <2>2 DEF IInv
<1> QED
  BY <1>1, <1>2, <1>3, <1>4, <1>5, <1>6, <1>7, <1>8, <1>9, <1>10
  DEF Next, Thread, Terminated

(* The inductive invariant, in every reachable state.                      *)
THEOREM CameraInvariance == Spec => []IInv
  BY Initially, Preserved, PTL DEF Spec

(* The camera thread's and the driver's variables keep their types.        *)
THEOREM CameraTypeCorrect == Spec => []TypeOK
<1>1. IInv => TypeOK
  <2> SUFFICES ASSUME Types, Flags PROVE TypeOK
    BY DEF IInv
  <2>1. pc \in Setup \cup {"done"} \cup Capturing
    BY DEF Types
  <2> QED
    BY <2>1 DEF Types, Flags, TypeOK
<1> QED
  BY <1>1, CameraInvariance, PTL

(* What is decoded is never a buffer the driver may be writing to.         *)
THEOREM NoOverwrittenPicture == Spec => []DecodesOwnBuffer
<1>1. IInv => DecodesOwnBuffer
  BY DEF IInv, Flags, Types, Progress, Owners, NoneKept, DecodesOwnBuffer
<1> QED
  BY <1>1, CameraInvariance, PTL

(* No way round the capture loop keeps a buffer from the driver.           *)
THEOREM NoBufferKept == Spec => []NoneKept
<1>1. IInv => NoneKept
  BY DEF IInv
<1> QED
  BY <1>1, CameraInvariance, PTL

(* A camera that has been capturing ends with nothing mapped or open.      *)
THEOREM EndsClean == Spec => []CleanEnd
<1>1. IInv => CleanEnd
  BY DEF IInv, Stages, CleanEnd
<1> QED
  BY <1>1, CameraInvariance, PTL
=============================================================================
