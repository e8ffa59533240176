---------------------------- MODULE CaptureProofs ---------------------------
(***************************************************************************)
(* Proofs about Capture, for every number of cameras, every length of the  *)
(* rings and every set of calls that may fail.  The invariant: in each     *)
(* ring tail is count slots after head, and a push under way has the slot  *)
(* before tail (InStep); and main frees the rings after every other thread *)
(* has ended (Over).  From it follows that each ring is a FrameQueue.      *)
(***************************************************************************)
EXTENDS Capture, TLAPS

InStep ==
  \A c \in Cams : /\ tail[c] = (head[c] + count[c]) % QueueSize
                  /\ Pushing(c) => tail[c] = NextSlot(slot[c])

Over ==
  /\ pc[MAIN] \in {"free", "done"} => \A t \in Threads \ {MAIN} : pc[t] = "done"
  /\ freed => pc[MAIN] = "done"

IInv == TypeOK /\ InStep /\ Over
-----------------------------------------------------------------------------
(* Arithmetic round a ring.                                                *)
LEMMA Round ==
  ASSUME NEW k \in Slot, NEW n \in 0 .. QueueSize
  PROVE  /\ (k + n) % QueueSize \in Slot
         /\ (k + n) % QueueSize = IF k + n < QueueSize THEN k + n
                                  ELSE k + n - QueueSize
BY CPUQueueAssumption DEF Slot

LEMMA Following ==
  ASSUME NEW k \in Slot
  PROVE  /\ NextSlot(k) \in Slot
         /\ NextSlot(k) = IF k + 1 = QueueSize THEN 0 ELSE k + 1
BY CPUQueueAssumption DEF Slot, NextSlot

LEMMA FrameAfter == ASSUME NEW f \in FrameNo PROVE NextFrame(f) \in FrameNo
BY CPUQueueAssumption DEF FrameNo, NextFrame

(* Sequences given as functions.                                           *)
LEMMA AsSequence ==
  ASSUME NEW S, NEW m \in Nat, NEW f \in [1 .. m -> S]
  PROVE  f \in Seq(S) /\ Len(f) = m
OBVIOUS

LEMMA AsTail ==
  ASSUME NEW S, NEW m \in Nat \ {0}, NEW f \in [1 .. m -> S],
         NEW g \in [1 .. m - 1 -> S], \A n \in 1 .. m - 1 : g[n] = f[n + 1]
  PROVE  g = Tail(f) /\ Head(f) = f[1]
BY AsSequence

LEMMA AsAppend ==
  ASSUME NEW S, NEW m \in Nat, NEW f \in [1 .. m -> S], NEW e \in S,
         NEW g \in [1 .. m + 1 -> S], \A n \in 1 .. m : g[n] = f[n],
         g[m + 1] = e
  PROVE  g = Append(f, e)
BY AsSequence
-----------------------------------------------------------------------------
(* The threads.                                                            *)
LEMMA ThreadFacts ==
  /\ STITCH \in Threads /\ MAIN \in Threads /\ Cams \subseteq Threads
  /\ STITCH # MAIN /\ STITCH \notin Cams /\ MAIN \notin Cams
BY CaptureAssumption DEF Threads

(* The type invariant in two parts.                                        *)
PlacesOK ==
  /\ pc \in [Threads -> CamPcs \cup CollectPcs \cup MainPcs]
  /\ \A c \in Cams : pc[c] \in CamPcs
  /\ pc[STITCH] \in CollectPcs
  /\ pc[MAIN] \in MainPcs

RingsOK ==
  /\ head \in [Cams -> Slot]
  /\ tail \in [Cams -> Slot]
  /\ count \in [Cams -> 0 .. QueueSize]
  /\ buf \in [Cams -> [Slot -> Content]]

HeldOK ==
  /\ seq \in [Cams -> FrameNo]
  /\ slot \in [Cams -> Slot]
  /\ cam \in Cams
  /\ frames \in [Cams -> Content]
  /\ running \in [Threads \ {MAIN} -> BOOLEAN]
  /\ freed \in BOOLEAN

LEMMA Parts == TypeOK <=> PlacesOK /\ RingsOK /\ HeldOK
BY DEF TypeOK, PlacesOK, RingsOK, HeldOK

LEMMA PartsKept == PlacesOK' /\ RingsOK' /\ HeldOK' => TypeOK'
BY DEF TypeOK, PlacesOK, RingsOK, HeldOK

LEMMA Moving ==
  ASSUME PlacesOK, NEW t \in Threads, NEW from, NEW to, Move(t, from, to),
         t \in Cams => to \in CamPcs,
         t = STITCH => to \in CollectPcs,
         t = MAIN => to \in MainPcs
  PROVE  /\ PlacesOK'
         /\ pc[t] = from /\ pc'[t] = to
         /\ \A u \in Threads \ {t} : pc'[u] = pc[u]
BY ThreadFacts DEF Move, PlacesOK, Threads

(* A thread that is not done is there before main frees the rings.         *)
LEMMA Early ==
  ASSUME IInv, NEW t \in Threads \ {MAIN}, pc[t] # "done"
  PROVE  ~ freed /\ pc[MAIN] \in {"run", "stop"}
BY DEF IInv, Over, TypeOK, MainPcs

(* A step of such a thread keeps the order of the end.                     *)
LEMMA OverKept ==
  ASSUME IInv, NEW t \in Threads \ {MAIN}, pc[t] # "done",
         \A u \in Threads \ {t} : pc'[u] = pc[u], freed' = freed
  PROVE  Over'
BY Early, ThreadFacts DEF Over

(* What InStep is about left alone.                                        *)
LEMMA InStepLeft ==
  ASSUME IInv, \A c \in Cams : Pushing(c)' => Pushing(c),
         head' = head, tail' = tail, count' = count, slot' = slot
  PROVE  InStep'
<1> SUFFICES ASSUME NEW c \in Cams
             PROVE  /\ tail'[c] = (head'[c] + count'[c]) % QueueSize
                    /\ Pushing(c)' => tail'[c] = NextSlot(slot'[c])
  BY DEF InStep
<1> QED BY DEF IInv, InStep
-----------------------------------------------------------------------------
LEMMA Starts == Init => IInv
<1> SUFFICES ASSUME Init PROVE IInv OBVIOUS
<1>1. /\ pc \in [Threads -> {"init", "loop", "run"}]
      /\ \A c \in Cams : pc[c] = "init"
      /\ pc[STITCH] = "loop" /\ pc[MAIN] = "run"
  BY ThreadFacts DEF Init, Threads
<1>2. PlacesOK BY <1>1 DEF PlacesOK, CamPcs, CollectPcs, MainPcs
<1>3. RingsOK
  BY CPUQueueAssumption DEF Init, InitRings, RingsOK, Slot, Content
<1>4. HeldOK
  <2>1. seq \in [Cams -> FrameNo] BY CPUQueueAssumption DEF Init, FrameNo
  <2>2. slot \in [Cams -> Slot] BY CPUQueueAssumption DEF Init, Slot
  <2>3. cam \in Cams BY CPUQueueAssumption DEF Init, Cams
  <2>4. frames \in [Cams -> Content] BY DEF Init, Content
  <2>5. running \in [Threads \ {MAIN} -> BOOLEAN] BY Zenon DEF Init
  <2>6. freed \in BOOLEAN BY Zenon DEF Init
  <2> QED BY <2>1, <2>2, <2>3, <2>4, <2>5, <2>6, Zenon DEF HeldOK
<1>5. InStep
  <2>1. \A c \in Cams : ~ Pushing(c) BY <1>1 DEF Pushing
  <2>2. 0 \in Slot BY CPUQueueAssumption DEF Slot
  <2>3. (0 + 0) % QueueSize = 0 BY <2>2, Round, CPUQueueAssumption
  <2> QED BY <2>1, <2>3 DEF Init, InitRings, InStep
<1>6. Over BY <1>1 DEF Init, Over
<1> QED BY <1>2, <1>3, <1>4, <1>5, <1>6, Parts DEF IInv
-----------------------------------------------------------------------------
(* A capture thread's steps that leave its ring alone.                     *)
LEMMA Idling ==
  ASSUME IInv, NEW c \in Cams,
         CamInit(c) \/ CamCheck(c) \/ CamNothing(c) \/ CamPollFail(c)
  PROVE  /\ IInv'
         /\ \A d \in Cams : ~ Pushing(c) /\ Pushing(d)' = Pushing(d)
         /\ UNCHANGED <<ring, seq, slot, frames, freed>>
<1> USE ThreadFacts DEF CamPcs
<1>1. /\ PlacesOK' /\ pc[c] \in {"init", "loop", "poll"}
      /\ pc'[c] \in {"loop", "poll", "done"}
      /\ \A u \in Threads \ {c} : pc'[u] = pc[u]
      /\ UNCHANGED <<ring, seq, slot, cam, frames, running, freed>>
  <2>1. PlacesOK BY Parts DEF IInv
  <2>2. \E from \in {"init", "loop", "poll"}, to \in {"loop", "poll", "done"} :
          Move(c, from, to)
    <3>1. CASE CamInit(c) BY <3>1 DEF CamInit
    <3>2. CASE CamCheck(c)
      <4>1. CASE running[c] BY <3>2, <4>1 DEF CamCheck
      <4>2. CASE ~ running[c] BY <3>2, <4>2 DEF CamCheck
      <4> QED BY <4>1, <4>2
    <3>3. CASE CamNothing(c) BY <3>3 DEF CamNothing
    <3>4. CASE CamPollFail(c) BY <3>4 DEF CamPollFail
    <3> QED BY <3>1, <3>2, <3>3, <3>4
  <2>3. UNCHANGED <<ring, seq, slot, cam, frames, running, freed>>
    BY DEF CamInit, CamCheck, CamNothing, CamPollFail
  <2> QED BY <2>1, <2>2, <2>3, Moving
<1>2. TypeOK'
  <2>1. RingsOK /\ HeldOK BY Parts DEF IInv
  <2>2. RingsOK' BY <1>1, <2>1 DEF RingsOK, ring
  <2>3. HeldOK' BY <1>1, <2>1 DEF HeldOK
  <2> QED BY <1>1, <2>2, <2>3, PartsKept
<1>3. \A d \in Cams : ~ Pushing(c) /\ Pushing(d)' = Pushing(d)
  <2> SUFFICES ASSUME NEW d \in Cams
               PROVE  ~ Pushing(c) /\ Pushing(d)' = Pushing(d)
    OBVIOUS
  <2>1. CASE d = c BY <1>1, <2>1 DEF Pushing
  <2>2. CASE d # c BY <1>1, <2>2 DEF Pushing
  <2> QED BY <2>1, <2>2
<1>4. InStep' BY <1>1, <1>3, InStepLeft DEF ring
<1>5. Over' BY <1>1, OverKept
<1> QED BY <1>1, <1>2, <1>3, <1>4, <1>5 DEF IInv

(* push takes its slot.                                                    *)
LEMMA Reserving ==
  ASSUME IInv, NEW c \in Cams, CamReserve(c)
  PROVE  /\ IInv'
         /\ ~ Pushing(c) /\ Pushing(c)'
         /\ \A d \in Cams \ {c} : Pushing(d)' = Pushing(d)
<1> USE ThreadFacts DEF CamPcs
<1>1. /\ PlacesOK' /\ pc[c] = "poll" /\ pc'[c] = "reserved"
      /\ \A u \in Threads \ {c} : pc'[u] = pc[u]
  <2>1. PlacesOK BY Parts DEF IInv
  <2> QED BY <2>1, Moving DEF CamReserve
<1>2. RingsOK /\ HeldOK BY Parts DEF IInv
<1>3. RingsOK'
  <2>1. \A k \in Slot : NextSlot(k) \in Slot BY Following
  <2>2. head' \in [Cams -> Slot] /\ tail' \in [Cams -> Slot]
    BY <1>2, <2>1 DEF CamReserve, Reserve, RingsOK
  <2>3. count' \in [Cams -> 0 .. QueueSize]
    BY <1>2, CPUQueueAssumption DEF CamReserve, Reserve, RingsOK
  <2> QED BY <1>2, <2>2, <2>3 DEF CamReserve, Reserve, RingsOK
<1>4. HeldOK'
  <2>1. seq' \in [Cams -> FrameNo] BY <1>2, FrameAfter DEF CamReserve, HeldOK
  <2>2. slot' \in [Cams -> Slot] BY <1>2 DEF CamReserve, HeldOK, RingsOK
  <2> QED BY <1>2, <2>1, <2>2 DEF CamReserve, HeldOK
<1>5. InStep'
  <2> SUFFICES ASSUME NEW d \in Cams
               PROVE  /\ tail'[d] = (head'[d] + count'[d]) % QueueSize
                      /\ Pushing(d)' => tail'[d] = NextSlot(slot'[d])
    BY DEF InStep
  <2>1. tail[d] = (head[d] + count[d]) % QueueSize BY DEF IInv, InStep
  <2>2. CASE d # c
    <3>1. /\ head'[d] = head[d] /\ tail'[d] = tail[d] /\ count'[d] = count[d]
          /\ slot'[d] = slot[d]
      BY <1>2, <2>2 DEF CamReserve, Reserve, RingsOK, HeldOK
    <3>2. Pushing(d)' = Pushing(d) BY <1>1, <2>2 DEF Pushing
    <3> QED BY <2>1, <3>1, <3>2 DEF IInv, InStep
  <2>3. CASE d = c
    <3>1. tail'[d] = NextSlot(tail[d]) /\ slot'[d] = tail[d]
      BY <1>2, <2>3 DEF CamReserve, Reserve, RingsOK, HeldOK
    <3>2. head[d] \in Slot /\ count[d] \in 0 .. QueueSize /\ tail[d] \in Slot
      BY <1>2 DEF RingsOK
    <3>3. CASE count[d] >= QueueSize
      <4>1. head'[d] = NextSlot(head[d]) /\ count'[d] = count[d]
        BY <1>2, <2>3, <3>3 DEF CamReserve, Reserve, RingsOK
      <4>2. count[d] = QueueSize BY <3>2, <3>3, CPUQueueAssumption
      <4>3. tail[d] = head[d]
        BY <2>1, <3>2, <4>2, Round, CPUQueueAssumption DEF Slot
      <4>4. NextSlot(head[d]) = (NextSlot(head[d]) + count[d]) % QueueSize
        <5> DEFINE n == NextSlot(head[d])
        <5>1. n \in Slot BY <3>2, Following
        <5>2. (n + count[d]) % QueueSize = IF n + count[d] < QueueSize
                THEN n + count[d] ELSE n + count[d] - QueueSize
          BY <3>2, <5>1, Round
        <5> QED BY <4>2, <5>1, <5>2, CPUQueueAssumption DEF Slot
      <4> QED BY <3>1, <4>1, <4>3, <4>4
    <3>4. CASE count[d] < QueueSize
      <4>1. head'[d] = head[d] /\ count'[d] = count[d] + 1
        BY <1>2, <2>3, <3>2, <3>4, CPUQueueAssumption
           DEF CamReserve, Reserve, RingsOK
      <4>2. NextSlot(tail[d]) = (head[d] + (count[d] + 1)) % QueueSize
        <5>1. count[d] + 1 \in 0 .. QueueSize
          BY <3>2, <3>4, CPUQueueAssumption
        <5>2. (head[d] + (count[d] + 1)) % QueueSize =
                IF head[d] + (count[d] + 1) < QueueSize
                THEN head[d] + (count[d] + 1)
                ELSE head[d] + (count[d] + 1) - QueueSize
          BY <3>2, <5>1, Round
        <5>3. tail[d] = IF head[d] + count[d] < QueueSize
                        THEN head[d] + count[d] ELSE head[d] + count[d] - QueueSize
          BY <2>1, <3>2, Round
        <5>4. NextSlot(tail[d]) = IF tail[d] + 1 = QueueSize THEN 0
                                  ELSE tail[d] + 1
          BY <3>2, Following
        <5> QED BY <3>2, <3>4, <5>2, <5>3, <5>4, CPUQueueAssumption DEF Slot
      <4> QED BY <3>1, <4>1, <4>2
    <3> QED BY <3>2, <3>3, <3>4, CPUQueueAssumption
  <2> QED BY <2>2, <2>3
<1>6. Over' BY <1>1, OverKept DEF CamReserve
<1>7. ~ Pushing(c) /\ Pushing(c)' BY <1>1 DEF Pushing
<1>8. \A d \in Cams \ {c} : Pushing(d)' = Pushing(d) BY <1>1 DEF Pushing
<1> QED BY <1>1, <1>3, <1>4, <1>5, <1>6, <1>7, <1>8, PartsKept DEF IInv

(* push writes its slot.                                                   *)
LEMMA Copying ==
  ASSUME IInv, NEW c \in Cams, CamBeginCopy(c) \/ CamEndCopy(c)
  PROVE  /\ IInv'
         /\ pc[c] \in {"reserved", "copying"} /\ Pushing(c)
         /\ \A u \in Threads \ {c} : pc'[u] = pc[u]
         /\ \A d \in Cams \ {c} : Pushing(d)' = Pushing(d)
<1> USE ThreadFacts DEF CamPcs
<1>1. /\ PlacesOK' /\ pc[c] \in {"reserved", "copying"}
      /\ \A u \in Threads \ {c} : pc'[u] = pc[u]
  <2>1. PlacesOK BY Parts DEF IInv
  <2> QED BY <2>1, Moving DEF CamBeginCopy, CamEndCopy
<1>2. RingsOK /\ HeldOK BY Parts DEF IInv
<1>3. /\ head' = head /\ tail' = tail /\ count' = count
      /\ UNCHANGED <<seq, slot, cam, frames, running, freed>>
  BY DEF CamBeginCopy, CamEndCopy, BeginCopy, EndCopy
<1>4. \E f \in Content : buf' = [buf EXCEPT ![c][slot[c]] = f]
  <2>1. CASE CamBeginCopy(c) BY <2>1 DEF CamBeginCopy, BeginCopy, Content
  <2>2. CASE CamEndCopy(c)
    BY <1>2, <2>2 DEF CamEndCopy, EndCopy, Content, HeldOK
  <2> QED BY <2>1, <2>2
<1>5. buf' \in [Cams -> [Slot -> Content]]
  BY <1>2, <1>4 DEF RingsOK, HeldOK
<1>6. RingsOK' BY <1>2, <1>3, <1>5 DEF RingsOK
<1>7. HeldOK' BY <1>2, <1>3 DEF HeldOK
<1>8. Pushing(c) /\ \A d \in Cams \ {c} : Pushing(d)' = Pushing(d)
  BY <1>1 DEF Pushing
<1>9. InStep' BY <1>3, <1>8, InStepLeft
<1>10. Over' BY <1>1, <1>3, OverKept
<1> QED BY <1>1, <1>6, <1>7, <1>8, <1>9, <1>10, PartsKept DEF IInv

(* The steps of the stitch thread, CollectTake apart, leave rings and      *)
(* frames alone.                                                           *)
LEMMA Rounds ==
  ASSUME IInv, CollectStart \/ CollectWait \/ CollectGiveUp \/ Stitch
  PROVE  /\ IInv'
         /\ \A d \in Cams : Pushing(d)' = Pushing(d)
         /\ UNCHANGED <<ring, seq, slot, frames, freed>>
<1> USE ThreadFacts DEF CollectPcs
<1>1. /\ PlacesOK' /\ pc[STITCH] # "done"
      /\ \A u \in Threads \ {STITCH} : pc'[u] = pc[u]
  <2>1. PlacesOK BY Parts DEF IInv
  <2>2. \E from \in {"loop", "collect", "wait", "stitch"},
           to \in {"loop", "collect", "wait", "done"} : Move(STITCH, from, to)
    <3>1. CASE CollectStart
      <4>1. CASE running[STITCH] BY <3>1, <4>1 DEF CollectStart
      <4>2. CASE ~ running[STITCH] BY <3>1, <4>2 DEF CollectStart
      <4> QED BY <4>1, <4>2
    <3> QED BY <3>1 DEF CollectWait, CollectGiveUp, Stitch
  <2> QED BY <2>1, <2>2, Moving
<1>2. UNCHANGED <<ring, seq, slot, frames, running, freed>>
  BY DEF CollectStart, CollectWait, CollectGiveUp, Stitch
<1>3. RingsOK /\ HeldOK BY Parts DEF IInv
<1>4. cam' \in Cams
  BY <1>3, CPUQueueAssumption
     DEF CollectStart, CollectWait, CollectGiveUp, Stitch, Cams, HeldOK
<1>5. RingsOK' BY <1>2, <1>3 DEF RingsOK, ring
<1>6. HeldOK' BY <1>2, <1>3, <1>4 DEF HeldOK
<1>7. \A d \in Cams : Pushing(d)' = Pushing(d) BY <1>1 DEF Pushing
<1>8. InStep' BY <1>2, <1>7, InStepLeft DEF ring
<1>9. Over' BY <1>1, <1>2, OverKept
<1> QED BY <1>1, <1>2, <1>5, <1>6, <1>7, <1>8, <1>9, PartsKept DEF IInv

(* A frame is taken.                                                       *)
LEMMA Taking ==
  ASSUME IInv, CollectTake
  PROVE  /\ IInv'
         /\ pc[STITCH] \in {"collect", "wait"}
         /\ \A d \in Cams : Pushing(d)' = Pushing(d)
<1> USE ThreadFacts DEF CollectPcs
<1>1. RingsOK /\ HeldOK BY Parts DEF IInv
<1>2. /\ pc[STITCH] \in {"collect", "wait"} /\ cam' \in Cams
      /\ \E to \in {"collect", "stitch"} : pc' = [pc EXCEPT ![STITCH] = to]
  <2>1. CASE cam < NumCams
    BY <1>1, <2>1, CPUQueueAssumption DEF CollectTake, Cams, HeldOK
  <2>2. CASE ~ (cam < NumCams)
    BY <1>1, <2>2, CPUQueueAssumption DEF CollectTake, Cams, HeldOK
  <2> QED BY <2>1, <2>2
<1>3. /\ PlacesOK' /\ \A u \in Threads \ {STITCH} : pc'[u] = pc[u]
  <2>1. PlacesOK BY Parts DEF IInv
  <2> QED BY <1>2, <2>1, Moving DEF Move
<1>4. /\ head' = [head EXCEPT ![cam] = NextSlot(@)]
      /\ count' = [count EXCEPT ![cam] = @ - 1] /\ count[cam] > 0
      /\ frames' = [frames EXCEPT ![cam] = buf[cam][head[cam]]]
      /\ UNCHANGED <<tail, buf, seq, slot, running, freed>>
  BY DEF CollectTake, TakeHead, HasFrame, HeadFrame
<1>5. RingsOK'
  <2>1. NextSlot(head[cam]) \in Slot BY <1>1, Following DEF RingsOK, HeldOK
  <2>2. count[cam] - 1 \in 0 .. QueueSize
    BY <1>1, <1>4, CPUQueueAssumption DEF RingsOK, HeldOK
  <2> QED BY <1>1, <1>4, <2>1, <2>2 DEF RingsOK
<1>6. HeldOK'
  <2>1. frames' \in [Cams -> Content] BY <1>1, <1>4 DEF RingsOK, HeldOK
  <2> QED BY <1>1, <1>2, <1>4, <2>1 DEF HeldOK
<1>7. \A d \in Cams : Pushing(d)' = Pushing(d) BY <1>3 DEF Pushing
<1>8. InStep'
  <2> SUFFICES ASSUME NEW d \in Cams
               PROVE  /\ tail'[d] = (head'[d] + count'[d]) % QueueSize
                      /\ Pushing(d)' => tail'[d] = NextSlot(slot'[d])
    BY DEF InStep
  <2>1. tail[d] = (head[d] + count[d]) % QueueSize BY DEF IInv, InStep
  <2>2. Pushing(d)' => tail'[d] = NextSlot(slot'[d])
    BY <1>4, <1>7 DEF IInv, InStep
  <2>3. CASE d # cam
    BY <1>1, <1>4, <2>1, <2>2, <2>3 DEF RingsOK
  <2>4. CASE d = cam
    <3>1. head[d] \in Slot /\ count[d] \in 1 .. QueueSize
      BY <1>1, <1>4, <2>4, CPUQueueAssumption DEF RingsOK
    <3>2. head'[d] = NextSlot(head[d]) /\ count'[d] = count[d] - 1
      BY <1>1, <1>4, <2>4 DEF RingsOK
    <3>3. NextSlot(head[d]) \in Slot /\
          NextSlot(head[d]) = IF head[d] + 1 = QueueSize THEN 0 ELSE head[d] + 1
      BY <3>1, Following
    <3>4. (head[d] + count[d]) % QueueSize =
            IF head[d] + count[d] < QueueSize THEN head[d] + count[d]
            ELSE head[d] + count[d] - QueueSize
      BY <3>1, Round, CPUQueueAssumption
    <3>5. (head'[d] + count'[d]) % QueueSize =
            IF head'[d] + count'[d] < QueueSize THEN head'[d] + count'[d]
            ELSE head'[d] + count'[d] - QueueSize
      BY <3>1, <3>2, <3>3, Round, CPUQueueAssumption
    <3>6. (head'[d] + count'[d]) % QueueSize = (head[d] + count[d]) % QueueSize
      BY <3>1, <3>2, <3>3, <3>4, <3>5, CPUQueueAssumption DEF Slot
    <3> QED BY <1>4, <2>1, <2>2, <3>6
  <2> QED BY <2>3, <2>4
<1>9. Over' BY <1>2, <1>3, <1>4, OverKept
<1> QED BY <1>2, <1>3, <1>5, <1>6, <1>7, <1>8, <1>9, PartsKept DEF IInv

(* Main.  When it has joined the others they are done, and stay so.        *)
LEMMA Ending ==
  ASSUME IInv, MainLeave \/ MainWork
  PROVE  /\ IInv'
         /\ \A d \in Cams : Pushing(d)' = Pushing(d)
         /\ UNCHANGED <<seq, frames>>
         /\ \/ UNCHANGED <<ring, slot, freed>>
            \/ ~ freed /\ freed' = TRUE /\ \A d \in Cams : ~ Pushing(d)
<1> USE ThreadFacts DEF MainPcs
<1>1. PlacesOK /\ RingsOK /\ HeldOK BY Parts DEF IInv
<1>2. UNCHANGED <<head, tail, count, seq, slot, cam, frames>>
  BY DEF MainLeave, MainWork, MainStop, MainJoin, MainFree, free_bufs, ring
<1>3. CASE MainLeave
  <2>1. /\ PlacesOK' /\ pc[MAIN] = "run" /\ pc'[MAIN] = "stop"
        /\ \A u \in Threads \ {MAIN} : pc'[u] = pc[u]
    BY <1>1, <1>3, Moving DEF MainLeave
  <2>2. UNCHANGED <<ring, slot, running, freed>> BY <1>3 DEF MainLeave
  <2>3. RingsOK' /\ HeldOK' BY <1>1, <1>2, <2>2 DEF RingsOK, HeldOK, ring
  <2>4. \A d \in Cams : Pushing(d)' = Pushing(d) BY <2>1 DEF Pushing
  <2>5. InStep' BY <1>2, <2>4, InStepLeft
  <2>6. Over' BY <2>1, <2>2 DEF IInv, Over
  <2> QED BY <1>2, <2>1, <2>2, <2>3, <2>4, <2>5, <2>6, PartsKept DEF IInv
<1>4. ASSUME NEW t \in Threads \ {MAIN}, MainStop(t)
      PROVE  /\ IInv' /\ UNCHANGED <<ring, slot, freed>>
             /\ \A d \in Cams : Pushing(d)' = Pushing(d)
  <2>1. UNCHANGED <<ring, pc, slot, freed>> BY <1>4 DEF MainStop
  <2>2. running' \in [Threads \ {MAIN} -> BOOLEAN]
    BY <1>1, <1>4 DEF MainStop, HeldOK
  <2>3. PlacesOK' /\ RingsOK' BY <1>1, <2>1 DEF PlacesOK, RingsOK, ring
  <2>4. HeldOK' BY <1>1, <1>2, <2>1, <2>2 DEF HeldOK
  <2>5. \A d \in Cams : Pushing(d)' = Pushing(d) BY <2>1 DEF Pushing
  <2>6. InStep' BY <1>2, <2>5, InStepLeft
  <2>7. Over' BY <2>1 DEF IInv, Over
  <2> QED BY <2>1, <2>3, <2>4, <2>5, <2>6, <2>7, PartsKept DEF IInv
<1>5. CASE MainJoin
  <2>1. /\ PlacesOK' /\ pc[MAIN] = "stop" /\ pc'[MAIN] = "free"
        /\ \A u \in Threads \ {MAIN} : pc'[u] = pc[u]
    BY <1>1, <1>5, Moving DEF MainJoin
  <2>2. /\ UNCHANGED <<ring, slot, running, freed>>
        /\ \A t \in Threads \ {MAIN} : pc[t] = "done"
    BY <1>5 DEF MainJoin
  <2>3. RingsOK' /\ HeldOK' BY <1>1, <1>2, <2>2 DEF RingsOK, HeldOK, ring
  <2>4. \A d \in Cams : Pushing(d)' = Pushing(d) BY <2>1 DEF Pushing
  <2>5. InStep' BY <1>2, <2>4, InStepLeft
  <2>6. Over' BY <2>1, <2>2 DEF IInv, Over
  <2> QED BY <1>2, <2>1, <2>2, <2>3, <2>4, <2>5, <2>6, PartsKept DEF IInv
<1>6. CASE MainFree
  <2>1. /\ PlacesOK' /\ pc[MAIN] = "free" /\ pc'[MAIN] = "done"
        /\ \A u \in Threads \ {MAIN} : pc'[u] = pc[u]
    BY <1>1, <1>6, Moving DEF MainFree
  <2>2. /\ UNCHANGED <<slot, running>> /\ freed' = TRUE
        /\ buf' = [d \in Cams |-> [k \in Slot |-> Empty]]
    BY <1>6 DEF MainFree, free_bufs
  <2>3. RingsOK' BY <1>1, <1>2, <2>2 DEF RingsOK, Content
  <2>4. freed' \in BOOLEAN BY <2>2, Zenon
  <2>5. HeldOK' BY <1>1, <1>2, <2>2, <2>4 DEF HeldOK
  <2>6. \A d \in Cams : Pushing(d)' = Pushing(d) BY <2>1 DEF Pushing
  <2>7. InStep' BY <1>2, <2>6, InStepLeft
  <2>8. /\ \A t \in Threads \ {MAIN} : pc[t] = "done"
        /\ ~ freed
    BY <2>1 DEF IInv, Over
  <2>9. Over' BY <2>1, <2>8 DEF Over
  <2>10. \A d \in Cams : ~ Pushing(d) BY <2>8 DEF Pushing
  <2> QED BY <1>2, <2>1, <2>2, <2>3, <2>5, <2>6, <2>7, <2>8, <2>9, <2>10,
             PartsKept DEF IInv
<1> QED BY <1>2, <1>3, <1>4, <1>5, <1>6 DEF MainWork

LEMMA Standing ==
  ASSUME IInv, UNCHANGED vars
  PROVE  IInv' /\ \A d \in Cams : Pushing(d)' = Pushing(d)
<1> USE DEF vars, ring
<1>1. TypeOK' BY DEF IInv, TypeOK
<1>2. \A d \in Cams : Pushing(d)' = Pushing(d) BY DEF Pushing
<1>3. InStep' BY <1>2, InStepLeft
<1>4. Over' BY DEF IInv, Over
<1> QED BY <1>1, <1>2, <1>3, <1>4 DEF IInv

LEMMA Preserved == IInv /\ [Next]_vars => IInv'
BY Idling, Reserving, Copying, Rounds, Taking, Ending, Standing
   DEF Next, Camera, Collect, Terminated
-----------------------------------------------------------------------------
(* Each ring is a FrameQueue.  First what waits in it, slot by slot.       *)
Place(c, n) == (head[c] + n - 1) % QueueSize

Seen(c, k) == IF Pushing(c) /\ k = slot[c] THEN seq[c] ELSE buf[c][k]

InRing(c) ==
  /\ head[c] \in Slot /\ tail[c] \in Slot /\ slot[c] \in Slot
  /\ count[c] \in 0 .. QueueSize
  /\ Waiting(c) = [n \in 1 .. count[c] |-> Seen(c, Place(c, n))]
  /\ Waiting(c) \in [1 .. count[c] -> Content]
  /\ \A n \in 1 .. QueueSize :
       /\ Place(c, n) \in Slot
       /\ Place(c, n) = IF head[c] + (n - 1) < QueueSize THEN head[c] + (n - 1)
                        ELSE head[c] + (n - 1) - QueueSize
  /\ \A k \in Slot : Seen(c, k) \in Content

LEMMA WaitingFrames == IInv => \A c \in Cams : InRing(c)
<1> SUFFICES ASSUME IInv, NEW c \in Cams PROVE InRing(c) OBVIOUS
<1>1. RingsOK /\ HeldOK BY Parts DEF IInv
<1>2. /\ head[c] \in Slot /\ tail[c] \in Slot /\ slot[c] \in Slot
      /\ count[c] \in 0 .. QueueSize
  BY <1>1 DEF RingsOK, HeldOK
<1>3. Waiting(c) = [n \in 1 .. count[c] |-> Seen(c, Place(c, n))]
  BY DEF Waiting, Seen, Place
<1>4. ASSUME NEW n \in 1 .. QueueSize
      PROVE  /\ Place(c, n) \in Slot
             /\ Place(c, n) = IF head[c] + (n - 1) < QueueSize
                              THEN head[c] + (n - 1)
                              ELSE head[c] + (n - 1) - QueueSize
  <2>1. n - 1 \in 0 .. QueueSize BY CPUQueueAssumption
  <2>2. head[c] + n - 1 = head[c] + (n - 1)
    BY <1>2, CPUQueueAssumption DEF Slot
  <2> QED BY <1>2, <2>1, <2>2, Round DEF Place
<1>5. ASSUME NEW k \in Slot PROVE Seen(c, k) \in Content
  <2>1. seq[c] \in Content BY <1>1 DEF HeldOK, Content
  <2>2. buf[c][k] \in Content BY <1>1 DEF RingsOK
  <2> QED BY <2>1, <2>2 DEF Seen
<1>6. Waiting(c) \in [1 .. count[c] -> Content]
  <2>1. \A n \in 1 .. count[c] : n \in 1 .. QueueSize
    BY <1>2, CPUQueueAssumption
  <2> QED BY <1>3, <1>4, <1>5, <2>1
<1> QED BY <1>2, <1>3, <1>4, <1>5, <1>6 DEF InRing

LEMMA WaitingNext == IInv' => (\A c \in Cams : InRing(c))'
BY WaitingFrames, PTL

(* The mapping for one camera, spelled out.                                *)
Mapped(c) == IF freed THEN << >> ELSE Waiting(c)

LEMMA QueueParts ==
  ASSUME NEW c \in Cams
  PROVE  /\ /\ Mapped(c)' = Mapped(c) /\ seq'[c] = seq[c]
            /\ Pushing(c)' = Pushing(c) /\ frames'[c] = frames[c]
            /\ freed' = freed
            => UNCHANGED Queue(c)!fq
         /\ Queue(c)!Push <=>
              /\ ~ freed /\ ~ Pushing(c)
              /\ seq'[c] = NextFrame(seq[c])
              /\ Mapped(c)' = Append(IF Len(Mapped(c)) = QueueSize
                                     THEN Tail(Mapped(c)) ELSE Mapped(c), seq'[c])
              /\ Pushing(c)' = TRUE
              /\ frames'[c] = frames[c] /\ freed' = freed
         /\ Queue(c)!Pushed <=>
              /\ Pushing(c)
              /\ Pushing(c)' = FALSE
              /\ Mapped(c)' = Mapped(c)
              /\ seq'[c] = seq[c]
              /\ frames'[c] = frames[c] /\ freed' = freed
         /\ Queue(c)!Take <=>
              /\ ~ freed /\ Mapped(c) # << >>
              /\ \/ frames'[c] = Head(Mapped(c))
                 \/ Pushing(c) /\ Len(Mapped(c)) = 1 /\ frames'[c] \in Content
              /\ Mapped(c)' = Tail(Mapped(c))
              /\ seq'[c] = seq[c]
              /\ Pushing(c)' = Pushing(c) /\ freed' = freed
         /\ Queue(c)!Close <=>
              /\ ~ freed /\ ~ Pushing(c)
              /\ freed' = TRUE
              /\ Mapped(c)' = << >>
              /\ seq'[c] = seq[c]
              /\ Pushing(c)' = Pushing(c)
              /\ frames'[c] = frames[c]
BY DEF Queue!fq, Queue!Push, Queue!Pushed, Queue!Take, Queue!Close, Mapped

(* A camera none of whose state changes.                                   *)
Untouched(c) ==
  /\ head'[c] = head[c] /\ count'[c] = count[c] /\ buf'[c] = buf[c]
  /\ slot'[c] = slot[c] /\ seq'[c] = seq[c] /\ Pushing(c)' = Pushing(c)
  /\ frames'[c] = frames[c] /\ freed' = freed

LEMMA Stuttering ==
  ASSUME NEW c \in Cams, Untouched(c)
  PROVE  UNCHANGED Queue(c)!fq
<1>1. Waiting(c)' = Waiting(c) BY DEF Untouched, Waiting
<1> QED BY <1>1, QueueParts DEF Untouched, Mapped

(* A push that takes a slot appends its frame, after the oldest is dropped *)
(* from a full ring; the slots of the frames that stay are others.         *)
LEMMA PushSteps ==
  ASSUME IInv, NEW c \in Cams, CamReserve(c)
  PROVE  Queue(c)!Push
<1> DEFINE W == Waiting(c)
<1>1. /\ IInv' /\ ~ Pushing(c) /\ Pushing(c)' = TRUE BY Reserving, Zenon
<1>2. ~ freed /\ ~ freed' /\ freed' = freed
  <2>1. pc[c] # "done" /\ c \in Threads \ {MAIN} /\ freed' = freed
    BY ThreadFacts DEF CamReserve, Move
  <2> QED BY <2>1, Early
<1>3. /\ seq'[c] = NextFrame(seq[c]) /\ slot'[c] = tail[c]
      /\ frames'[c] = frames[c] /\ buf' = buf
      /\ IF count[c] >= QueueSize
         THEN head'[c] = NextSlot(head[c]) /\ count'[c] = count[c]
         ELSE head'[c] = head[c] /\ count'[c] = count[c] + 1
  <2>1. RingsOK /\ HeldOK BY Parts DEF IInv
  <2> QED BY <2>1 DEF CamReserve, Reserve, RingsOK, HeldOK
<1>4. InRing(c) /\ InRing(c)' BY <1>1, WaitingFrames, WaitingNext
<1>10. /\ QueueSize \in Nat \ {0}
       /\ head[c] \in 0 .. QueueSize - 1 /\ head'[c] \in 0 .. QueueSize - 1
       /\ tail[c] \in 0 .. QueueSize - 1 /\ count[c] \in 0 .. QueueSize
  BY <1>4, CPUQueueAssumption DEF InRing, Slot
<1>11. \A n \in 1 .. QueueSize :
         Place(c, n) = IF head[c] + (n - 1) < QueueSize THEN head[c] + (n - 1)
                       ELSE head[c] + (n - 1) - QueueSize
  BY <1>4 DEF InRing
<1>5. tail[c] = IF head[c] + count[c] < QueueSize THEN head[c] + count[c]
                ELSE head[c] + count[c] - QueueSize
  BY <1>4, Round DEF IInv, InStep, InRing
<1>6. /\ \A n \in 1 .. count[c] : W[n] = buf[c][Place(c, n)]
      /\ \A n \in 1 .. count'[c] :
           Waiting(c)'[n] = IF Place(c, n)' = tail[c] THEN seq'[c]
                            ELSE buf[c][Place(c, n)']
  BY <1>1, <1>3, <1>4 DEF InRing, Seen
<1>7. /\ W \in [1 .. count[c] -> Content] /\ count[c] \in 0 .. QueueSize
      /\ Waiting(c)' \in [1 .. count'[c] -> Content]
      /\ seq'[c] \in Content
  <2>1. seq'[c] \in FrameNo BY <1>1, Parts DEF IInv, TypeOK
  <2> QED BY <1>4, <2>1 DEF InRing, Content
<1>8. Waiting(c)' = Append(IF count[c] = QueueSize THEN Tail(W) ELSE W, seq'[c])
  <2>1. CASE count[c] = QueueSize
    <3>1. head'[c] = NextSlot(head[c]) /\ count'[c] = QueueSize
          /\ tail[c] = head[c]
      BY <1>3, <1>4, <1>5, <2>1, CPUQueueAssumption DEF InRing, Slot
    <3>2. head'[c] = IF head[c] + 1 = QueueSize THEN 0 ELSE head[c] + 1
      BY <1>4, <3>1, Following DEF InRing
    <3>3. \A n \in 1 .. QueueSize :
            Place(c, n)' = IF head'[c] + (n - 1) < QueueSize
                           THEN head'[c] + (n - 1)
                           ELSE head'[c] + (n - 1) - QueueSize
      BY <1>4 DEF InRing
    <3>4. ASSUME NEW n \in 1 .. QueueSize - 1
          PROVE  Waiting(c)'[n] = W[n + 1]
      <4>1. n \in 1 .. QueueSize /\ n + 1 \in 1 .. QueueSize BY <1>10
      <4>2. Place(c, n)' = IF head'[c] + (n - 1) < QueueSize
                           THEN head'[c] + (n - 1)
                           ELSE head'[c] + (n - 1) - QueueSize
        BY <3>3, <4>1
      <4>3. Place(c, n + 1) = IF head[c] + n < QueueSize THEN head[c] + n
                              ELSE head[c] + n - QueueSize
        <5>1. n + 1 - 1 = n BY <4>1, <1>10
        <5> QED BY <1>11, <4>1, <5>1
      <4>4. Place(c, n)' = Place(c, n + 1) /\ Place(c, n)' # tail[c]
        BY <1>10, <3>1, <3>2, <4>1, <4>2, <4>3
      <4>5. W[n + 1] = buf[c][Place(c, n + 1)] BY <1>6, <2>1, <4>1
      <4>6. Waiting(c)'[n] = buf[c][Place(c, n)'] BY <1>6, <3>1, <4>1, <4>4
      <4> QED BY <4>4, <4>5, <4>6
    <3>5. Waiting(c)'[QueueSize] = seq'[c]
      <4>1. Place(c, QueueSize)' = tail[c] BY <1>10, <3>1, <3>2, <3>3
      <4> QED BY <1>6, <3>1, <4>1, CPUQueueAssumption
    <3> DEFINE T == [n \in 1 .. QueueSize - 1 |-> W[n + 1]]
    <3>6. T \in [1 .. QueueSize - 1 -> Content] /\ QueueSize \in Nat \ {0}
      BY <1>7, <2>1, CPUQueueAssumption
    <3>7. T = Tail(W)
      <4>1. W \in [1 .. QueueSize -> Content] BY <1>7, <2>1
      <4>2. \A n \in 1 .. QueueSize - 1 : T[n] = W[n + 1] OBVIOUS
      <4> HIDE DEF T, W
      <4> QED BY <3>6, <4>1, <4>2, AsTail
    <3>8. \A n \in 1 .. QueueSize - 1 : Waiting(c)'[n] = T[n] BY <3>4
    <3> HIDE DEF T
    <3>9. Waiting(c)' = Append(T, seq'[c])
      <4>1. QueueSize - 1 \in Nat /\ QueueSize - 1 + 1 = QueueSize BY <3>6
      <4> QED BY <1>7, <3>1, <3>5, <3>6, <3>8, <4>1, AsAppend
    <3> QED BY <2>1, <3>7, <3>9
  <2>2. CASE count[c] # QueueSize
    <3>1. head'[c] = head[c] /\ count'[c] = count[c] + 1 /\ count[c] \in Nat
          /\ count[c] < QueueSize
      BY <1>3, <1>7, <2>2, CPUQueueAssumption
    <3>2. \A n \in 1 .. QueueSize : Place(c, n)' = Place(c, n)
      BY <3>1 DEF Place
    <3>3. ASSUME NEW n \in 1 .. count[c] PROVE Waiting(c)'[n] = W[n]
      <4>1. n \in 1 .. QueueSize BY <1>10, <3>1
      <4>2. Place(c, n)' = Place(c, n) /\ Place(c, n) # tail[c]
        BY <1>5, <1>10, <1>11, <3>1, <3>2, <4>1
      <4>3. n \in 1 .. count'[c] BY <3>1
      <4>4. W[n] = buf[c][Place(c, n)] BY <1>6
      <4>5. Waiting(c)'[n] = buf[c][Place(c, n)'] BY <1>6, <4>2, <4>3
      <4> QED BY <4>2, <4>4, <4>5
    <3>4. Waiting(c)'[count[c] + 1] = seq'[c]
      <4>1. PICK m \in 1 .. QueueSize : m = count[c] + 1
        BY <3>1, CPUQueueAssumption
      <4>2. m - 1 = count[c] /\ m \in 1 .. count'[c] BY <3>1, <4>1
      <4>3. Place(c, m) = tail[c] BY <1>5, <1>11, <4>2
      <4>4. Place(c, m)' = tail[c] BY <3>2, <4>3
      <4>5. Waiting(c)'[m] = seq'[c] BY <1>6, <4>2, <4>4
      <4> QED BY <4>1, <4>5
    <3> HIDE DEF W
    <3>5. Waiting(c)' = Append(W, seq'[c])
      BY <1>7, <3>1, <3>3, <3>4, AsAppend
    <3> QED BY <2>2, <3>5
  <2> QED BY <2>1, <2>2
<1>9. Len(W) = count[c] BY <1>7, AsSequence, CPUQueueAssumption
<1> QED BY <1>1, <1>2, <1>3, <1>8, <1>9, QueueParts DEF Mapped

(* Writing the slot does not change what waits: it was as good as written. *)
LEMMA CopySteps ==
  ASSUME IInv, NEW c \in Cams, CamBeginCopy(c) \/ CamEndCopy(c)
  PROVE  Queue(c)!Pushed \/ UNCHANGED Queue(c)!fq
<1>1. /\ IInv' /\ Pushing(c) /\ pc[c] \in {"reserved", "copying"}
  BY Copying
<1>2. RingsOK /\ HeldOK /\ PlacesOK BY Parts DEF IInv
<1>3. /\ head' = head /\ count' = count
      /\ UNCHANGED <<seq, slot, frames, freed>>
  BY DEF CamBeginCopy, CamEndCopy, BeginCopy, EndCopy
<1>4. /\ \A k \in Slot : Seen(c, k)' = Seen(c, k)
      /\ \/ Pushing(c)' = FALSE
         \/ Pushing(c)' = TRUE
  <2>1. CASE CamBeginCopy(c)
    <3>1. pc'[c] = "copying" BY <1>2, <2>1, ThreadFacts DEF CamBeginCopy, Move, PlacesOK
    <3>2. \A k \in Slot : k # slot[c] => buf'[c][k] = buf[c][k]
      BY <1>2, <2>1 DEF CamBeginCopy, BeginCopy, RingsOK
    <3> QED BY <1>1, <1>3, <3>1, <3>2 DEF Seen, Pushing
  <2>2. CASE CamEndCopy(c)
    <3>1. pc'[c] = "loop" BY <1>2, <2>2, ThreadFacts DEF CamEndCopy, Move, PlacesOK
    <3>2. \A k \in Slot : buf'[c][k] = IF k = slot[c] THEN seq[c] ELSE buf[c][k]
      BY <1>2, <2>2 DEF CamEndCopy, EndCopy, RingsOK, HeldOK
    <3> QED BY <1>1, <1>3, <3>1, <3>2 DEF Seen, Pushing
  <2> QED BY <2>1, <2>2
<1>5. Waiting(c)' = Waiting(c)
  <2>1. InRing(c) /\ InRing(c)' BY <1>1, WaitingFrames, WaitingNext
  <2>2. \A n \in 1 .. count[c] : Place(c, n)' = Place(c, n) /\ Place(c, n) \in Slot
    BY <1>3, <2>1, CPUQueueAssumption DEF Place, InRing
  <2>3. Waiting(c)' \in [1 .. count[c] -> Content] BY <1>3, <2>1 DEF InRing
  <2>4. \A n \in 1 .. count[c] : Waiting(c)'[n] = Seen(c, Place(c, n))'
    BY <1>3, <2>1 DEF InRing
  <2>5. \A n \in 1 .. count[c] : Waiting(c)[n] = Seen(c, Place(c, n))
    BY <2>1 DEF InRing
  <2>6. ASSUME NEW n \in 1 .. count[c] PROVE Waiting(c)'[n] = Waiting(c)[n]
    <3>1. PICK k \in Slot : k = Place(c, n) BY <2>2
    <3>2. Seen(c, k)' = Seen(c, k) BY <1>4
    <3>3. Place(c, n)' = k BY <2>2, <3>1
    <3> QED BY <2>4, <2>5, <3>1, <3>2, <3>3
  <2> QED BY <2>1, <2>3, <2>6 DEF InRing
<1>6. Mapped(c)' = Mapped(c) BY <1>3, <1>5 DEF Mapped
<1>7. CASE Pushing(c)' = FALSE BY <1>1, <1>3, <1>6, <1>7, QueueParts
<1>8. CASE Pushing(c)' = TRUE
  <2>1. Pushing(c)' = Pushing(c) BY <1>1, <1>8
  <2> QED BY <1>3, <1>6, <2>1, QueueParts
<1> QED BY <1>4, <1>7, <1>8

(* A take returns the oldest frame waiting.  Should the push of that frame *)
(* be under way, it is the only one waiting.                               *)
LEMMA TakeSteps ==
  ASSUME IInv, CollectTake, NEW c \in Cams, c = cam
  PROVE  Queue(c)!Take
<1>1. /\ IInv' /\ pc[STITCH] \in {"collect", "wait"}
      /\ \A d \in Cams : Pushing(d)' = Pushing(d)
  BY Taking
<1>2. RingsOK /\ HeldOK BY Parts DEF IInv
<1>4. ~ freed /\ freed' = freed
  BY <1>1, ThreadFacts, Early DEF CollectTake
<1>5. /\ head'[c] = NextSlot(head[c]) /\ count'[c] = count[c] - 1
      /\ count[c] > 0 /\ frames'[c] = buf[c][head[c]]
      /\ buf' = buf /\ slot' = slot /\ seq' = seq
  BY <1>2 DEF CollectTake, TakeHead, HasFrame, HeadFrame, RingsOK, HeldOK
<1>6. InRing(c) /\ InRing(c)' BY <1>1, WaitingFrames, WaitingNext
<1>7. /\ QueueSize \in Nat \ {0}
      /\ head[c] \in 0 .. QueueSize - 1 /\ head'[c] \in 0 .. QueueSize - 1
      /\ tail[c] \in 0 .. QueueSize - 1 /\ slot[c] \in 0 .. QueueSize - 1
      /\ count[c] \in 1 .. QueueSize
      /\ head'[c] = IF head[c] + 1 = QueueSize THEN 0 ELSE head[c] + 1
  <2>1. /\ head[c] \in Slot /\ tail[c] \in Slot /\ slot[c] \in Slot
        /\ count[c] \in 0 .. QueueSize
    BY <1>6 DEF InRing
  <2>2. /\ NextSlot(head[c]) \in Slot
        /\ NextSlot(head[c]) = IF head[c] + 1 = QueueSize THEN 0
                               ELSE head[c] + 1
    BY <2>1, Following
  <2> QED BY <1>5, <2>1, <2>2, CPUQueueAssumption DEF Slot
<1>8. /\ \A n \in 1 .. QueueSize :
           Place(c, n) = IF head[c] + (n - 1) < QueueSize THEN head[c] + (n - 1)
                         ELSE head[c] + (n - 1) - QueueSize
      /\ \A n \in 1 .. QueueSize :
           Place(c, n)' = IF head'[c] + (n - 1) < QueueSize
                          THEN head'[c] + (n - 1)
                          ELSE head'[c] + (n - 1) - QueueSize
      /\ \A n \in 1 .. QueueSize : Place(c, n) \in Slot
  BY <1>6 DEF InRing
<1>9. \A k \in Slot : Seen(c, k)' = Seen(c, k) BY <1>1, <1>5 DEF Seen
<1>10. /\ Waiting(c) \in [1 .. count[c] -> Content]
       /\ Waiting(c)' \in [1 .. count[c] - 1 -> Content]
       /\ \A n \in 1 .. count[c] : Waiting(c)[n] = Seen(c, Place(c, n))
       /\ \A n \in 1 .. count[c] - 1 : Waiting(c)'[n] = Seen(c, Place(c, n))'
  BY <1>5, <1>6 DEF InRing
<1>11. ASSUME NEW n \in 1 .. count[c] - 1
       PROVE  Waiting(c)'[n] = Waiting(c)[n + 1]
  <2>1. PICK m \in 1 .. count[c] : m = n + 1 BY <1>7
  <2>2. n \in 1 .. QueueSize /\ m \in 1 .. QueueSize /\ m - 1 = n
    BY <1>7, <2>1
  <2>3. Place(c, n)' = Place(c, m)
    <3>1. Place(c, m) = IF head[c] + n < QueueSize THEN head[c] + n
                        ELSE head[c] + n - QueueSize
      BY <1>8, <2>2
    <3>2. Place(c, n)' = IF head'[c] + (n - 1) < QueueSize
                         THEN head'[c] + (n - 1)
                         ELSE head'[c] + (n - 1) - QueueSize
      BY <1>8, <2>2
    <3> QED BY <1>7, <2>2, <3>1, <3>2
  <2>4. PICK k \in Slot : k = Place(c, m) BY <1>8, <2>2
  <2>5. Seen(c, k)' = Seen(c, k) BY <1>9
  <2> QED BY <1>10, <2>1, <2>3, <2>4, <2>5
<1>12. Waiting(c)' = Tail(Waiting(c)) /\ Head(Waiting(c)) = Waiting(c)[1]
  BY <1>7, <1>10, <1>11, AsTail
<1>13. Len(Waiting(c)) = count[c] /\ Waiting(c) # << >>
  BY <1>7, <1>10, AsSequence
<1>14. Waiting(c)[1] = Seen(c, head[c])
  <2>1. Place(c, 1) = head[c]
    <3>1. 1 - 1 = 0 /\ 1 \in 1 .. QueueSize BY <1>7
    <3>2. Place(c, 1) = IF head[c] + 0 < QueueSize THEN head[c] + 0
                        ELSE head[c] + 0 - QueueSize
      BY <1>8, <3>1
    <3> QED BY <1>7, <3>2
  <2> QED BY <1>7, <1>10, <2>1
<1>15. \/ frames'[c] = Head(Waiting(c))
       \/ Pushing(c) /\ Len(Waiting(c)) = 1 /\ frames'[c] \in Content
  <2>1. CASE Pushing(c) /\ head[c] = slot[c]
    <3>1. tail[c] = NextSlot(head[c]) BY <2>1 DEF IInv, InStep
    <3>2. tail[c] = head'[c] BY <1>5, <3>1
    <3>3. tail[c] = IF head[c] + count[c] < QueueSize THEN head[c] + count[c]
                    ELSE head[c] + count[c] - QueueSize
      BY <1>6, <1>7, Round DEF IInv, InStep, InRing
    <3>4. count[c] = 1 BY <1>7, <3>2, <3>3
    <3>5. frames'[c] \in Content BY <1>2, <1>5, <1>6 DEF RingsOK, InRing
    <3> QED BY <1>13, <2>1, <3>4, <3>5
  <2>2. CASE ~ (Pushing(c) /\ head[c] = slot[c])
    BY <1>5, <1>12, <1>14, <2>2 DEF Seen
  <2> QED BY <2>1, <2>2
<1>16. Mapped(c) = Waiting(c) /\ Mapped(c)' = Waiting(c)'
  BY <1>4 DEF Mapped
<1> QED BY <1>1, <1>4, <1>5, <1>12, <1>13, <1>15, <1>16, QueueParts

(* Cameras other than the one a step is about.                             *)
LEMMA OthersUntouched ==
  ASSUME IInv, NEW c \in Cams, Camera(c), NEW d \in Cams, d # c
  PROVE  Untouched(d)
<1>1. RingsOK /\ HeldOK BY Parts DEF IInv
<1>2. CASE CamInit(c) \/ CamCheck(c) \/ CamNothing(c) \/ CamPollFail(c)
  BY <1>2, Idling DEF Untouched, ring
<1>3. CASE CamReserve(c)
  BY <1>1, <1>3, Reserving DEF Untouched, CamReserve, Reserve, RingsOK, HeldOK
<1>4. CASE CamBeginCopy(c)
  BY <1>1, <1>4, Copying DEF Untouched, CamBeginCopy, BeginCopy, RingsOK
<1>5. CASE CamEndCopy(c)
  BY <1>1, <1>5, Copying DEF Untouched, CamEndCopy, EndCopy, RingsOK
<1> QED BY <1>2, <1>3, <1>4, <1>5 DEF Camera

LEMMA StepsOfQueue ==
  ASSUME IInv, [Next]_vars, NEW d \in Cams
  PROVE  [Queue(d)!Next]_(Queue(d)!fq)
<1>1. ASSUME NEW c \in Cams, Camera(c)
      PROVE  Queue(d)!Push \/ Queue(d)!Pushed \/ UNCHANGED Queue(d)!fq
  <2>1. CASE d # c BY <1>1, <2>1, OthersUntouched, Stuttering
  <2>2. CASE d = c /\ CamReserve(c) BY <2>2, PushSteps
  <2>3. CASE d = c /\ (CamBeginCopy(c) \/ CamEndCopy(c)) BY <2>3, CopySteps
  <2>4. CASE CamInit(c) \/ CamCheck(c) \/ CamNothing(c) \/ CamPollFail(c)
    <3>1. Untouched(d) BY <2>4, Idling DEF Untouched, ring
    <3> QED BY <3>1, Stuttering
  <2> QED BY <1>1, <2>1, <2>2, <2>3, <2>4 DEF Camera
<1>2. ASSUME CollectTake
      PROVE  Queue(d)!Take \/ UNCHANGED Queue(d)!fq
  <2>1. CASE d = cam BY <1>2, <2>1, TakeSteps
  <2>2. CASE d # cam
    <3>1. RingsOK /\ HeldOK BY Parts DEF IInv
    <3>2. Untouched(d)
      BY <1>2, <2>2, <3>1, Taking
         DEF Untouched, CollectTake, TakeHead, RingsOK, HeldOK
    <3> QED BY <3>2, Stuttering
  <2> QED BY <2>1, <2>2
<1>3. ASSUME CollectStart \/ CollectWait \/ CollectGiveUp \/ Stitch
      PROVE  UNCHANGED Queue(d)!fq
  <2>1. Untouched(d) BY <1>3, Rounds DEF Untouched, ring
  <2> QED BY <2>1, Stuttering
<1>4. ASSUME MainLeave \/ MainWork
      PROVE  Queue(d)!Close \/ UNCHANGED Queue(d)!fq
  <2>1. /\ Pushing(d)' = Pushing(d)
        /\ UNCHANGED <<seq, frames>>
        /\ \/ UNCHANGED <<ring, slot, freed>>
           \/ ~ freed /\ freed' = TRUE /\ ~ Pushing(d)
    BY <1>4, Ending
  <2>2. CASE UNCHANGED <<ring, slot, freed>>
    <3>1. Untouched(d) BY <2>1, <2>2 DEF Untouched, ring
    <3> QED BY <3>1, Stuttering
  <2>3. CASE ~ freed /\ freed' = TRUE /\ ~ Pushing(d)
    <3>1. Mapped(d)' = << >> BY <2>3 DEF Mapped
    <3> QED BY <2>1, <2>3, <3>1, QueueParts
  <2> QED BY <2>1, <2>2, <2>3
<1>5. ASSUME UNCHANGED vars PROVE UNCHANGED Queue(d)!fq
  <2>1. Untouched(d) BY <1>5, Standing DEF Untouched, vars, ring
  <2> QED BY <2>1, Stuttering
<1>6. Queue(d)!Push \/ Queue(d)!Pushed \/ Queue(d)!Take \/ Queue(d)!Close
      => Queue(d)!Next
  BY DEF Queue!Next
<1> QED
  BY <1>1, <1>2, <1>3, <1>4, <1>5, <1>6 DEF Next, Collect, Terminated
-----------------------------------------------------------------------------
(* The inductive invariant behind the theorems.                            *)
THEOREM CaptureInvariance == Spec => []IInv
BY Starts, Preserved, PTL DEF Spec

(* Ring indices and counts stay in their ranges, threads at their places.  *)
THEOREM CaptureTypeCorrect == Spec => []TypeOK
<1>1. IInv => TypeOK BY DEF IInv
<1> QED BY <1>1, CaptureInvariance, PTL

(* CPUQueue::free_bufs runs only when no capture thread and no stitch      *)
(* thread is left (main.cpp:135-153).                                      *)
THEOREM FreedLast == Spec => []NothingAfterFree
<1>1. IInv => NothingAfterFree
  <2> SUFFICES ASSUME IInv, freed, NEW t \in Threads PROVE pc[t] = "done"
    BY DEF NothingAfterFree
  <2> QED BY DEF IInv, Over
<1> QED BY <1>1, CaptureInvariance, PTL

(* Every ring of cpu_queue.cpp, with its drops, wrap-arounds and copies    *)
(* outside the lock, is a queue of the newest frames in order: a frame     *)
(* leaves it only when it is taken, when a push on a full ring drops it,   *)
(* and, once and after the last push and take, in free_bufs.               *)
THEOREM RingsAreQueues == Spec => ImplementsQueues
<1>1. Init => \A c \in Cams : Queue(c)!Init
  <2> SUFFICES ASSUME Init, NEW c \in Cams PROVE Queue(c)!Init OBVIOUS
  <2>1. IInv BY Starts
  <2>2. InRing(c) BY <2>1, WaitingFrames
  <2>3. count[c] = 0 BY DEF Init, InitRings
  <2>4. Waiting(c) = << >> BY <2>2, <2>3 DEF InRing
  <2>5. pc[c] = "init" BY ThreadFacts DEF Init
  <2>6. Pushing(c) = FALSE BY <2>5 DEF Pushing
  <2>7. seq[c] \in FrameNo /\ frames[c] \in Content BY <2>1 DEF IInv, TypeOK
  <2>8. freed = FALSE BY DEF Init
  <2> QED BY <2>4, <2>6, <2>7, <2>8 DEF Queue!Init
<1>2. IInv /\ [Next]_vars =>
        [\A c \in Cams : [Queue(c)!Next]_(Queue(c)!fq)]_vars
  BY StepsOfQueue
<1> QED BY <1>1, <1>2, CaptureInvariance, PTL DEF Spec, ImplementsQueues
=============================================================================
