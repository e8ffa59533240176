--------------------------- MODULE PipelineProofs ---------------------------
(***************************************************************************)
(* Proofs about Pipeline, for every number of buffers, workers, panoramas  *)
(* and every set of calls that may fail.  IInv is the inductive invariant; *)
(* from it follow the invariants of the runs and that the pipeline         *)
(* implements PictureFeed.                                                 *)
(***************************************************************************)
EXTENDS Pipeline, TLAPS

(* The stitch thread has a panorama that has no id yet.                    *)
Busy == pc[STITCH] \in {"claim", "resize", "fill", "giveback"}

(* Buffer i holds a panorama that was given an id.                         *)
Live(i) == meta[i].frame_id # -1

(* Main gets past the joins only after every other thread has ended.       *)
Joined ==
  /\ pc[MAIN] \in {"destroy", "done"} =>
       \A t \in Threads \ {MAIN} : pc[t] = "done"
  /\ destroyed => pc[MAIN] = "done"

(* A buffer keeps its id from mark_filled to mark_free, whoever has it in  *)
(* between; the stitch thread's buffer has none.                           *)
IdKept ==
  /\ \A i \in Buf : InState(i, "FREE") => ~ Live(i)
  /\ \A i \in Buf : InState(i, "FILLED") \/ InState(i, "READY") => Live(i)
  /\ idx[STITCH] # NoBuf => ~ Live(idx[STITCH])
  /\ \A t \in Threads \ {STITCH} : idx[t] # NoBuf => Live(idx[t])

(* Ids and panoramas given out so far are behind the counters, strictly so *)
(* for panoramas while the stitch thread has one that is not in the queue. *)
Past(n) == n <= pano /\ (Busy => n < pano)

Counted ==
  /\ Past(frame_id)
  /\ last_frame_id <= frame_id
  /\ Past(shown.pano)
  /\ \A i \in Buf : Live(i) => /\ meta[i].frame_id <= frame_id
                               /\ Past(image[i].pano)

(* Ids tell panoramas apart and order them, also against the one shown.    *)
Ordered ==
  /\ \A i, j \in Buf : /\ Live(i)
                       /\ Live(j)
                       /\ i # j
                       => meta[i].frame_id # meta[j].frame_id
  /\ \A i, j \in Buf : /\ Live(i)
                       /\ Live(j)
                       /\ meta[i].frame_id < meta[j].frame_id
                       => image[i].pano < image[j].pano
  /\ \A i \in Buf : /\ Live(i)
                    /\ meta[i].frame_id > last_frame_id
                    => image[i].pano > shown.pano

(* The pixels at each stage.                                               *)
Pixels ==
  /\ pc[STITCH] = "fill" => image[idx[STITCH]].pano = pano
  /\ \A w \in Workers : pc[w] = "draw" => det[w] = image[idx[w]].pano
  /\ \A w \in Workers : pc[w] = "ready" =>
       image[idx[w]].boxes = image[idx[w]].pano
  /\ \A i \in Buf : InState(i, "READY") \/ idx[MAIN] = i =>
       image[i].boxes = image[i].pano

IInv == TypeOK /\ Ownership /\ Joined /\ IdKept /\ Counted /\ Ordered /\ Pixels
-----------------------------------------------------------------------------
(* The shape of the variables, without the ranges the type invariant gives *)
(* them: what the other parts of the proof need of it.                     *)
Shape ==
  /\ meta \in [Buf -> [frame_id : Int, state : BufState]]
  /\ pc \in [Threads -> StitchPcs \cup WorkerPcs \cup MainPcs]
  /\ idx \in [Threads -> Buf \cup {NoBuf}]
  /\ image \in [Buf -> [pano : Int, boxes : Int]]
  /\ det \in [Workers -> Int]
  /\ pano \in Int /\ frame_id \in Int /\ last_frame_id \in Int
  /\ shown \in [pano : Int, boxes : Int]

(* The type invariant gives what the claims and copies need: domains.      *)
LEMMA Shaped == TypeOK => Shape
<1> SUFFICES ASSUME TypeOK PROVE Shape
  OBVIOUS
<1>1. Picture \subseteq [pano : Int, boxes : Int]
  BY MaxPanosAssumption DEF Picture
<1> QED
  BY <1>1, MaxPanosAssumption DEF TypeOK, Shape

(* Main, the stitch thread and the workers are different threads.          *)
LEMMA ThreadFacts ==
  /\ STITCH \in Threads /\ MAIN \in Threads /\ Workers \subseteq Threads
  /\ STITCH # MAIN /\ STITCH \notin Workers /\ MAIN \notin Workers
  /\ Threads = Workers \cup {STITCH, MAIN}
  BY ThreadAssumption DEF Threads

(* The index that stands for no buffer is not one of the pool's.           *)
LEMMA BufFacts == NoBuf \notin Buf /\ Buf \subseteq Int
  BY BufNumAssumption DEF Buf, NoBuf

(* A thread between its claim_* and its mark_* has a buffer of the pool,   *)
(* and unless it is the stitch thread that buffer has an id.               *)
LEMMA Holder ==
  ASSUME IInv, NEW t \in Threads, pc[t] \in HoldingPcs
  PROVE  idx[t] \in Buf /\ (t # STITCH => Live(idx[t]))
  BY Shaped DEF IInv, Shape, Ownership, IdKept

(* The mark_* operations, for an index of the pool.                        *)
LEMMA Marking ==
  ASSUME NEW i \in Buf, NEW id
  PROVE  /\ mark_filled(i, id) <=> Set(i, id, "FILLED")
         /\ mark_ready(i) <=> Set(i, meta[i].frame_id, "READY")
         /\ mark_free(i) <=> Set(i, -1, "FREE")
  BY DEF mark_filled, mark_ready, mark_free, SetState

(* Ranges and types of what a buffer holds, from the type invariant.       *)
LEMMA TypedImage ==
  ASSUME IInv, NEW i \in Buf
  PROVE  image[i] \in Picture /\ shown \in Picture
  BY DEF IInv, TypeOK

(* The frame ids of two buffers are numbers, and can be compared.          *)
LEMMA TypedId ==
  ASSUME IInv, NEW i \in Buf
  PROVE  /\ meta[i].frame_id \in {-1} \cup 1 .. MaxPanos
         /\ last_frame_id \in {-1} \cup 1 .. MaxPanos
  BY DEF IInv, TypeOK

(* The counters are numbers.                                               *)
LEMMA Numbers ==
  ASSUME IInv, NEW i \in Buf
  PROVE  /\ image[i].pano \in Int /\ shown.pano \in Int /\ pano \in Int
         /\ meta[i].frame_id \in Int /\ last_frame_id \in Int
         /\ frame_id \in Int
  BY Shaped DEF IInv, Shape

(* A larger id means a newer panorama: between two buffers,                *)
LEMMA OlderThan ==
  ASSUME IInv, NEW i \in Buf, NEW j \in Buf, Live(i), Live(j),
         meta[i].frame_id < meta[j].frame_id
  PROVE  image[i].pano < image[j].pano
  BY DEF IInv, Ordered

(* and against what is on display.                                         *)
LEMMA NewerThanShown ==
  ASSUME IInv, NEW i \in Buf, Live(i), meta[i].frame_id > last_frame_id
  PROVE  image[i].pano > shown.pano
  BY DEF IInv, Ordered

(* What the display step does: it holds a buffer m with an id, and either  *)
(* leaves everything shown alone or moves on to m's id, which is newer,    *)
(* with m's pixels if the copy succeeds.                                   *)
LEMMA Showing ==
  ASSUME IInv, MainShow
  PROVE  LET m == idx[MAIN] IN
         /\ m \in Buf /\ Live(m)
         /\ UNCHANGED <<meta, image, pano, frame_id>>
         /\ \/ UNCHANGED <<last_frame_id, shown>>
            \/ /\ meta[m].frame_id > last_frame_id
               /\ last_frame_id' = meta[m].frame_id
               /\ shown' = shown \/ shown' = image[m]
<1>1. pc[MAIN] \in HoldingPcs
  BY DEF MainShow, Move, HoldingPcs
<1> QED
  BY <1>1, Holder, ThreadFacts DEF MainShow

(* Showing keeps the types of the picture and of its id.                   *)
LEMMA ShowTyped ==
  ASSUME IInv, MainShow
  PROVE  last_frame_id' \in {-1} \cup 1 .. MaxPanos /\ shown' \in Picture
<1>1. CASE UNCHANGED <<last_frame_id, shown>>
  BY <1>1 DEF IInv, TypeOK
<1>2. CASE last_frame_id' = meta[idx[MAIN]].frame_id
           /\ (shown' = shown \/ shown' = image[idx[MAIN]])
  BY <1>2, Showing, TypedImage, TypedId
<1> QED
  BY <1>1, <1>2, Showing

(* Showing keeps every id above the last one a newer panorama.             *)
LEMMA ShowOrdered ==
  ASSUME IInv, MainShow
  PROVE  Ordered'
<1> DEFINE m == idx[MAIN]
<1>1. m \in Buf /\ Live(m) /\ UNCHANGED <<meta, image>>
  BY Showing
<1>2. CASE UNCHANGED <<last_frame_id, shown>>
  BY <1>1, <1>2 DEF IInv, Ordered, Live
<1>3. ASSUME /\ meta[m].frame_id > last_frame_id
             /\ last_frame_id' = meta[m].frame_id
             /\ shown' = shown \/ shown' = image[m]
      PROVE  Ordered'
  <2>1. ASSUME NEW i \in Buf, Live(i)', (meta[i].frame_id > last_frame_id)'
        PROVE  (image[i].pano > shown.pano)'
    <3>1. Live(i) /\ meta[i].frame_id > meta[m].frame_id
      BY <1>1, <1>3, <2>1 DEF Live
    <3>2. image[i].pano > image[m].pano
      BY <1>1, <3>1, OlderThan, Numbers
    <3>3. image[m].pano > shown.pano
      BY <1>1, <1>3, NewerThanShown
    <3> QED
      BY <1>1, <1>3, <3>2, <3>3, Numbers
  <2> QED
    BY <1>1, <2>1 DEF IInv, Ordered, Live
<1> QED
  BY <1>2, <1>3, Showing

(* Showing keeps the last id and picture below the counters.               *)
LEMMA ShowCounted ==
  ASSUME IInv, MainShow
  PROVE  Counted'
<1> DEFINE m == idx[MAIN]
<1>1. /\ m \in Buf /\ Live(m)
      /\ UNCHANGED <<meta, image, pano, frame_id>>
  BY Showing
<1>2. Busy' = Busy
  BY ThreadFacts, Shaped DEF IInv, Shape, MainShow, Move, Goto, Busy
<1>3. meta[m].frame_id <= frame_id /\ Past(image[m].pano)
  BY <1>1 DEF IInv, Counted
<1>4. (last_frame_id <= frame_id)'
  BY <1>1, <1>3, Showing DEF IInv, Counted
<1>5. Past(shown.pano)'
  BY <1>1, <1>2, <1>3, Showing DEF IInv, Counted, Past
<1> QED
  BY <1>1, <1>2, <1>4, <1>5 DEF IInv, Counted, Past, Live

(* The type invariant is preserved.                                        *)
LEMMA Typing == IInv /\ [Next]_vars => TypeOK'
<1> SUFFICES ASSUME IInv, [Next]_vars PROVE TypeOK'
  OBVIOUS
<1> USE ThreadFacts, BufFacts, MaxPanosAssumption DEF IInv, TypeOK, Move, Goto
<1>1. CASE StitchCollect
  BY <1>1 DEF StitchCollect, StitchPcs, Counted, Past, Busy
<1>2. CASE StitchClaim
BY <1>2 DEF StitchClaim, claim_free, FirstIn, Set, SetState, InState, Take,
     StitchPcs, BufState
<1>3. CASE StitchDrop
  BY <1>3 DEF StitchDrop, StitchPcs
<1>4. CASE StitchResize
  BY <1>4 DEF StitchResize, StitchPcs, Picture, Ownership, HoldingPcs
<1>5. CASE StitchResizeFail
BY <1>5 DEF StitchResizeFail, Blank, StitchPcs, Picture, Ownership, HoldingPcs
<1>6. CASE StitchFill
BY <1>6 DEF StitchFill, mark_filled, Set, Drop, StitchPcs, BufState, Counted,
     Past, Busy
<1>7. CASE StitchGiveBack
  BY <1>7 DEF StitchGiveBack, mark_free, Set, Drop, StitchPcs, BufState
<1>8. CASE StitchStop
  BY <1>8 DEF StitchStop, StitchPcs
<1>9. ASSUME NEW w \in Workers, WorkerStart(w) PROVE TypeOK'
  BY <1>9 DEF WorkerStart, WorkerPcs
<1>10. ASSUME NEW w \in Workers, WorkerStartFail(w) PROVE TypeOK'
  BY <1>10 DEF WorkerStartFail, WorkerPcs
<1>11. ASSUME NEW w \in Workers, WorkerCheck(w) PROVE TypeOK'
  BY <1>11 DEF WorkerCheck, WorkerPcs
<1>12. ASSUME NEW w \in Workers, WorkerClaim(w) PROVE TypeOK'
BY <1>12 DEF WorkerClaim, claim_filled, FirstIn, Set, SetState, InState, Take,
     WorkerPcs, BufState
<1>13. ASSUME NEW w \in Workers, WorkerSleep(w) PROVE TypeOK'
  BY <1>13 DEF WorkerSleep, WorkerPcs
<1>14. ASSUME NEW w \in Workers, WorkerInfer(w) PROVE TypeOK'
  <2>1. idx[w] \in Buf
    BY <1>14, Holder DEF WorkerInfer, HoldingPcs
  <2>2. image[idx[w]].pano \in 0 .. MaxPanos
    BY <2>1 DEF Picture
  <2> QED
    BY <1>14, <2>2 DEF WorkerInfer, WorkerPcs
<1>15. ASSUME NEW w \in Workers, WorkerInferFail(w) PROVE TypeOK'
  BY <1>15 DEF WorkerInferFail, WorkerPcs
<1>16. ASSUME NEW w \in Workers, WorkerDraw(w) PROVE TypeOK'
  BY <1>16 DEF WorkerDraw, WorkerPcs, Picture, Ownership, HoldingPcs
<1>17. ASSUME NEW w \in Workers, WorkerReady(w) PROVE TypeOK'
BY <1>17 DEF WorkerReady, mark_ready, Set, SetState, Drop, WorkerPcs, BufState
<1>18. ASSUME NEW w \in Workers, WorkerGiveBack(w) PROVE TypeOK'
  BY <1>18 DEF WorkerGiveBack, mark_free, Set, Drop, WorkerPcs, BufState
<1>19. CASE MainClaim
BY <1>19 DEF MainClaim, claim_ready, OldestReady, Set, SetState, InState,
     Take, MainPcs, BufState
<1>20. CASE MainShow
  BY <1>20, ShowTyped DEF MainShow, MainPcs
<1>21. CASE MainFree
  BY <1>21 DEF MainFree, mark_free, Set, Drop, MainPcs, BufState
<1>22. CASE MainLeave
  BY <1>22 DEF MainLeave, MainPcs
<1>23. ASSUME NEW t \in Threads \ {MAIN}, MainStop(t) PROVE TypeOK'
  BY <1>23 DEF MainStop, MainPcs
<1>24. CASE MainJoin
  BY <1>24 DEF MainJoin, MainPcs
<1>25. CASE MainDestroy
  BY <1>25 DEF MainDestroy, MainPcs
<1>26. CASE Signal
  BY <1>26 DEF Signal
<1>27. CASE UNCHANGED vars
  BY <1>27 DEF vars, InState, Past, Busy, Live
<1>28. QED
BY <1>1, <1>2, <1>3, <1>4, <1>5, <1>6, <1>7, <1>8, <1>9, <1>10, <1>11, <1>12,
     <1>13, <1>14, <1>15, <1>16, <1>17, <1>18, <1>19, <1>20, <1>21, <1>22,
     <1>23, <1>24, <1>25, <1>26, <1>27 DEF Next, StitchWork, Worker, MainWork,
     Terminated

(* The claims and the local indices stay in step.                          *)
LEMMA Owning == IInv /\ [Next]_vars => Ownership'
<1> SUFFICES ASSUME IInv, [Next]_vars PROVE Ownership'
  OBVIOUS
<1> USE Shaped, ThreadFacts, BufFacts DEF IInv, Shape, Move, Goto, Ownership,
     HoldingPcs, InState
<1>1. CASE StitchCollect
  BY <1>1 DEF StitchCollect
<1>2. CASE StitchClaim
  BY <1>2 DEF StitchClaim, claim_free, FirstIn, Set, SetState, InState, Take
<1>3. CASE StitchDrop
  BY <1>3 DEF StitchDrop
<1>4. CASE StitchResize
  BY <1>4 DEF StitchResize
<1>5. CASE StitchResizeFail
  BY <1>5 DEF StitchResizeFail, Blank
<1>6. CASE StitchFill
  BY <1>6 DEF StitchFill, mark_filled, Set, Drop
<1>7. CASE StitchGiveBack
  BY <1>7 DEF StitchGiveBack, mark_free, Set, Drop
<1>8. CASE StitchStop
  <2>1. UNCHANGED <<meta, idx>>
    BY <1>8 DEF StitchStop
  <2>2. \A t \in Threads : pc'[t] \in HoldingPcs <=> pc[t] \in HoldingPcs
    BY <1>8 DEF StitchStop
  <2> QED
    BY <2>1, <2>2
<1>9. ASSUME NEW w \in Workers, WorkerStart(w) PROVE Ownership'
  BY <1>9 DEF WorkerStart
<1>10. ASSUME NEW w \in Workers, WorkerStartFail(w) PROVE Ownership'
  BY <1>10 DEF WorkerStartFail
<1>11. ASSUME NEW w \in Workers, WorkerCheck(w) PROVE Ownership'
  BY <1>11 DEF WorkerCheck
<1>12. ASSUME NEW w \in Workers, WorkerClaim(w) PROVE Ownership'
BY <1>12 DEF WorkerClaim, claim_filled, FirstIn, Set, SetState, InState, Take
<1>13. ASSUME NEW w \in Workers, WorkerSleep(w) PROVE Ownership'
  BY <1>13 DEF WorkerSleep
<1>14. ASSUME NEW w \in Workers, WorkerInfer(w) PROVE Ownership'
  BY <1>14 DEF WorkerInfer
<1>15. ASSUME NEW w \in Workers, WorkerInferFail(w) PROVE Ownership'
  BY <1>15 DEF WorkerInferFail
<1>16. ASSUME NEW w \in Workers, WorkerDraw(w) PROVE Ownership'
  BY <1>16 DEF WorkerDraw
<1>17. ASSUME NEW w \in Workers, WorkerReady(w) PROVE Ownership'
  BY <1>17 DEF WorkerReady, mark_ready, Set, SetState, Drop
<1>18. ASSUME NEW w \in Workers, WorkerGiveBack(w) PROVE Ownership'
  BY <1>18 DEF WorkerGiveBack, mark_free, Set, Drop
<1>19. CASE MainClaim
BY <1>19 DEF MainClaim, claim_ready, OldestReady, Set, SetState, InState, Take
<1>20. CASE MainShow
  BY <1>20 DEF MainShow
<1>21. CASE MainFree
  BY <1>21 DEF MainFree, mark_free, Set, Drop
<1>22. CASE MainLeave
  BY <1>22 DEF MainLeave
<1>23. ASSUME NEW t \in Threads \ {MAIN}, MainStop(t) PROVE Ownership'
  BY <1>23 DEF MainStop
<1>24. CASE MainJoin
  BY <1>24 DEF MainJoin
<1>25. CASE MainDestroy
  BY <1>25 DEF MainDestroy
<1>26. CASE Signal
  BY <1>26 DEF Signal
<1>27. CASE UNCHANGED vars
  BY <1>27 DEF vars, InState, Past, Busy, Live
<1>28. QED
BY <1>1, <1>2, <1>3, <1>4, <1>5, <1>6, <1>7, <1>8, <1>9, <1>10, <1>11, <1>12,
     <1>13, <1>14, <1>15, <1>16, <1>17, <1>18, <1>19, <1>20, <1>21, <1>22,
     <1>23, <1>24, <1>25, <1>26, <1>27 DEF Next, StitchWork, Worker, MainWork,
     Terminated

(* Nothing revives a thread that has ended.                                *)
LEMMA Joining == IInv /\ [Next]_vars => Joined'
<1> SUFFICES ASSUME IInv, [Next]_vars PROVE Joined'
  OBVIOUS
<1> USE Shaped, ThreadFacts, BufFacts DEF IInv, Shape, Move, Goto, Joined
<1>1. CASE StitchCollect
  BY <1>1 DEF StitchCollect
<1>2. CASE StitchClaim
  BY <1>2 DEF StitchClaim, claim_free, FirstIn, Set, SetState, InState, Take
<1>3. CASE StitchDrop
  BY <1>3 DEF StitchDrop, None
<1>4. CASE StitchResize
  BY <1>4 DEF StitchResize
<1>5. CASE StitchResizeFail
  BY <1>5 DEF StitchResizeFail, Blank
<1>6. CASE StitchFill
  BY <1>6 DEF StitchFill, mark_filled, Set, Drop
<1>7. CASE StitchGiveBack
  BY <1>7 DEF StitchGiveBack, mark_free, Set, Drop
<1>8. CASE StitchStop
  BY <1>8 DEF StitchStop
<1>9. ASSUME NEW w \in Workers, WorkerStart(w) PROVE Joined'
  BY <1>9 DEF WorkerStart
<1>10. ASSUME NEW w \in Workers, WorkerStartFail(w) PROVE Joined'
  BY <1>10 DEF WorkerStartFail
<1>11. ASSUME NEW w \in Workers, WorkerCheck(w) PROVE Joined'
  BY <1>11 DEF WorkerCheck
<1>12. ASSUME NEW w \in Workers, WorkerClaim(w) PROVE Joined'
BY <1>12 DEF WorkerClaim, claim_filled, FirstIn, Set, SetState, InState, Take
<1>13. ASSUME NEW w \in Workers, WorkerSleep(w) PROVE Joined'
  BY <1>13 DEF WorkerSleep
<1>14. ASSUME NEW w \in Workers, WorkerInfer(w) PROVE Joined'
  BY <1>14 DEF WorkerInfer
<1>15. ASSUME NEW w \in Workers, WorkerInferFail(w) PROVE Joined'
  BY <1>15 DEF WorkerInferFail
<1>16. ASSUME NEW w \in Workers, WorkerDraw(w) PROVE Joined'
  BY <1>16 DEF WorkerDraw
<1>17. ASSUME NEW w \in Workers, WorkerReady(w) PROVE Joined'
  BY <1>17 DEF WorkerReady, mark_ready, Set, SetState, Drop
<1>18. ASSUME NEW w \in Workers, WorkerGiveBack(w) PROVE Joined'
  BY <1>18 DEF WorkerGiveBack, mark_free, Set, Drop
<1>19. CASE MainClaim
BY <1>19 DEF MainClaim, claim_ready, OldestReady, Set, SetState, InState, Take
<1>20. CASE MainShow
  BY <1>20 DEF MainShow
<1>21. CASE MainFree
  BY <1>21 DEF MainFree, mark_free, Set, Drop
<1>22. CASE MainLeave
  BY <1>22 DEF MainLeave
<1>23. ASSUME NEW t \in Threads \ {MAIN}, MainStop(t) PROVE Joined'
  BY <1>23 DEF MainStop
<1>24. CASE MainJoin
  BY <1>24 DEF MainJoin
<1>25. CASE MainDestroy
  BY <1>25 DEF MainDestroy
<1>26. CASE Signal
  BY <1>26 DEF Signal
<1>27. CASE UNCHANGED vars
  BY <1>27 DEF vars, InState, Past, Busy, Live
<1>28. QED
BY <1>1, <1>2, <1>3, <1>4, <1>5, <1>6, <1>7, <1>8, <1>9, <1>10, <1>11, <1>12,
     <1>13, <1>14, <1>15, <1>16, <1>17, <1>18, <1>19, <1>20, <1>21, <1>22,
     <1>23, <1>24, <1>25, <1>26, <1>27 DEF Next, StitchWork, Worker, MainWork,
     Terminated

(* Ids appear with mark_filled and vanish with mark_free only.             *)
LEMMA Keeping == IInv /\ [Next]_vars => IdKept'
<1> SUFFICES ASSUME IInv, [Next]_vars PROVE IdKept'
  OBVIOUS
<1> USE Shaped, ThreadFacts, BufFacts DEF IInv, Shape, Move, Goto, Ownership,
     HoldingPcs, InState, IdKept, Live
<1>1. CASE StitchCollect
  BY <1>1 DEF StitchCollect
<1>2. CASE StitchClaim
  BY <1>2 DEF StitchClaim, claim_free, FirstIn, Set, SetState, InState, Take
<1>3. CASE StitchDrop
  BY <1>3 DEF StitchDrop
<1>4. CASE StitchResize
  BY <1>4 DEF StitchResize
<1>5. CASE StitchResizeFail
  BY <1>5 DEF StitchResizeFail, Blank
<1>6. CASE StitchFill
  <2>1. idx[STITCH] \in Buf
    BY <1>6, Holder DEF StitchFill
  <2>2. Set(idx[STITCH], frame_id + 1, "FILLED")
    BY <1>6, <2>1, Marking DEF StitchFill
  <2>3. frame_id + 1 # -1
    BY DEF TypeOK
  <2> QED
    BY <1>6, <2>1, <2>2, <2>3 DEF StitchFill, Set, Drop
<1>7. CASE StitchGiveBack
  BY <1>7 DEF StitchGiveBack, mark_free, Set, Drop
<1>8. CASE StitchStop
  BY <1>8 DEF StitchStop
<1>9. ASSUME NEW w \in Workers, WorkerStart(w) PROVE IdKept'
  BY <1>9 DEF WorkerStart
<1>10. ASSUME NEW w \in Workers, WorkerStartFail(w) PROVE IdKept'
  BY <1>10 DEF WorkerStartFail
<1>11. ASSUME NEW w \in Workers, WorkerCheck(w) PROVE IdKept'
  BY <1>11 DEF WorkerCheck
<1>12. ASSUME NEW w \in Workers, WorkerClaim(w) PROVE IdKept'
BY <1>12 DEF WorkerClaim, claim_filled, FirstIn, Set, SetState, InState, Take
<1>13. ASSUME NEW w \in Workers, WorkerSleep(w) PROVE IdKept'
  BY <1>13 DEF WorkerSleep
<1>14. ASSUME NEW w \in Workers, WorkerInfer(w) PROVE IdKept'
  BY <1>14 DEF WorkerInfer
<1>15. ASSUME NEW w \in Workers, WorkerInferFail(w) PROVE IdKept'
  BY <1>15 DEF WorkerInferFail
<1>16. ASSUME NEW w \in Workers, WorkerDraw(w) PROVE IdKept'
  BY <1>16 DEF WorkerDraw
<1>17. ASSUME NEW w \in Workers, WorkerReady(w) PROVE IdKept'
  <2>1. idx[w] \in Buf
    BY <1>17, Holder DEF WorkerReady
  <2>2. Set(idx[w], meta[idx[w]].frame_id, "READY")
    BY <1>17, <2>1, Marking DEF WorkerReady
  <2> QED
    BY <1>17, <2>1, <2>2 DEF WorkerReady, Set, Drop
<1>18. ASSUME NEW w \in Workers, WorkerGiveBack(w) PROVE IdKept'
  BY <1>18 DEF WorkerGiveBack, mark_free, Set, Drop
<1>19. CASE MainClaim
BY <1>19 DEF MainClaim, claim_ready, OldestReady, Set, SetState, InState, Take
<1>20. CASE MainShow
  BY <1>20 DEF MainShow
<1>21. CASE MainFree
  BY <1>21 DEF MainFree, mark_free, Set, Drop
<1>22. CASE MainLeave
  BY <1>22 DEF MainLeave
<1>23. ASSUME NEW t \in Threads \ {MAIN}, MainStop(t) PROVE IdKept'
  BY <1>23 DEF MainStop
<1>24. CASE MainJoin
  BY <1>24 DEF MainJoin
<1>25. CASE MainDestroy
  BY <1>25 DEF MainDestroy
<1>26. CASE Signal
  BY <1>26 DEF Signal
<1>27. CASE UNCHANGED vars
  BY <1>27 DEF vars, InState, Past, Busy, Live
<1>28. QED
BY <1>1, <1>2, <1>3, <1>4, <1>5, <1>6, <1>7, <1>8, <1>9, <1>10, <1>11, <1>12,
     <1>13, <1>14, <1>15, <1>16, <1>17, <1>18, <1>19, <1>20, <1>21, <1>22,
     <1>23, <1>24, <1>25, <1>26, <1>27 DEF Next, StitchWork, Worker, MainWork,
     Terminated

(* The counters stay ahead of everything they have numbered.               *)
LEMMA Counting == IInv /\ [Next]_vars => Counted'
<1> SUFFICES ASSUME IInv, [Next]_vars PROVE Counted'
  OBVIOUS
<1> USE Shaped, ThreadFacts, BufFacts DEF IInv, Shape, Move, Goto, Ownership,
     HoldingPcs, InState, IdKept, Live, Counted, Past, Busy
<1>1. CASE StitchCollect
  BY <1>1 DEF StitchCollect
<1>2. CASE StitchClaim
  BY <1>2 DEF StitchClaim, claim_free, FirstIn, Set, SetState, InState, Take
<1>3. CASE StitchDrop
  BY <1>3 DEF StitchDrop
<1>4. CASE StitchResize
  BY <1>4 DEF StitchResize
<1>5. CASE StitchResizeFail
  BY <1>5 DEF StitchResizeFail, Blank
<1>6. CASE StitchFill
  <2>1. idx[STITCH] \in Buf
    BY <1>6, Holder DEF StitchFill
  <2>2. Set(idx[STITCH], frame_id + 1, "FILLED")
    BY <1>6, <2>1, Marking DEF StitchFill
  <2>3. Past(frame_id)' /\ (last_frame_id <= frame_id)' /\ Past(shown.pano)'
    BY <1>6 DEF StitchFill
  <2>4. \A i \in Buf : Live(i)' => (meta[i].frame_id <= frame_id)'
    BY <1>6, <2>1, <2>2 DEF StitchFill, Set
  <2>5. \A i \in Buf : Live(i)' => Past(image[i].pano)'
    BY <1>6, <2>1, <2>2 DEF StitchFill, Set, Pixels
  <2> QED
    BY <2>3, <2>4, <2>5
<1>7. CASE StitchGiveBack
  BY <1>7 DEF StitchGiveBack, mark_free, Set, Drop
<1>8. CASE StitchStop
  BY <1>8 DEF StitchStop
<1>9. ASSUME NEW w \in Workers, WorkerStart(w) PROVE Counted'
  BY <1>9 DEF WorkerStart
<1>10. ASSUME NEW w \in Workers, WorkerStartFail(w) PROVE Counted'
  BY <1>10 DEF WorkerStartFail
<1>11. ASSUME NEW w \in Workers, WorkerCheck(w) PROVE Counted'
  BY <1>11 DEF WorkerCheck
<1>12. ASSUME NEW w \in Workers, WorkerClaim(w) PROVE Counted'
BY <1>12 DEF WorkerClaim, claim_filled, FirstIn, Set, SetState, InState, Take
<1>13. ASSUME NEW w \in Workers, WorkerSleep(w) PROVE Counted'
  BY <1>13 DEF WorkerSleep
<1>14. ASSUME NEW w \in Workers, WorkerInfer(w) PROVE Counted'
  BY <1>14 DEF WorkerInfer
<1>15. ASSUME NEW w \in Workers, WorkerInferFail(w) PROVE Counted'
  BY <1>15 DEF WorkerInferFail
<1>16. ASSUME NEW w \in Workers, WorkerDraw(w) PROVE Counted'
  BY <1>16 DEF WorkerDraw
<1>17. ASSUME NEW w \in Workers, WorkerReady(w) PROVE Counted'
  BY <1>17 DEF WorkerReady, mark_ready, Set, SetState, Drop
<1>18. ASSUME NEW w \in Workers, WorkerGiveBack(w) PROVE Counted'
  BY <1>18 DEF WorkerGiveBack, mark_free, Set, Drop
<1>19. CASE MainClaim
BY <1>19 DEF MainClaim, claim_ready, OldestReady, Set, SetState, InState, Take
<1>20. CASE MainShow
  BY <1>20, ShowCounted
<1>21. CASE MainFree
  BY <1>21 DEF MainFree, mark_free, Set, Drop
<1>22. CASE MainLeave
  BY <1>22 DEF MainLeave
<1>23. ASSUME NEW t \in Threads \ {MAIN}, MainStop(t) PROVE Counted'
  BY <1>23 DEF MainStop
<1>24. CASE MainJoin
  BY <1>24 DEF MainJoin
<1>25. CASE MainDestroy
  BY <1>25 DEF MainDestroy
<1>26. CASE Signal
  BY <1>26 DEF Signal
<1>27. CASE UNCHANGED vars
  BY <1>27 DEF vars, InState, Past, Busy, Live
<1>28. QED
BY <1>1, <1>2, <1>3, <1>4, <1>5, <1>6, <1>7, <1>8, <1>9, <1>10, <1>11, <1>12,
     <1>13, <1>14, <1>15, <1>16, <1>17, <1>18, <1>19, <1>20, <1>21, <1>22,
     <1>23, <1>24, <1>25, <1>26, <1>27 DEF Next, StitchWork, Worker, MainWork,
     Terminated

(* A new id is the largest, and its panorama the newest.                   *)
LEMMA Ordering == IInv /\ [Next]_vars => Ordered'
<1> SUFFICES ASSUME IInv, [Next]_vars PROVE Ordered'
  OBVIOUS
<1> USE Shaped, ThreadFacts, BufFacts DEF IInv, Shape, Move, Goto, Ownership,
     HoldingPcs, InState, IdKept, Live, Counted, Past, Busy, Ordered
<1>1. CASE StitchCollect
  BY <1>1 DEF StitchCollect
<1>2. CASE StitchClaim
  BY <1>2 DEF StitchClaim, claim_free, FirstIn, Set, SetState, InState, Take
<1>3. CASE StitchDrop
  BY <1>3 DEF StitchDrop
<1>4. CASE StitchResize
  BY <1>4 DEF StitchResize
<1>5. CASE StitchResizeFail
  BY <1>5 DEF StitchResizeFail, Blank
<1>6. CASE StitchFill
  BY <1>6 DEF StitchFill, mark_filled, Set, Drop, Pixels
<1>7. CASE StitchGiveBack
  BY <1>7 DEF StitchGiveBack, mark_free, Set, Drop
<1>8. CASE StitchStop
  BY <1>8 DEF StitchStop
<1>9. ASSUME NEW w \in Workers, WorkerStart(w) PROVE Ordered'
  BY <1>9 DEF WorkerStart
<1>10. ASSUME NEW w \in Workers, WorkerStartFail(w) PROVE Ordered'
  BY <1>10 DEF WorkerStartFail
<1>11. ASSUME NEW w \in Workers, WorkerCheck(w) PROVE Ordered'
  BY <1>11 DEF WorkerCheck
<1>12. ASSUME NEW w \in Workers, WorkerClaim(w) PROVE Ordered'
BY <1>12 DEF WorkerClaim, claim_filled, FirstIn, Set, SetState, InState, Take
<1>13. ASSUME NEW w \in Workers, WorkerSleep(w) PROVE Ordered'
  BY <1>13 DEF WorkerSleep
<1>14. ASSUME NEW w \in Workers, WorkerInfer(w) PROVE Ordered'
  BY <1>14 DEF WorkerInfer
<1>15. ASSUME NEW w \in Workers, WorkerInferFail(w) PROVE Ordered'
  BY <1>15 DEF WorkerInferFail
<1>16. ASSUME NEW w \in Workers, WorkerDraw(w) PROVE Ordered'
  BY <1>16 DEF WorkerDraw
<1>17. ASSUME NEW w \in Workers, WorkerReady(w) PROVE Ordered'
  <2>1. idx[w] \in Buf
    BY <1>17, Holder DEF WorkerReady
  <2>2. Set(idx[w], meta[idx[w]].frame_id, "READY")
    BY <1>17, <2>1, Marking DEF WorkerReady
  <2>3. \A i \in Buf : meta'[i].frame_id = meta[i].frame_id
    BY <2>1, <2>2 DEF Set
  <2>4. UNCHANGED <<image, last_frame_id, shown>>
    BY <1>17 DEF WorkerReady
  <2> QED
    BY <2>3, <2>4 DEF Ordered, Live
<1>18. ASSUME NEW w \in Workers, WorkerGiveBack(w) PROVE Ordered'
  BY <1>18 DEF WorkerGiveBack, mark_free, Set, Drop
<1>19. CASE MainClaim
BY <1>19 DEF MainClaim, claim_ready, OldestReady, Set, SetState, InState, Take
<1>20. CASE MainShow
  BY <1>20, ShowOrdered
<1>21. CASE MainFree
  BY <1>21 DEF MainFree, mark_free, Set, Drop
<1>22. CASE MainLeave
  BY <1>22 DEF MainLeave
<1>23. ASSUME NEW t \in Threads \ {MAIN}, MainStop(t) PROVE Ordered'
  BY <1>23 DEF MainStop
<1>24. CASE MainJoin
  BY <1>24 DEF MainJoin
<1>25. CASE MainDestroy
  BY <1>25 DEF MainDestroy
<1>26. CASE Signal
  BY <1>26 DEF Signal
<1>27. CASE UNCHANGED vars
  BY <1>27 DEF vars, InState, Past, Busy, Live
<1>28. QED
BY <1>1, <1>2, <1>3, <1>4, <1>5, <1>6, <1>7, <1>8, <1>9, <1>10, <1>11, <1>12,
     <1>13, <1>14, <1>15, <1>16, <1>17, <1>18, <1>19, <1>20, <1>21, <1>22,
     <1>23, <1>24, <1>25, <1>26, <1>27 DEF Next, StitchWork, Worker, MainWork,
     Terminated

(* Pixels change only in the hands of the holder.                          *)
LEMMA Drawing == IInv /\ [Next]_vars => Pixels'
<1> SUFFICES ASSUME IInv, [Next]_vars PROVE Pixels'
  OBVIOUS
<1> USE Shaped, ThreadFacts, BufFacts DEF IInv, Shape, Move, Goto, Ownership,
     HoldingPcs, InState, IdKept, Live, Pixels
<1>1. CASE StitchCollect
  BY <1>1 DEF StitchCollect
<1>2. CASE StitchClaim
  BY <1>2 DEF StitchClaim, claim_free, FirstIn, Set, SetState, InState, Take
<1>3. CASE StitchDrop
  BY <1>3 DEF StitchDrop
<1>4. CASE StitchResize
  BY <1>4 DEF StitchResize
<1>5. CASE StitchResizeFail
  BY <1>5 DEF StitchResizeFail, Blank
<1>6. CASE StitchFill
  BY <1>6 DEF StitchFill, mark_filled, Set, Drop
<1>7. CASE StitchGiveBack
  BY <1>7 DEF StitchGiveBack, mark_free, Set, Drop
<1>8. CASE StitchStop
  BY <1>8 DEF StitchStop
<1>9. ASSUME NEW w \in Workers, WorkerStart(w) PROVE Pixels'
  BY <1>9 DEF WorkerStart
<1>10. ASSUME NEW w \in Workers, WorkerStartFail(w) PROVE Pixels'
  BY <1>10 DEF WorkerStartFail
<1>11. ASSUME NEW w \in Workers, WorkerCheck(w) PROVE Pixels'
  BY <1>11 DEF WorkerCheck
<1>12. ASSUME NEW w \in Workers, WorkerClaim(w) PROVE Pixels'
BY <1>12 DEF WorkerClaim, claim_filled, FirstIn, Set, SetState, InState, Take
<1>13. ASSUME NEW w \in Workers, WorkerSleep(w) PROVE Pixels'
  BY <1>13 DEF WorkerSleep
<1>14. ASSUME NEW w \in Workers, WorkerInfer(w) PROVE Pixels'
  BY <1>14 DEF WorkerInfer
<1>15. ASSUME NEW w \in Workers, WorkerInferFail(w) PROVE Pixels'
  BY <1>15 DEF WorkerInferFail
<1>16. ASSUME NEW w \in Workers, WorkerDraw(w) PROVE Pixels'
  BY <1>16 DEF WorkerDraw
<1>17. ASSUME NEW w \in Workers, WorkerReady(w) PROVE Pixels'
  <2>1. idx[w] \in Buf
    BY <1>17, Holder DEF WorkerReady
  <2>2. Set(idx[w], meta[idx[w]].frame_id, "READY")
    BY <1>17, <2>1, Marking DEF WorkerReady
  <2> QED
    BY <1>17, <2>1, <2>2 DEF WorkerReady, Set, Drop
<1>18. ASSUME NEW w \in Workers, WorkerGiveBack(w) PROVE Pixels'
  BY <1>18 DEF WorkerGiveBack, mark_free, Set, Drop
<1>19. CASE MainClaim
BY <1>19 DEF MainClaim, claim_ready, OldestReady, Set, SetState, InState, Take
<1>20. CASE MainShow
  BY <1>20 DEF MainShow
<1>21. CASE MainFree
  BY <1>21 DEF MainFree, mark_free, Set, Drop
<1>22. CASE MainLeave
  BY <1>22 DEF MainLeave
<1>23. ASSUME NEW t \in Threads \ {MAIN}, MainStop(t) PROVE Pixels'
  BY <1>23 DEF MainStop
<1>24. CASE MainJoin
  BY <1>24 DEF MainJoin
<1>25. CASE MainDestroy
  BY <1>25 DEF MainDestroy
<1>26. CASE Signal
  BY <1>26 DEF Signal
<1>27. CASE UNCHANGED vars
  BY <1>27 DEF vars, InState, Past, Busy, Live
<1>28. QED
BY <1>1, <1>2, <1>3, <1>4, <1>5, <1>6, <1>7, <1>8, <1>9, <1>10, <1>11, <1>12,
     <1>13, <1>14, <1>15, <1>16, <1>17, <1>18, <1>19, <1>20, <1>21, <1>22,
     <1>23, <1>24, <1>25, <1>26, <1>27 DEF Next, StitchWork, Worker, MainWork,
     Terminated
-----------------------------------------------------------------------------
(* Before the threads start nobody holds a buffer and nothing is shown.     *)
LEMMA Initially == Init => IInv
<1> SUFFICES ASSUME Init PROVE IInv
  OBVIOUS
<1> USE BufFacts, ThreadFacts DEF Init, InitQueue, Blank
<1>1. TypeOK
  <2>1. meta \in [Buf -> [frame_id : {-1} \cup 1 .. MaxPanos, state : BufState]]
    BY DEF BufState
  <2>2. /\ pc \in [Threads -> StitchPcs \cup WorkerPcs \cup MainPcs]
        /\ pc[STITCH] \in StitchPcs
        /\ \A w \in Workers : pc[w] \in WorkerPcs
        /\ pc[MAIN] \in MainPcs
    BY DEF StitchPcs, WorkerPcs, MainPcs
  <2>3. idx \in [Threads -> Buf \cup {NoBuf}]
    OBVIOUS
  <2>4. image \in [Buf -> Picture] /\ shown \in Picture
    BY MaxPanosAssumption DEF Picture
  <2>5. /\ det \in [Workers -> 0 .. MaxPanos]
        /\ pano \in 0 .. MaxPanos
        /\ frame_id \in 0 .. pano
        /\ last_frame_id \in {-1} \cup 1 .. MaxPanos
    BY MaxPanosAssumption
  <2>6. running \in [Threads \ {MAIN} -> BOOLEAN] /\ destroyed \in BOOLEAN
    OBVIOUS
  <2>7. g_exit \in BOOLEAN
    OBVIOUS
  <2> QED
    BY <2>1, <2>2, <2>3, <2>4, <2>5, <2>6, <2>7 DEF TypeOK
<1>2. \A t \in Threads : idx[t] = NoBuf /\ pc[t] \in {"start", "loop"}
  OBVIOUS
<1>3. Ownership
  BY <1>2 DEF Ownership, HoldingPcs, InState
<1>4. Joined
  BY DEF Joined
<1>5. \A i \in Buf : InState(i, "FREE") /\ ~ Live(i)
  BY DEF InState, Live
<1>6. IdKept
  BY <1>2, <1>5 DEF IdKept, InState
<1>7. Counted /\ Ordered
  BY <1>5 DEF Counted, Ordered, Past, Busy
<1>8. Pixels
  BY <1>2, <1>5 DEF Pixels, InState
<1> QED
  BY <1>1, <1>3, <1>4, <1>6, <1>7, <1>8 DEF IInv

(* All parts together are preserved by every step.                         *)
LEMMA Preserved == IInv /\ [Next]_vars => IInv'
  BY Typing, Owning, Joining, Keeping, Counting, Ordering, Drawing DEF IInv

(* The inductive invariant, in every reachable state.                      *)
THEOREM Invariance == Spec => []IInv
  BY Initially, Preserved, PTL DEF Spec

(* Ids and panorama numbers stay in their ranges and every thread at a     *)
(* place its code has.                                                     *)
THEOREM TypeCorrect == Spec => []TypeOK
<1>1. IInv => TypeOK
  BY DEF IInv
<1> QED
  BY <1>1, Invariance, PTL

(* No two threads ever hold the same buffer, and none is lost.             *)
THEOREM Exclusive == Spec => []Ownership
<1>1. IInv => Ownership
  BY DEF IInv
<1> QED
  BY <1>1, Invariance, PTL

(* The pool is freed only when nobody can use it any more.                 *)
THEOREM SafeDestroy == Spec => []NothingAfterDestroy
<1>1. IInv => NothingAfterDestroy
  <2> SUFFICES ASSUME IInv, destroyed PROVE NothingAfterDestroy
    BY DEF NothingAfterDestroy
  <2>1. \A t \in Threads : pc[t] = "done"
    BY ThreadFacts DEF IInv, Joined
  <2>2. \A t \in Threads : idx[t] = NoBuf
    BY <2>1 DEF IInv, Ownership, HoldingPcs
  <2>3. None("PROCESSING")
    BY <2>2, BufFacts DEF IInv, Ownership, None
  <2> QED
    BY <2>1, <2>3 DEF NothingAfterDestroy
<1> QED
  BY <1>1, Invariance, PTL
-----------------------------------------------------------------------------
(* Every step of the pipeline is a step of the picture feed or none: only  *)
(* StitchCollect makes a panorama, only MainShow changes the picture, and  *)
(* only MainLeave closes the display.                                      *)
LEMMA StepsOfFeed == IInv /\ [Next]_vars => [Feed!Next]_(Feed!feed)
<1> DEFINE Closed == pc[MAIN] \in {"stop", "destroy", "done"}
<1> SUFFICES ASSUME IInv, [Next]_vars PROVE [Feed!Next]_(Feed!feed)
  OBVIOUS
<1> USE Shaped, ThreadFacts DEF IInv, Shape, Move, Goto
<1>1. CASE StitchCollect
  BY <1>1 DEF StitchCollect, Feed!Next, Feed!Make
<1>2. CASE MainShow
  <2>1. idx[MAIN] \in Buf /\ Live(idx[MAIN]) /\ idx[MAIN] # NoBuf
    BY <1>2, Holder, BufFacts DEF MainShow, HoldingPcs
  <2>2. ~ Closed /\ ~ Closed' /\ UNCHANGED pano
    BY <1>2 DEF MainShow
  <2>3. CASE UNCHANGED shown
    BY <2>2, <2>3 DEF Feed!feed
  <2>4. CASE /\ meta[idx[MAIN]].frame_id > last_frame_id
             /\ shown' = image[idx[MAIN]]
    <3> DEFINE p == image[idx[MAIN]].pano
    <3>1. p \in shown.pano + 1 .. pano
      BY <2>1, <2>4 DEF Ordered, Counted, Past
    <3>2. shown' = [pano |-> p, boxes |-> p]
      BY <2>1, <2>4 DEF Pixels
    <3> QED
      BY <2>2, <3>1, <3>2 DEF Feed!Next, Feed!Show
  <2> QED
    BY <1>2, <2>3, <2>4 DEF MainShow
<1>3. CASE MainLeave
  BY <1>3 DEF MainLeave, Feed!Next, Feed!Close
<1>4. CASE UNCHANGED <<pano, shown, Closed>>
  BY <1>4 DEF Feed!feed
<1>5. StitchWork \/ (\E w \in Workers : Worker(w)) =>
        UNCHANGED <<pano, shown, Closed>>
  BY DEF StitchWork, StitchClaim, StitchDrop, StitchResize, StitchResizeFail,
         StitchFill, StitchGiveBack, StitchStop, Worker, WorkerStart,
         WorkerStartFail, WorkerCheck, WorkerClaim, WorkerSleep, WorkerInfer,
         WorkerInferFail, WorkerDraw, WorkerReady, WorkerGiveBack
<1>6. MainClaim \/ MainFree \/ (\E t \in Threads \ {MAIN} : MainStop(t))
      \/ MainJoin \/ MainDestroy \/ Signal \/ UNCHANGED vars =>
        UNCHANGED <<pano, shown, Closed>>
  BY DEF MainClaim, MainFree, MainStop, MainJoin, MainDestroy, Signal, vars
<1> QED
  BY <1>1, <1>2, <1>3, <1>4, <1>5, <1>6 DEF Next, MainWork, Terminated

(* The pipeline implements the picture feed: what is on display only moves *)
(* to newer panoramas, each with its own boxes, until the display closes.  *)
THEOREM Implements == Spec => ImplementsFeed
<1>1. Init => Feed!Init
  BY ThreadFacts DEF Init, Blank, Feed!Init
<1> QED
  BY <1>1, StepsOfFeed, Invariance, PTL DEF Spec, ImplementsFeed, Feed!Spec
=============================================================================
