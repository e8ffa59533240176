-------------------------- MODULE LifetimesProofs ---------------------------
(***************************************************************************)
(* Proofs about Lifetimes, for every number of workers and of buffers and  *)
(* every set of calls that may fail.                                       *)
(*                                                                         *)
(* The invariant ties what the program holds to the places of its threads: *)
(* workers are under way only while main shows or joins (Launched); what   *)
(* is open and mapped of a buffer follows from how its allocation ended    *)
(* and from its descriptor (Memory), and the descriptors from how far main *)
(* has come (Progress); a context is in use in a few places, and otherwise *)
(* there only because a query failed (Models); a thread that filled its    *)
(* label table has it until the end, unless it got as far as freeing it    *)
(* (MainsLabels, Tables); and the count is right and one table loaded as   *)
(* long as the worker between load and store is alone (Counting).          *)
(***************************************************************************)
EXTENDS Lifetimes, FiniteSetTheorems, TLAPS

Launched ==
  \A w \in Workers :
    /\ pc[w] \notin {"unborn", "done"} => pc[MAIN] \in {"show", "join"}
    /\ pc[w] = "done" => pc[MAIN] \in {"show", "join", "destroy", "done"}

Memory ==
  /\ \A k \in Slots :
       /\ k \in heaps <=> alloc[k] \in {"ioctl", "mmap"}
       /\ k \in bufs <=> alloc[k] = "mmap" \/ fd[k] = "open"
       /\ k \in maps <=> fd[k] = "open"
       /\ fd[k] = "open" => alloc[k] = "ok"
  /\ fd[Display] # "unset"
  /\ ~ undefined => \A k \in Pool : alloc[k] \in {"none", "ok"}

(* Main is before the pool, or in the program that has none.               *)
Poolless == {"load", "read", "label", "model", "infer", "giveup", "release",
             "unlabel"}

Progress ==
  /\ pc[MAIN] \in Poolless => \A k \in Slots : alloc[k] = "none"
  /\ pc[MAIN] = "load" => slot = 0
  /\ pc[MAIN] = "alloc" =>
       /\ \A k \in Slots : k >= slot => alloc[k] = "none"
       /\ ~ undefined => \A k \in Pool : k < slot => fd[k] = "open"
  /\ pc[MAIN] \in {"show", "join"} => \A k \in Pool : fd[k] = "open"
  /\ pc[MAIN] = "destroy" => /\ \A k \in Pool : fd[k] # "unset"
                             /\ \A k \in Slots : k < slot => fd[k] = "closed"
  /\ pc[MAIN] = "done" => \A k \in Slots : fd[k] # "open"

Loaded == {w \in Workers : pc[w] = "run"}
          \cup {t \in {MAIN} : pc[t] \in {"infer", "giveup", "release"}}

Models ==
  /\ app = Loaded
  /\ contexts = app \cup {t \in Threads : init[t] = "query"}
  /\ \A w \in Workers :
       /\ pc[w] \in {"unborn", "start", "up", "label", "model"} => init[w] = "none"
       /\ pc[w] = "run" => init[w] = "ok"
  /\ pc[MAIN] \in {"read", "label", "model"} => init[MAIN] = "none"
  /\ pc[MAIN] \in {"infer", "release"} => init[MAIN] = "ok"
  /\ pc[MAIN] = "giveup" => init[MAIN] = "inference"

MainsLabels ==
  /\ pc[MAIN] \in {"load", "alloc", "show", "join", "destroy", "read", "label"}
       => MAIN \notin filled
  /\ MAIN \in filled =>
       (MAIN \in labels <=> pc[MAIN] # "done" \/ init[MAIN] # "ok")
  /\ pc[MAIN] = "unlabel" => init[MAIN] = "ok"

(* Before it ends a worker has the table it filled; the places it stops    *)
(* from tell how its model came out; and as long as no two updates have    *)
(* met, the one that frees its table is the one that left nobody counted.  *)
Table(w) ==
  /\ pc[w] \in {"unborn", "start", "up", "label"} => w \notin filled
  /\ w \in filled /\ (pc[w] # "done" \/ init[w] # "ok") => w \in labels
  /\ pc[w] \in {"released", "down", "unlabel"} => init[w] = "ok"
  /\ pc[w] \in {"failed", "back"} => init[w] # "ok"
  /\ w \in last => pc[w] \in {"unlabel", "done"}
  /\ ~ raced /\ pc[w] = "unlabel" => w \in last
  /\ ~ raced /\ pc[w] = "done" /\ w \in filled /\ init[w] = "ok" =>
       (w \in labels <=> w \notin last)

Tables == \A w \in Workers : Table(w)

(* The workers that count and have a label table, or are about to.         *)
Carriers == {w \in Counted : w \in labels \/ pc[w] = "label"}

Counting ==
  /\ \A w \in Workers : pc[w] \in {"unborn", "start", "up"} => w \notin labels
  /\ ~ raced => /\ g_init_count = Cardinality(Counted)
                /\ \A v, w \in Carriers : v = w
                /\ \A w \in Workers : pc[w] \in Updating => seen[w] = g_init_count
                /\ \A v, w \in Workers :
                     pc[v] \in Updating /\ pc[w] \in Updating => v = w
-----------------------------------------------------------------------------
(* The type invariant in two parts.                                        *)
PlacesOK == /\ pc \in [Threads -> MainPcs \cup WorkerPcs]
            /\ pc[MAIN] \in MainPcs
            /\ \A w \in Workers : pc[w] \in WorkerPcs

HeldOK ==
  /\ program \in {"stitch", "test"}
  /\ slot \in 0 .. BufNum + 1
  /\ alloc \in [Slots -> Results]
  /\ fd \in [Slots -> {"unset", "open", "closed"}]
  /\ heaps \subseteq Slots /\ bufs \subseteq Slots /\ maps \subseteq Slots
  /\ running \in BOOLEAN
  /\ g_init_count \in Int
  /\ seen \in [Workers -> Int]
  /\ raced \in BOOLEAN
  /\ last \subseteq Workers
  /\ filled \subseteq Threads /\ labels \subseteq filled
  /\ init \in [Threads -> Inits]
  /\ contexts \subseteq Threads /\ app \subseteq contexts
  /\ undefined \in BOOLEAN

LEMMA Parts == TypeOK <=> PlacesOK /\ HeldOK
BY DEF TypeOK, PlacesOK, HeldOK

(* A step takes one thread to another of its places and leaves the others  *)
(* where they are.                                                         *)
LEMMA Moving ==
  ASSUME PlacesOK, NEW t \in Threads, NEW from, NEW to, Move(t, from, to),
         t = MAIN => to \in MainPcs, t \in Workers => to \in WorkerPcs
  PROVE  /\ pc[t] = from /\ pc'[t] = to /\ ~ undefined
         /\ \A u \in Threads \ {t} : pc'[u] = pc[u]
         /\ PlacesOK'
BY LifeThreads DEF Move, Goto, PlacesOK, Threads

(* Where a thread goes with a model, and where without.                    *)
WithModel(t) == IF t = MAIN THEN "infer" ELSE "run"
NoModel(t) == IF t = MAIN THEN "done" ELSE "failed"

(* The three updates of g_init_count, each a load and a store.             *)
Load(w) == \/ LoadCount(w, "start", "up")
           \/ LoadCount(w, "failed", "back")
           \/ LoadCount(w, "released", "down")

StoreUp(w) ==
  StoreCount(w, "up", IF seen[w] = 0 THEN "label" ELSE "model", seen[w] + 1)

StoreDown(w) ==
  \/ StoreCount(w, "back", "done", seen[w] - 1)
  \/ StoreCount(w, "down", IF seen[w] = 1 THEN "unlabel" ELSE "done", seen[w] - 1)

(* The steps of Next, those alike for main and worker together.            *)
LEMMA Steps ==
  ASSUME [Next]_vars
  PROVE  \/ LoadMatrices \/ Allocate \/ Spawn \/ Leave \/ Join \/ Destroy
         \/ ReadImage \/ TestInfer
         \/ release_yolov8_model(MAIN, "giveup", "done")
         \/ release_yolov8_model(MAIN, "release", "unlabel")
         \/ \E t \in Threads : \/ init_post_process(t, "label", "model")
                               \/ deinit_post_process(t, "unlabel", "done")
                               \/ init_yolov8_model(t, "model", WithModel(t))
                               \/ ReadFails(t, "model", NoModel(t))
                               \/ RuntimeFails(t, "model", NoModel(t))
         \/ \E w \in Workers : \/ release_yolov8_model(w, "run", "released")
                               \/ Load(w) \/ StoreUp(w) \/ StoreDown(w)
         \/ UNCHANGED vars
<1>1. ASSUME NEW w \in Workers, Worker(w)
      PROVE  \/ init_post_process(w, "label", "model")
             \/ deinit_post_process(w, "unlabel", "done")
             \/ init_yolov8_model(w, "model", WithModel(w))
             \/ ReadFails(w, "model", NoModel(w))
             \/ RuntimeFails(w, "model", NoModel(w))
             \/ release_yolov8_model(w, "run", "released")
             \/ Load(w) \/ StoreUp(w) \/ StoreDown(w)
  <2> w # MAIN BY LifeThreads
  <2> QED BY <1>1, Zenon DEF Worker, CountUp, LoadModel, GiveUp, Stop, WithModel,
                             NoModel, Load, StoreUp, StoreDown
<1>2. ASSUME Test
      PROVE  \/ ReadImage \/ TestInfer
             \/ release_yolov8_model(MAIN, "giveup", "done")
             \/ release_yolov8_model(MAIN, "release", "unlabel")
             \/ init_post_process(MAIN, "label", "model")
             \/ deinit_post_process(MAIN, "unlabel", "done")
             \/ init_yolov8_model(MAIN, "model", WithModel(MAIN))
             \/ ReadFails(MAIN, "model", NoModel(MAIN))
             \/ RuntimeFails(MAIN, "model", NoModel(MAIN))
  BY <1>2, Zenon DEF Test, WithModel, NoModel
<1> MAIN \in Threads /\ Workers \subseteq Threads BY DEF Threads
<1> QED BY <1>1, <1>2, Zenon DEF Next, Terminated
-----------------------------------------------------------------------------
(* Every thread stays in its own places.                                   *)
LEMMA Placing ==
  ASSUME TypeOK, [Next]_vars PROVE PlacesOK'
<1> PlacesOK BY Parts
<1> MAIN \in Threads /\ MAIN \notin Workers /\ Workers \subseteq Threads
  BY LifeThreads DEF Threads
<1> USE DEF MainPcs, WorkerPcs
<1>1. CASE LoadMatrices BY <1>1, Moving DEF LoadMatrices
<1>2. CASE Allocate BY <1>2, Moving DEF Allocate
<1>3. CASE Spawn BY <1>3 DEF Spawn, PlacesOK, Threads
<1>4. CASE Leave BY <1>4, Moving DEF Leave
<1>5. CASE Join BY <1>5, Moving DEF Join
<1>6. CASE Destroy BY <1>6, Moving DEF Destroy
<1>7. CASE ReadImage \/ TestInfer BY <1>7, Moving DEF ReadImage, TestInfer
<1>8. CASE \/ release_yolov8_model(MAIN, "giveup", "done")
           \/ release_yolov8_model(MAIN, "release", "unlabel")
  BY <1>8, Moving DEF release_yolov8_model
<1>9. ASSUME NEW t \in Threads,
             \/ init_post_process(t, "label", "model")
             \/ deinit_post_process(t, "unlabel", "done")
             \/ init_yolov8_model(t, "model", WithModel(t))
             \/ ReadFails(t, "model", NoModel(t))
             \/ RuntimeFails(t, "model", NoModel(t))
      PROVE  PlacesOK'
  BY <1>9, Moving DEF init_post_process, deinit_post_process, init_yolov8_model,
                      ReadFails, RuntimeFails, WithModel, NoModel
<1>10. ASSUME NEW w \in Workers,
              \/ release_yolov8_model(w, "run", "released")
              \/ Load(w) \/ StoreUp(w) \/ StoreDown(w)
       PROVE  PlacesOK'
  BY <1>10, Moving DEF release_yolov8_model, Load, StoreUp, StoreDown, LoadCount,
                       StoreCount
<1>11. CASE UNCHANGED vars BY <1>11 DEF vars, PlacesOK
<1> QED BY <1>1, <1>2, <1>3, <1>4, <1>5, <1>6, <1>7, <1>8, <1>9, <1>10, <1>11,
           Steps
-----------------------------------------------------------------------------
LEMMA Holding ==
  ASSUME TypeOK, [Next]_vars PROVE HeldOK'
<1> USE LifeThreads, LifeBuffers DEF HeldOK, memory, count, model, Threads
<1> HeldOK BY Parts
<1>1. CASE LoadMatrices BY <1>1 DEF LoadMatrices
<1>2. CASE Allocate
  <2>1. PICK result \in {"ok", "open", "ioctl", "mmap"} : dma_buf_alloc(slot, result)
    BY <1>2 DEF Allocate
  <2>2. slot' \in 0 .. BufNum + 1 /\ undefined' \in BOOLEAN
    BY <1>2 DEF Allocate, Slots, Pool, Display
  <2>3. /\ alloc' \in [Slots -> Results]
        /\ fd' \in [Slots -> {"unset", "open", "closed"}]
        /\ heaps' \subseteq Slots /\ bufs' \subseteq Slots /\ maps' \subseteq Slots
    BY <1>2, <2>1 DEF Allocate, dma_buf_alloc, Results
  <2> QED BY <1>2, <2>2, <2>3 DEF Allocate
<1>3. CASE Spawn BY <1>3 DEF Spawn
<1>4. CASE Leave BY <1>4 DEF Leave
<1>5. CASE Join BY <1>5 DEF Join
<1>6. CASE Destroy
  <2>1. slot' \in 0 .. BufNum + 1 BY <1>6 DEF Destroy, Slots, Pool, Display
  <2>2. CASE fd[slot] = "closed" BY <1>6, <2>1, <2>2 DEF Destroy
  <2>3. CASE dma_buf_free(slot) BY <1>6, <2>1, <2>3 DEF Destroy, dma_buf_free
  <2> QED BY <1>6, <2>2, <2>3 DEF Destroy
<1>7. CASE ReadImage \/ TestInfer BY <1>7 DEF ReadImage, TestInfer, Inits
<1>8. ASSUME NEW t \in Threads, NEW from, NEW to, release_yolov8_model(t, from, to)
      PROVE  HeldOK'
  BY <1>8 DEF release_yolov8_model
<1>9. ASSUME NEW t \in Threads,
             \/ init_post_process(t, "label", "model")
             \/ deinit_post_process(t, "unlabel", "done")
             \/ init_yolov8_model(t, "model", WithModel(t))
             \/ ReadFails(t, "model", NoModel(t))
             \/ RuntimeFails(t, "model", NoModel(t))
      PROVE  HeldOK'
  BY <1>9 DEF init_post_process, deinit_post_process, init_yolov8_model, ReadFails,
              RuntimeFails, Inits
<1>10. ASSUME NEW w \in Workers, Load(w) \/ StoreUp(w) \/ StoreDown(w)
       PROVE  HeldOK'
  <2>1. CASE Load(w) BY <2>1 DEF Load, LoadCount
  <2>2. seen[w] - 1 \in Int /\ seen[w] + 1 \in Int OBVIOUS
  <2>3. CASE StoreUp(w) BY <2>2, <2>3 DEF StoreUp, StoreCount
  <2>4. CASE StoreDown(w) BY <2>2, <2>4 DEF StoreDown, StoreCount
  <2> QED BY <1>10, <2>1, <2>3, <2>4
<1>11. CASE UNCHANGED vars BY <1>11 DEF vars
<1> QED BY <1>1, <1>2, <1>3, <1>4, <1>5, <1>6, <1>7, <1>8, <1>9, <1>10, <1>11,
           Steps

(* Types are kept.                                                         *)
LEMMA Typing ==
  ASSUME TypeOK, [Next]_vars PROVE TypeOK'
BY Placing, Holding DEF TypeOK, PlacesOK, HeldOK
-----------------------------------------------------------------------------
(* Workers are born when main starts to show, and main goes on from its    *)
(* joins when all have ended.                                              *)
LEMMA Launching ==
  ASSUME TypeOK, Launched, [Next]_vars PROVE Launched'
<1> PlacesOK BY Parts
<1> MAIN \in Threads /\ MAIN \notin Workers /\ Workers \subseteq Threads
  BY LifeThreads DEF Threads
<1> USE DEF MainPcs, WorkerPcs, Launched
<1>1. CASE LoadMatrices BY <1>1, Moving DEF LoadMatrices
<1>2. CASE Allocate BY <1>2, Moving DEF Allocate
<1>3. CASE Spawn BY <1>3 DEF Spawn
<1>4. CASE Leave BY <1>4, Moving DEF Leave
<1>5. CASE Join BY <1>5, Moving DEF Join
<1>6. CASE Destroy BY <1>6, Moving DEF Destroy
<1>7. CASE ReadImage \/ TestInfer BY <1>7, Moving DEF ReadImage, TestInfer
<1>8. CASE \/ release_yolov8_model(MAIN, "giveup", "done")
           \/ release_yolov8_model(MAIN, "release", "unlabel")
  BY <1>8, Moving DEF release_yolov8_model
<1>9. ASSUME NEW t \in Threads,
             \/ init_post_process(t, "label", "model")
             \/ deinit_post_process(t, "unlabel", "done")
             \/ init_yolov8_model(t, "model", WithModel(t))
             \/ ReadFails(t, "model", NoModel(t))
             \/ RuntimeFails(t, "model", NoModel(t))
      PROVE  Launched'
  <2>1. PICK from, to :
          /\ Move(t, from, to) /\ from \in {"label", "model", "unlabel"}
          /\ t = MAIN => to \in MainPcs
          /\ t \in Workers => to \in WorkerPcs
    BY <1>9 DEF init_post_process, deinit_post_process, init_yolov8_model,
                ReadFails, RuntimeFails, WithModel, NoModel
  <2> QED BY <2>1, Moving DEF Threads
<1>10. ASSUME NEW w \in Workers,
              \/ release_yolov8_model(w, "run", "released")
              \/ Load(w) \/ StoreUp(w) \/ StoreDown(w)
       PROVE  Launched'
  <2>1. PICK from, to : /\ Move(w, from, to) /\ from \notin {"unborn", "done"}
                        /\ to \in WorkerPcs
    BY <1>10 DEF release_yolov8_model, Load, StoreUp, StoreDown, LoadCount,
                 StoreCount
  <2> QED BY <2>1, Moving
<1>11. CASE UNCHANGED vars BY <1>11 DEF vars
<1> QED BY <1>1, <1>2, <1>3, <1>4, <1>5, <1>6, <1>7, <1>8, <1>9, <1>10, <1>11,
           Steps
-----------------------------------------------------------------------------
(* Steps that leave the pool, and main's place in the dealings with it,    *)
(* alone.                                                                  *)
LEMMA PoolLeft ==
  ASSUME Memory, Progress, UNCHANGED memory, undefined => undefined',
         \/ pc'[MAIN] = pc[MAIN]
         \/ pc[MAIN] \in Poolless /\ pc'[MAIN] \in Poolless \ {"load"}
         \/ pc[MAIN] \in Poolless /\ pc'[MAIN] = "done"
  PROVE  Memory' /\ Progress'
BY DEF Memory, Progress, memory, Poolless, Slots, Pool, Display

(* What is open and mapped follows from how allocations ended and how far  *)
(* main is.                                                                *)
LEMMA Remembering ==
  ASSUME TypeOK, Memory, Progress, [Next]_vars PROVE Memory' /\ Progress'
<1> PlacesOK /\ HeldOK BY Parts
<1> MAIN \in Threads /\ MAIN \notin Workers /\ Workers \subseteq Threads
  BY LifeThreads DEF Threads
<1> USE LifeBuffers DEF MainPcs, WorkerPcs
<1>1. CASE LoadMatrices
  BY <1>1, Moving DEF LoadMatrices, Memory, Progress, memory, Poolless, Slots,
                      Pool, Display
<1>2. CASE Allocate
  <2>1. PICK result \in {"ok", "open", "ioctl", "mmap"} :
          /\ dma_buf_alloc(slot, result)
          /\ undefined' = (result # "ok" /\ slot \in Pool)
    BY <1>2 DEF Allocate
  <2>2. /\ slot \in Slots /\ slot' = slot + 1 /\ ~ undefined
        /\ pc[MAIN] = "alloc" /\ pc'[MAIN] = "alloc"
    BY <1>2, Moving DEF Allocate
  <2>3. alloc[slot] = "none" /\ fd[slot] # "open"
    BY <2>2 DEF Progress, Memory, Slots, Pool, Display
  <2>4. \A k \in Slots :
          /\ alloc'[k] = IF k = slot THEN result ELSE alloc[k]
          /\ fd'[k] = IF k = slot /\ result = "ok" THEN "open" ELSE fd[k]
    BY <2>1, <2>2 DEF dma_buf_alloc, HeldOK
  <2>5. /\ \A k \in Slots :
             /\ k \in heaps' <=> alloc'[k] \in {"ioctl", "mmap"}
             /\ k \in bufs' <=> alloc'[k] = "mmap" \/ fd'[k] = "open"
             /\ k \in maps' <=> fd'[k] = "open"
             /\ fd'[k] = "open" => alloc'[k] = "ok"
        /\ fd'[Display] # "unset"
    <3>1. ASSUME NEW k \in Slots, k # slot
          PROVE  /\ k \in heaps' <=> k \in heaps
                 /\ k \in bufs' <=> k \in bufs
                 /\ k \in maps' <=> k \in maps
      BY <2>1, <3>1 DEF dma_buf_alloc
    <3>2. /\ slot \in heaps' <=> result \in {"ioctl", "mmap"}
          /\ slot \in bufs' <=> result \in {"mmap", "ok"}
          /\ slot \in maps' <=> result = "ok"
      BY <2>1, <2>2, <2>3 DEF dma_buf_alloc, Memory
    <3> QED BY <2>2, <2>3, <2>4, <3>1, <3>2 DEF Memory, Slots, Pool, Display
  <2>6. ~ undefined' => \A k \in Pool : alloc'[k] \in {"none", "ok"}
    BY <2>1, <2>2, <2>4 DEF Memory, Slots, Pool, Display
  <2>7. Memory' BY <2>5, <2>6 DEF Memory, Slots, Pool, Display
  <2>8. \A k \in Slots : k >= slot' => alloc'[k] = "none"
    BY <2>2, <2>4 DEF Progress, Slots, Pool, Display
  <2>9. ASSUME ~ undefined', NEW k \in Pool, k < slot' PROVE fd'[k] = "open"
    <3>1. k \in Slots /\ (k = slot \/ k < slot)
      BY <2>2, <2>9 DEF Slots, Pool, Display
    <3>2. k = slot => result = "ok" BY <2>1, <2>9
    <3> QED BY <2>2, <2>4, <2>9, <3>1, <3>2 DEF Progress
  <2>10. Progress' BY <2>2, <2>8, <2>9 DEF Progress, Poolless
  <2> QED BY <2>7, <2>10
<1>3. CASE Spawn
  BY <1>3 DEF Spawn, Memory, Progress, memory, Poolless, Slots, Pool, Display,
              HeldOK
<1>4. CASE Leave
  BY <1>4, Moving DEF Leave, Memory, Progress, memory, Poolless, Slots, Pool,
                      Display
<1>5. CASE Join
  BY <1>5, Moving DEF Join, Memory, Progress, Poolless, Slots, Pool, Display
<1>6. CASE Destroy
  <2>1. /\ slot \in Slots /\ slot' = slot + 1 /\ pc[MAIN] = "destroy"
        /\ pc'[MAIN] = IF slot = Display THEN "done" ELSE "destroy"
    BY <1>6, Moving DEF Destroy
  <2>2. \A k \in Slots : fd'[k] = IF k = slot THEN "closed" ELSE fd[k]
    BY <1>6 DEF Destroy, dma_buf_free, HeldOK
  <2>3. fd[slot] = "closed" \/ fd[slot] = "open"
    BY <2>1 DEF Progress, Memory, HeldOK, Slots, Pool, Display
  <2>4. Memory'
    <3>1. CASE fd[slot] = "closed"
      <4>1. UNCHANGED <<fd, bufs, maps, alloc, heaps, undefined>>
        BY <1>6, <3>1 DEF Destroy
      <4> QED BY <4>1 DEF Memory
    <3>2. CASE fd[slot] = "open"
      <4>1. dma_buf_free(slot) BY <1>6, <3>2 DEF Destroy
      <4>2. alloc' = alloc /\ heaps' = heaps /\ undefined' = undefined
        BY <1>6 DEF Destroy
      <4>3. \A k \in Slots : /\ k \in bufs' <=> k \in bufs /\ k # slot
                             /\ k \in maps' <=> k \in maps /\ k # slot
        BY <4>1 DEF dma_buf_free
      <4>4. Display \in Slots /\ Pool \subseteq Slots BY DEF Slots, Pool
      <4>5. alloc[slot] = "ok" BY <2>1, <3>2 DEF Memory
      <4>6. \A k \in Slots :
              /\ k \in heaps' <=> alloc'[k] \in {"ioctl", "mmap"}
              /\ k \in bufs' <=> alloc'[k] = "mmap" \/ fd'[k] = "open"
              /\ k \in maps' <=> fd'[k] = "open"
              /\ fd'[k] = "open" => alloc'[k] = "ok"
        BY <2>1, <2>2, <4>2, <4>3, <4>5 DEF Memory
      <4>7. fd'[Display] # "unset" BY <2>1, <2>2, <4>4 DEF Memory
      <4>8. ~ undefined' => \A k \in Pool : alloc'[k] \in {"none", "ok"}
        BY <4>2 DEF Memory
      <4> QED BY <4>6, <4>7, <4>8 DEF Memory
    <3> QED BY <2>3, <3>1, <3>2
  <2>5. Progress' BY <2>1, <2>2 DEF Progress, Poolless, Slots, Pool, Display, HeldOK
  <2> QED BY <2>4, <2>5
<1>7. CASE ReadImage \/ TestInfer
  BY <1>7, Moving, PoolLeft DEF ReadImage, TestInfer, Poolless
<1>8. CASE \/ release_yolov8_model(MAIN, "giveup", "done")
           \/ release_yolov8_model(MAIN, "release", "unlabel")
  BY <1>8, Moving, PoolLeft DEF release_yolov8_model, Poolless
<1>9. ASSUME NEW t \in Threads,
             \/ init_post_process(t, "label", "model")
             \/ deinit_post_process(t, "unlabel", "done")
             \/ init_yolov8_model(t, "model", WithModel(t))
             \/ ReadFails(t, "model", NoModel(t))
             \/ RuntimeFails(t, "model", NoModel(t))
      PROVE  Memory' /\ Progress'
  <2>1. UNCHANGED memory
    BY <1>9 DEF init_post_process, deinit_post_process, init_yolov8_model,
                ReadFails, RuntimeFails
  <2>2. PICK from, to :
          /\ Move(t, from, to) /\ from \in {"label", "model", "unlabel"}
          /\ t = MAIN => to \in {"model", "infer", "done"}
          /\ t \in Workers => to \in WorkerPcs
    BY <1>9 DEF init_post_process, deinit_post_process, init_yolov8_model,
                ReadFails, RuntimeFails, WithModel, NoModel
  <2>3. \/ pc'[MAIN] = pc[MAIN]
        \/ pc[MAIN] \in Poolless /\ pc'[MAIN] \in {"model", "infer", "done"}
    BY <2>2, Moving DEF Poolless
  <2>4. ~ undefined BY <2>2, Moving
  <2> QED BY <2>1, <2>3, <2>4, PoolLeft DEF Poolless
<1>10. ASSUME NEW w \in Workers,
              \/ release_yolov8_model(w, "run", "released")
              \/ Load(w) \/ StoreUp(w) \/ StoreDown(w)
       PROVE  Memory' /\ Progress'
  <2>1. UNCHANGED memory
    BY <1>10 DEF release_yolov8_model, Load, StoreUp, StoreDown, LoadCount, StoreCount
  <2>2. PICK from, to : Move(w, from, to) /\ to \in WorkerPcs
    BY <1>10 DEF release_yolov8_model, Load, StoreUp, StoreDown, LoadCount,
                 StoreCount
  <2>3. pc'[MAIN] = pc[MAIN] /\ ~ undefined BY <2>2, Moving
  <2> QED BY <2>1, <2>3, PoolLeft
<1>11. CASE UNCHANGED vars BY <1>11, PoolLeft DEF vars
<1> QED BY <1>1, <1>2, <1>3, <1>4, <1>5, <1>6, <1>7, <1>8, <1>9, <1>10, <1>11,
           Steps
-----------------------------------------------------------------------------
(* Steps that leave the models alone and take no thread into or out of a   *)
(* place with a model.                                                     *)
LEMMA ModelsLeft ==
  ASSUME Models, UNCHANGED <<init, contexts, app>>,
         \A w \in Workers :
           \/ pc'[w] = pc[w]
           \/ /\ pc[w] \in {"unborn", "start", "up", "label"}
              /\ pc'[w] \in {"start", "up", "label", "model"}
           \/ /\ pc[w] \in {"failed", "back", "released", "down", "unlabel"}
              /\ pc'[w] \in {"back", "down", "unlabel", "done"},
         \/ pc'[MAIN] = pc[MAIN]
         \/ pc'[MAIN] \in {"alloc", "show", "join", "destroy", "done"}
            /\ pc[MAIN] \notin {"infer", "giveup", "release"}
         \/ pc[MAIN] \in {"read", "label"} /\ pc'[MAIN] \in {"label", "model"}
         \/ pc[MAIN] = "infer" /\ pc'[MAIN] = "release"
  PROVE  Models'
BY LifeThreads DEF Models, Loaded, Threads

(* Which contexts are open, and which threads have one to use.             *)
LEMMA Modelling ==
  ASSUME TypeOK, Launched, Models, [Next]_vars PROVE Models'
<1> PlacesOK /\ HeldOK BY Parts
<1> MAIN \in Threads /\ MAIN \notin Workers /\ Workers \subseteq Threads
  BY LifeThreads DEF Threads
<1> \A w \in Workers : w # MAIN OBVIOUS
<1> USE DEF MainPcs, WorkerPcs
<1>1. CASE LoadMatrices BY <1>1, Moving, ModelsLeft DEF LoadMatrices, model
<1>2. CASE Allocate BY <1>2, Moving, ModelsLeft DEF Allocate, model
<1>3. CASE Spawn
  <2>1. pc'[MAIN] = "show" /\ pc[MAIN] = "alloc" BY <1>3 DEF Spawn
  <2>2. \A w \in Workers : pc'[w] = "start" /\ pc[w] = "unborn"
    BY <1>3, <2>1 DEF Spawn, Launched
  <2> QED BY <1>3, <2>1, <2>2, ModelsLeft DEF Spawn, model
<1>4. CASE Leave BY <1>4, Moving, ModelsLeft DEF Leave, model
<1>5. CASE Join BY <1>5, Moving, ModelsLeft DEF Join, model
<1>6. CASE Destroy BY <1>6, Moving, ModelsLeft DEF Destroy, model
<1>7. CASE ReadImage BY <1>7, Moving, ModelsLeft DEF ReadImage, model
<1>8. CASE TestInfer
  <2>1. CASE Move(MAIN, "infer", "release") /\ UNCHANGED init
    BY <1>8, <2>1, Moving, ModelsLeft DEF TestInfer
  <2>2. CASE Move(MAIN, "infer", "giveup")
             /\ init' = [init EXCEPT ![MAIN] = "inference"]
    <3>1. /\ pc[MAIN] = "infer" /\ pc'[MAIN] = "giveup"
          /\ \A w \in Workers : pc'[w] = pc[w]
      BY <2>2, Moving
    <3>2. /\ init'[MAIN] = "inference"
          /\ \A t \in Threads \ {MAIN} : init'[t] = init[t]
      BY <2>2 DEF HeldOK
    <3>3. Loaded' = Loaded BY <3>1 DEF Loaded
    <3>4. {t \in Threads : init'[t] = "query"} = {t \in Threads : init[t] = "query"}
      BY <3>1, <3>2 DEF Models
    <3> QED BY <1>8, <3>1, <3>2, <3>3, <3>4 DEF TestInfer, Models
  <2> QED BY <1>8, <2>1, <2>2 DEF TestInfer
<1>9. ASSUME NEW t \in Threads, NEW from, NEW to, release_yolov8_model(t, from, to),
             \/ t # MAIN /\ from = "run" /\ to = "released"
             \/ t = MAIN /\ from = "giveup" /\ to = "done"
             \/ t = MAIN /\ from = "release" /\ to = "unlabel"
      PROVE  Models'
  <2>1. /\ pc[t] = from /\ pc'[t] = to
        /\ \A u \in Threads \ {t} : pc'[u] = pc[u]
    BY <1>9, Moving DEF release_yolov8_model
  <2>2. t \in app /\ init[t] # "query"
    BY <1>9, <2>1 DEF Models, Loaded, Threads
  <2>3. app' = app \ {t} /\ contexts' = contexts \ {t} /\ init' = init
    BY <1>9, <2>2 DEF release_yolov8_model
  <2>4. Loaded' = Loaded \ {t} BY <1>9, <2>1 DEF Loaded, Threads
  <2>5. contexts' = app' \cup {u \in Threads : init'[u] = "query"}
    BY <2>2, <2>3 DEF Models
  <2> QED BY <1>9, <2>1, <2>3, <2>4, <2>5 DEF Models, Threads
<1>10. ASSUME NEW t \in Threads,
              \/ init_post_process(t, "label", "model")
              \/ deinit_post_process(t, "unlabel", "done")
       PROVE  Models'
  <2>1. /\ \/ pc[t] = "label" /\ pc'[t] = "model"
           \/ pc[t] = "unlabel" /\ pc'[t] = "done"
        /\ \A u \in Threads \ {t} : pc'[u] = pc[u]
    BY <1>10, Moving DEF init_post_process, deinit_post_process
  <2>2. UNCHANGED <<init, contexts, app>>
    BY <1>10 DEF init_post_process, deinit_post_process
  <2> QED BY <2>1, <2>2, ModelsLeft DEF Threads
<1>11. ASSUME NEW t \in Threads, init_yolov8_model(t, "model", WithModel(t))
       PROVE  Models'
  <2>1. /\ pc[t] = "model" /\ pc'[t] = WithModel(t)
        /\ \A u \in Threads \ {t} : pc'[u] = pc[u]
    BY <1>11, Moving DEF init_yolov8_model, WithModel
  <2>2. init[t] = "none" BY <2>1 DEF Models, Threads
  <2>3. /\ app' = app \cup {t} /\ contexts' = contexts \cup {t}
        /\ init'[t] = "ok" /\ \A u \in Threads \ {t} : init'[u] = init[u]
    BY <1>11 DEF init_yolov8_model, HeldOK
  <2>4. Loaded' = Loaded \cup {t} BY <2>1 DEF Loaded, Threads, WithModel
  <2>5. {u \in Threads : init'[u] = "query"} = {u \in Threads : init[u] = "query"}
    BY <2>2, <2>3
  <2> QED BY <2>1, <2>3, <2>4, <2>5 DEF Models, Threads, WithModel
<1>12. ASSUME NEW t \in Threads,
              \/ ReadFails(t, "model", NoModel(t))
              \/ RuntimeFails(t, "model", NoModel(t))
       PROVE  Models'
  <2>1. /\ pc[t] = "model" /\ pc'[t] = NoModel(t)
        /\ \A u \in Threads \ {t} : pc'[u] = pc[u]
    BY <1>12, Moving DEF ReadFails, RuntimeFails, NoModel
  <2>2. init[t] = "none" BY <2>1 DEF Models, Threads
  <2>3. PICK r \in {"read", "rknn_init", "query"} :
          /\ init' = [init EXCEPT ![t] = r] /\ app' = app
          /\ contexts' = IF r = "query" THEN contexts \cup {t} ELSE contexts
    BY <1>12 DEF ReadFails, RuntimeFails
  <2>4. init'[t] = r /\ \A u \in Threads \ {t} : init'[u] = init[u]
    BY <2>3 DEF HeldOK
  <2>5. Loaded' = Loaded BY <2>1 DEF Loaded, Threads, NoModel
  <2>6. contexts' = app' \cup {u \in Threads : init'[u] = "query"}
    BY <2>2, <2>3, <2>4 DEF Models
  <2> QED BY <2>1, <2>3, <2>4, <2>5, <2>6 DEF Models, Threads, NoModel
<1>13. ASSUME NEW w \in Workers, Load(w) \/ StoreUp(w) \/ StoreDown(w)
       PROVE  Models'
  <2>1. /\ \/ pc[w] \in {"start", "up"} /\ pc'[w] \in {"up", "label", "model"}
           \/ /\ pc[w] \in {"failed", "back", "released", "down"}
              /\ pc'[w] \in {"back", "down", "unlabel", "done"}
        /\ \A u \in Threads \ {w} : pc'[u] = pc[u]
    BY <1>13, Moving DEF Load, StoreUp, StoreDown, LoadCount, StoreCount
  <2>2. UNCHANGED <<init, contexts, app>>
    BY <1>13 DEF Load, StoreUp, StoreDown, LoadCount, StoreCount, model
  <2> QED BY <2>1, <2>2, ModelsLeft
<1>14. CASE UNCHANGED vars BY <1>14, ModelsLeft DEF vars, model
<1> QED
  <2>1. \/ release_yolov8_model(MAIN, "giveup", "done")
        \/ release_yolov8_model(MAIN, "release", "unlabel")
        => Models'
    BY <1>9
  <2>2. \A w \in Workers : release_yolov8_model(w, "run", "released") => Models'
    BY <1>9
  <2> QED BY <1>1, <1>2, <1>3, <1>4, <1>5, <1>6, <1>7, <1>8, <1>10, <1>11, <1>12,
             <1>13, <1>14, <2>1, <2>2, Steps
-----------------------------------------------------------------------------
(* Main has the label table it filled until it frees it, or to the end if  *)
(* it gave up before.                                                      *)
LEMMA Labelling ==
  ASSUME TypeOK, Models, MainsLabels, [Next]_vars PROVE MainsLabels'
<1> PlacesOK /\ HeldOK BY Parts
<1> MAIN \in Threads /\ MAIN \notin Workers /\ Workers \subseteq Threads
  BY LifeThreads DEF Threads
<1> \A w \in Workers : w # MAIN OBVIOUS
<1> USE DEF MainPcs, WorkerPcs
<1>1. CASE LoadMatrices BY <1>1, Moving DEF LoadMatrices, model, MainsLabels
<1>2. CASE Allocate BY <1>2, Moving DEF Allocate, model, MainsLabels
<1>3. CASE Spawn BY <1>3 DEF Spawn, model, MainsLabels
<1>4. CASE Leave BY <1>4, Moving DEF Leave, model, MainsLabels
<1>5. CASE Join BY <1>5, Moving DEF Join, model, MainsLabels
<1>6. CASE Destroy BY <1>6, Moving DEF Destroy, model, MainsLabels
<1>7. CASE ReadImage BY <1>7, Moving DEF ReadImage, model, MainsLabels
<1>8. CASE TestInfer BY <1>8, Moving DEF TestInfer, MainsLabels
<1>9. CASE \/ release_yolov8_model(MAIN, "giveup", "done")
           \/ release_yolov8_model(MAIN, "release", "unlabel")
  BY <1>9, Moving DEF release_yolov8_model, MainsLabels, Models
<1>10. ASSUME NEW t \in Threads,
              \/ init_post_process(t, "label", "model")
              \/ deinit_post_process(t, "unlabel", "done")
       PROVE  MainsLabels'
  BY <1>10, Moving DEF init_post_process, deinit_post_process, MainsLabels, Threads
<1>11. ASSUME NEW t \in Threads, init_yolov8_model(t, "model", WithModel(t))
       PROVE  MainsLabels'
  BY <1>11, Moving DEF init_yolov8_model, WithModel, HeldOK, MainsLabels, Threads
<1>12. ASSUME NEW t \in Threads,
              \/ ReadFails(t, "model", NoModel(t))
              \/ RuntimeFails(t, "model", NoModel(t))
       PROVE  MainsLabels'
  BY <1>12, Moving DEF ReadFails, RuntimeFails, NoModel, HeldOK, MainsLabels, Threads
<1>13. ASSUME NEW w \in Workers,
              \/ release_yolov8_model(w, "run", "released")
              \/ Load(w) \/ StoreUp(w) \/ StoreDown(w)
       PROVE  MainsLabels'
  <2>1. UNCHANGED <<labels, filled, init>>
    BY <1>13 DEF release_yolov8_model, Load, StoreUp, StoreDown, LoadCount, StoreCount, model
  <2>2. pc'[MAIN] = pc[MAIN]
    BY <1>13, Moving DEF release_yolov8_model, Load, StoreUp, StoreDown, LoadCount,
                         StoreCount
  <2> QED BY <2>1, <2>2 DEF MainsLabels
<1>14. CASE UNCHANGED vars BY <1>14 DEF vars, model, MainsLabels
<1> QED BY <1>1, <1>2, <1>3, <1>4, <1>5, <1>6, <1>7, <1>8, <1>9, <1>10, <1>11,
           <1>12, <1>13, <1>14, Steps
-----------------------------------------------------------------------------
(* Steps that leave labels, models and count alone, and take no worker     *)
(* over an edge that Tables is about.                                      *)
LEMMA TablesLeft ==
  ASSUME Tables, UNCHANGED <<labels, filled, init, raced, last>>,
         \A w \in Workers :
           \/ pc'[w] = pc[w]
           \/ pc[w] \in {"unborn", "start", "up"}
              /\ pc'[w] \in {"start", "up", "label", "model"}
  PROVE  Tables'
BY DEF Tables, Table

(* A step about one thread leaves what Tables says of the other workers.   *)
LEMMA OtherTables ==
  ASSUME Tables, NEW t, raced => raced',
         \A w \in Workers \ {t} :
           /\ pc'[w] = pc[w] /\ init'[w] = init[w]
           /\ w \in labels' <=> w \in labels
           /\ w \in filled' <=> w \in filled
           /\ w \in last' <=> w \in last,
         t \in Workers => Table(t)'
  PROVE  Tables'
BY DEF Tables, Table

LEMMA CountedFinite == IsFiniteSet(Counted)
BY LifeThreads, FS_Subset DEF Counted

(* Who has a label table, and who freed it.                                *)
LEMMA Tabling ==
  ASSUME TypeOK, Launched, Models, Tables, Counting, [Next]_vars
  PROVE  Tables'
<1> PlacesOK /\ HeldOK BY Parts
<1> MAIN \in Threads /\ MAIN \notin Workers /\ Workers \subseteq Threads
  BY LifeThreads DEF Threads
<1> \A w \in Workers : w # MAIN OBVIOUS
<1> USE DEF MainPcs, WorkerPcs
<1>1. CASE LoadMatrices BY <1>1, Moving, TablesLeft DEF LoadMatrices, model, count
<1>2. CASE Allocate BY <1>2, Moving, TablesLeft DEF Allocate, model, count
<1>3. CASE Spawn
  <2>1. \A w \in Workers : pc'[w] = "start" /\ pc[w] = "unborn"
    BY <1>3 DEF Spawn, Launched
  <2> QED BY <1>3, <2>1, TablesLeft DEF Spawn, model, count
<1>4. CASE Leave BY <1>4, Moving, TablesLeft DEF Leave, model, count
<1>5. CASE Join BY <1>5, Moving, TablesLeft DEF Join, model, count
<1>6. CASE Destroy BY <1>6, Moving, TablesLeft DEF Destroy, model, count
<1>7. CASE ReadImage BY <1>7, Moving, TablesLeft DEF ReadImage, model, count
<1>8. CASE TestInfer
  <2>1. /\ UNCHANGED <<labels, filled, raced, last>>
        /\ \A w \in Workers : pc'[w] = pc[w] /\ init'[w] = init[w]
    BY <1>8, Moving DEF TestInfer, count, HeldOK
  <2> QED BY <2>1, OtherTables
<1>9. ASSUME NEW t \in Threads, NEW from, NEW to, release_yolov8_model(t, from, to),
             t \in Workers => from = "run" /\ to = "released",
             t = MAIN => to \in MainPcs
      PROVE  Tables'
  <2>1. /\ pc[t] = from /\ pc'[t] = to
        /\ \A u \in Threads \ {t} : pc'[u] = pc[u]
        /\ UNCHANGED <<labels, filled, init, raced, last>>
    BY <1>9, Moving DEF release_yolov8_model, count
  <2>2. t \in Workers => Table(t)' BY <1>9, <2>1 DEF Tables, Table, Models
  <2> QED BY <2>1, <2>2, OtherTables
<1>10. ASSUME NEW t \in Threads, init_post_process(t, "label", "model")
       PROVE  Tables'
  <2>1. /\ pc[t] = "label" /\ pc'[t] = "model"
        /\ \A u \in Threads \ {t} : pc'[u] = pc[u]
        /\ UNCHANGED <<init, raced, last>>
        /\ \/ labels' = labels \cup {t} /\ filled' = filled \cup {t}
           \/ UNCHANGED <<labels, filled>>
    BY <1>10, Moving DEF init_post_process, count
  <2>2. t \in Workers => Table(t)' BY <2>1 DEF Tables, Table
  <2> QED BY <2>1, <2>2, OtherTables
<1>11. ASSUME NEW t \in Threads, deinit_post_process(t, "unlabel", "done")
       PROVE  Tables'
  <2>1. /\ pc[t] = "unlabel" /\ pc'[t] = "done"
        /\ \A u \in Threads \ {t} : pc'[u] = pc[u]
        /\ UNCHANGED <<filled, init, raced, last>>
        /\ labels' = labels \ {t}
    BY <1>11, Moving DEF deinit_post_process, count
  <2>2. t \in Workers => Table(t)' BY <2>1 DEF Tables, Table
  <2> QED BY <2>1, <2>2, OtherTables
<1>12. ASSUME NEW t \in Threads,
              \/ init_yolov8_model(t, "model", WithModel(t))
              \/ ReadFails(t, "model", NoModel(t))
              \/ RuntimeFails(t, "model", NoModel(t))
       PROVE  Tables'
  <2>1. /\ pc[t] = "model"
        /\ \A u \in Threads \ {t} : pc'[u] = pc[u]
        /\ UNCHANGED <<labels, filled, raced, last>>
    BY <1>12, Moving DEF init_yolov8_model, ReadFails, RuntimeFails, WithModel,
                         NoModel, count
  <2>2. /\ \A u \in Threads \ {t} : init'[u] = init[u]
        /\ \/ pc'[t] = WithModel(t)
           \/ pc'[t] = NoModel(t) /\ init'[t] # "ok"
    BY <1>12, Moving DEF init_yolov8_model, ReadFails, RuntimeFails, WithModel,
                         NoModel, HeldOK
  <2>3. t \in Workers => Table(t)'
    BY <2>1, <2>2 DEF Tables, Table, WithModel, NoModel
  <2> QED BY <2>1, <2>2, <2>3, OtherTables
<1>13. ASSUME NEW w \in Workers, Load(w) PROVE Tables'
  <2>1. /\ \/ pc[w] = "start" /\ pc'[w] = "up"
           \/ pc[w] = "failed" /\ pc'[w] = "back"
           \/ pc[w] = "released" /\ pc'[w] = "down"
        /\ \A u \in Threads \ {w} : pc'[u] = pc[u]
        /\ UNCHANGED <<labels, filled, init, last>>
        /\ raced => raced'
    BY <1>13, Moving DEF Load, LoadCount, model
  <2>2. Table(w)' BY <2>1 DEF Tables, Table
  <2> QED BY <2>1, <2>2, OtherTables
<1>14. ASSUME NEW w \in Workers, StoreUp(w) PROVE Tables'
  <2>1. /\ pc[w] = "up" /\ pc'[w] \in {"label", "model"}
        /\ \A u \in Threads \ {w} : pc'[u] = pc[u]
        /\ UNCHANGED <<labels, filled, init, raced>>
        /\ last' = IF Counted = {w} THEN last \cup {w} ELSE last
    BY <1>14, Moving DEF StoreUp, StoreCount, model
  <2>2. w \notin Counted BY <2>1 DEF Counted
  <2>3. last' = last BY <2>1, <2>2
  <2> QED BY <2>1, <2>3, TablesLeft
<1>15. ASSUME NEW w \in Workers, StoreDown(w) PROVE Tables'
  <2>1. /\ \/ pc[w] = "back" /\ pc'[w] = "done"
           \/ /\ pc[w] = "down"
              /\ pc'[w] = IF seen[w] = 1 THEN "unlabel" ELSE "done"
        /\ \A u \in Threads \ {w} : pc'[u] = pc[u]
        /\ UNCHANGED <<labels, filled, init, raced>>
        /\ last' = IF Counted = {w} THEN last \cup {w} ELSE last
    BY <1>15, Moving DEF StoreDown, StoreCount, model
  <2>2. w \in Counted /\ w \notin last BY <2>1 DEF Counted, Tables, Table
  <2>3. ~ raced => (seen[w] = 1 <=> Counted = {w})
    <3>1. ~ raced => seen[w] = Cardinality(Counted)
      BY <2>1 DEF Counting, Updating
    <3>2. Cardinality(Counted) = 1 <=> \E x : Counted = {x}
      BY CountedFinite, FS_Singleton
    <3> QED BY <2>2, <3>1, <3>2
  <2>4. w \in last' <=> Counted = {w} BY <2>1, <2>2
  <2>5. Table(w)' BY <2>1, <2>2, <2>3, <2>4 DEF Tables, Table
  <2> QED BY <2>1, <2>5, OtherTables
<1>16. CASE UNCHANGED vars BY <1>16, TablesLeft DEF vars, model, count
<1> QED
  <2>1. \/ release_yolov8_model(MAIN, "giveup", "done")
        \/ release_yolov8_model(MAIN, "release", "unlabel")
        => Tables'
    BY <1>9
  <2>2. \A w \in Workers : release_yolov8_model(w, "run", "released") => Tables'
    BY <1>9
  <2> QED BY <1>1, <1>2, <1>3, <1>4, <1>5, <1>6, <1>7, <1>8, <1>10, <1>11, <1>12,
             <1>13, <1>14, <1>15, <1>16, <2>1, <2>2, Steps
-----------------------------------------------------------------------------
(* Steps that leave the count alone, and take no worker over the edge of   *)
(* those that count or of an update.                                       *)
LEMMA CountLeft ==
  ASSUME Counting, UNCHANGED count, labels' \cap Workers \subseteq labels,
         \A w \in Workers :
           \/ pc'[w] = pc[w]
           \/ pc[w] = "unborn" /\ pc'[w] = "start"
           \/ /\ pc[w] \in {"label", "model", "run"}
              /\ pc'[w] \in {"model", "run", "failed", "released"}
           \/ pc[w] = "unlabel" /\ pc'[w] = "done"
  PROVE  Counting'
<1>1. Counted' = Counted BY DEF Counted
<1>2. Carriers' \subseteq Carriers BY <1>1 DEF Carriers, Counted
<1>3. \A w \in Workers : pc'[w] \in Updating <=> pc[w] \in Updating BY DEF Updating
<1> QED BY <1>1, <1>2, <1>3 DEF Counting, count

(* While no two updates have met the count is right, and the one worker    *)
(* that found it zero has the one table.                                   *)
LEMMA CountKept ==
  ASSUME TypeOK, Launched, Counting, [Next]_vars PROVE Counting'
<1> PlacesOK /\ HeldOK BY Parts
<1> MAIN \in Threads /\ MAIN \notin Workers /\ Workers \subseteq Threads
  BY LifeThreads DEF Threads
<1> \A w \in Workers : w # MAIN OBVIOUS
<1> USE DEF MainPcs, WorkerPcs
<1>1. CASE LoadMatrices BY <1>1, Moving, CountLeft DEF LoadMatrices, model
<1>2. CASE Allocate BY <1>2, Moving, CountLeft DEF Allocate, model
<1>3. CASE Spawn
  <2>1. \A w \in Workers : pc'[w] = "start" /\ pc[w] = "unborn"
    BY <1>3 DEF Spawn, Launched
  <2> QED BY <1>3, <2>1, CountLeft DEF Spawn, model
<1>4. CASE Leave BY <1>4, Moving, CountLeft DEF Leave, model
<1>5. CASE Join BY <1>5, Moving, CountLeft DEF Join, model
<1>6. CASE Destroy BY <1>6, Moving, CountLeft DEF Destroy, model
<1>7. CASE ReadImage BY <1>7, Moving, CountLeft DEF ReadImage, model
<1>8. CASE TestInfer BY <1>8, Moving, CountLeft DEF TestInfer
<1>9. ASSUME NEW t \in Threads, NEW from, NEW to, release_yolov8_model(t, from, to),
             \/ t # MAIN /\ from = "run" /\ to = "released"
             \/ t = MAIN /\ from = "giveup" /\ to = "done"
             \/ t = MAIN /\ from = "release" /\ to = "unlabel"
      PROVE  Counting'
  BY <1>9, Moving, CountLeft DEF release_yolov8_model, Threads
<1>10. ASSUME NEW t \in Threads, init_post_process(t, "label", "model")
       PROVE  Counting'
  <2>1. /\ pc[t] = "label" /\ pc'[t] = "model" /\ UNCHANGED count
        /\ \A u \in Threads \ {t} : pc'[u] = pc[u]
        /\ labels' \subseteq labels \cup {t}
    BY <1>10, Moving DEF init_post_process
  <2>2. Counted' = Counted BY <2>1 DEF Counted
  <2>3. Carriers' \subseteq Carriers BY <2>1, <2>2 DEF Carriers, Counted
  <2>4. \A w \in Workers : pc'[w] \in Updating <=> pc[w] \in Updating
    BY <2>1 DEF Updating
  <2>5. \A w \in Workers : pc'[w] \in {"unborn", "start", "up"} => w \notin labels'
    BY <2>1 DEF Counting
  <2> QED BY <2>1, <2>2, <2>3, <2>4, <2>5 DEF Counting, count
<1>11. ASSUME NEW t \in Threads,
              \/ deinit_post_process(t, "unlabel", "done")
              \/ init_yolov8_model(t, "model", WithModel(t))
              \/ ReadFails(t, "model", NoModel(t))
              \/ RuntimeFails(t, "model", NoModel(t))
       PROVE  Counting'
  <2>1. UNCHANGED count /\ labels' \subseteq labels
    BY <1>11 DEF deinit_post_process, init_yolov8_model, ReadFails, RuntimeFails
  <2>2. /\ \/ t = MAIN
           \/ pc[t] = "model" /\ pc'[t] \in {"run", "failed"}
           \/ pc[t] = "unlabel" /\ pc'[t] = "done"
        /\ \A u \in Threads \ {t} : pc'[u] = pc[u]
    BY <1>11, Moving DEF deinit_post_process, init_yolov8_model, ReadFails,
                         RuntimeFails, WithModel, NoModel
  <2> QED BY <2>1, <2>2, CountLeft
<1>12. ASSUME NEW w \in Workers, Load(w) PROVE Counting'
  <2>1. PICK to \in {"up", "back", "down"} :
          /\ pc[w] = IF to = "up" THEN "start" ELSE IF to = "back" THEN "failed"
                     ELSE "released"
          /\ pc'[w] = to
          /\ \A u \in Threads \ {w} : pc'[u] = pc[u]
    BY <1>12, Moving DEF Load, LoadCount
  <2>2. /\ seen' = [seen EXCEPT ![w] = g_init_count]
        /\ raced' = (raced \/ \E v \in Workers : pc[v] \in Updating)
        /\ g_init_count' = g_init_count /\ labels' = labels
    BY <1>12 DEF Load, LoadCount, model
  <2>3. Counted' = Counted BY <2>1 DEF Counted
  <2>4. Carriers' = Carriers BY <2>1, <2>2, <2>3 DEF Carriers, Counted
  <2>5. \A v \in Workers : pc'[v] \in {"unborn", "start", "up"} => v \notin labels'
    BY <2>1, <2>2 DEF Counting
  <2>6. ASSUME ~ raced'
        PROVE  /\ ~ raced
               /\ \A v \in Workers : pc'[v] \in Updating <=> v = w
               /\ seen'[w] = g_init_count'
    <3>1. ~ raced /\ \A v \in Workers : pc[v] \notin Updating BY <2>2, <2>6
    <3> QED BY <2>1, <2>2, <3>1 DEF Updating, HeldOK
  <2> QED BY <2>2, <2>3, <2>4, <2>5, <2>6 DEF Counting
<1>13. ASSUME NEW w \in Workers, StoreUp(w) PROVE Counting'
  <2>1. /\ pc[w] = "up"
        /\ pc'[w] = IF seen[w] = 0 THEN "label" ELSE "model"
        /\ \A u \in Threads \ {w} : pc'[u] = pc[u]
        /\ g_init_count' = seen[w] + 1
        /\ UNCHANGED <<seen, raced, labels>>
    BY <1>13, Moving DEF StoreUp, StoreCount, model
  <2>2. Counted' = Counted \cup {w} /\ w \notin Counted BY <2>1 DEF Counted
  <2>3. Cardinality(Counted') = Cardinality(Counted) + 1
    BY <2>2, CountedFinite, FS_AddElement
  <2>4. w \notin labels BY <2>1 DEF Counting
  <2>5. \A v \in Workers : pc'[v] \in {"unborn", "start", "up"} => v \notin labels'
    BY <2>1 DEF Counting
  <2>6. ASSUME ~ raced
        PROVE  /\ g_init_count' = Cardinality(Counted')
               /\ \A v \in Workers : pc'[v] \notin Updating
               /\ \A v, u \in Carriers' : v = u
    <3>1. seen[w] = Cardinality(Counted) BY <2>1, <2>6 DEF Counting, Updating
    <3>2. \A v \in Workers : pc'[v] \notin Updating
      BY <2>1, <2>6 DEF Counting, Updating
    <3>3. CASE seen[w] = 0
      <4>1. Counted = {} BY <3>1, <3>3, CountedFinite, FS_EmptySet
      <4> QED BY <2>1, <2>2, <2>3, <3>1, <3>2, <4>1 DEF Carriers
    <3>4. CASE seen[w] # 0
      <4>1. Carriers' = Carriers BY <2>1, <2>2, <2>4, <3>4 DEF Carriers, Counted
      <4> QED BY <2>1, <2>3, <2>6, <3>1, <3>2, <4>1 DEF Counting
    <3> QED BY <3>3, <3>4
  <2> QED BY <2>1, <2>5, <2>6 DEF Counting
<1>14. ASSUME NEW w \in Workers, StoreDown(w) PROVE Counting'
  <2>1. /\ pc[w] \in {"back", "down"} /\ pc'[w] \in {"unlabel", "done"}
        /\ \A u \in Threads \ {w} : pc'[u] = pc[u]
        /\ g_init_count' = seen[w] - 1
        /\ UNCHANGED <<seen, raced, labels>>
    BY <1>14, Moving DEF StoreDown, StoreCount, model
  <2>2. Counted' = Counted \ {w} /\ w \in Counted BY <2>1 DEF Counted
  <2>3. Cardinality(Counted') = Cardinality(Counted) - 1
    BY <2>2, CountedFinite, FS_RemoveElement
  <2>4. Carriers' \subseteq Carriers BY <2>1, <2>2 DEF Carriers, Counted
  <2>5. \A v \in Workers : pc'[v] \in {"unborn", "start", "up"} => v \notin labels'
    BY <2>1 DEF Counting
  <2>6. ASSUME ~ raced
        PROVE  /\ seen[w] = Cardinality(Counted)
               /\ \A v \in Workers : pc'[v] \notin Updating
    BY <2>1, <2>6 DEF Counting, Updating
  <2> QED BY <2>1, <2>3, <2>4, <2>5, <2>6 DEF Counting
<1>15. CASE UNCHANGED vars BY <1>15, CountLeft DEF vars, model
<1> QED
  <2>1. \/ release_yolov8_model(MAIN, "giveup", "done")
        \/ release_yolov8_model(MAIN, "release", "unlabel")
        => Counting'
    BY <1>9
  <2>2. \A w \in Workers : release_yolov8_model(w, "run", "released") => Counting'
    BY <1>9
  <2> QED BY <1>1, <1>2, <1>3, <1>4, <1>5, <1>6, <1>7, <1>8, <1>10, <1>11, <1>12,
             <1>13, <1>14, <1>15, <2>1, <2>2, Steps
-----------------------------------------------------------------------------
LifeInv == TypeOK /\ Launched /\ Memory /\ Progress /\ Models /\ MainsLabels
           /\ Tables /\ Counting

LEMMA Started == Init => LifeInv
<1> SUFFICES ASSUME Init PROVE LifeInv OBVIOUS
<1> MAIN \in Threads /\ MAIN \notin Workers /\ Workers \subseteq Threads
  BY LifeThreads DEF Threads
<1>1. /\ pc \in [Threads -> {"unborn", "load", "read"}]
      /\ pc[MAIN] \in {"load", "read"}
      /\ \A w \in Workers : pc[w] = "unborn"
  BY DEF Init
<1>2. PlacesOK BY <1>1 DEF PlacesOK, MainPcs, WorkerPcs
<1>3. HeldOK
  <2>1. alloc \in [Slots -> Results] BY DEF Init, Results
  <2>2. fd \in [Slots -> {"unset", "open", "closed"}] BY DEF Init
  <2>3. seen \in [Workers -> Int] BY DEF Init
  <2>4. init \in [Threads -> Inits] BY DEF Init, Inits
  <2>5. slot \in 0 .. BufNum + 1 BY LifeBuffers DEF Init
  <2>6. /\ program \in {"stitch", "test"}
        /\ heaps \subseteq Slots /\ bufs \subseteq Slots /\ maps \subseteq Slots
        /\ last \subseteq Workers
        /\ filled \subseteq Threads /\ labels \subseteq filled
        /\ contexts \subseteq Threads /\ app \subseteq contexts
    BY DEF Init
  <2>7. running \in BOOLEAN /\ raced \in BOOLEAN /\ undefined \in BOOLEAN
    BY Zenon DEF Init
  <2>8. g_init_count \in Int BY DEF Init
  <2> QED BY ONLY <2>1, <2>2, <2>3, <2>4, <2>5, <2>6, <2>7, <2>8, Zenon DEF HeldOK
<1>4. Launched BY <1>1 DEF Launched
<1>5. Memory /\ Progress
  BY <1>1, LifeBuffers DEF Init, Memory, Progress, Slots, Pool, Display, Poolless
<1>6. Models BY <1>1 DEF Init, Models, Loaded
<1>7. MainsLabels /\ Tables BY <1>1 DEF Init, MainsLabels, Tables, Table
<1>8. Counting
  <2>1. Counted = {} /\ Carriers = {} BY <1>1 DEF Counted, Carriers
  <2>2. \A w \in Workers : pc[w] \notin Updating BY <1>1 DEF Updating
  <2> QED BY <2>1, <2>2, FS_EmptySet DEF Init, Counting
<1> QED BY <1>2, <1>3, <1>4, <1>5, <1>6, <1>7, <1>8, Parts DEF LifeInv

(* The inductive invariant behind the theorems.                            *)
THEOREM LifetimesInvariance == Spec => []LifeInv
<1>1. LifeInv /\ [Next]_vars => LifeInv'
  BY Typing, Launching, Remembering, Modelling, Labelling, Tabling, CountKept
     DEF LifeInv
<1> QED BY Started, <1>1, PTL DEF Spec

(* Places, slots and results are of their types, and only threads with a   *)
(* context have attributes.                                                *)
THEOREM LifetimesTypeCorrect == Spec => []TypeOK
<1>1. LifeInv => TypeOK BY DEF LifeInv
<1> QED BY LifetimesInvariance, <1>1, PTL

(* A worker that infers has a model, and every buffer of the pool is       *)
(* mapped and open: dma_buf_alloc has not failed, and NPUQueue::destroy    *)
(* has not begun (worker_npu.cpp:49-94 against npu_queue.cpp:91-102).      *)
THEOREM WorksOnWhatLives == Spec => []UsesWhatLives
<1>1. LifeInv => UsesWhatLives
  <2> SUFFICES ASSUME LifeInv, ~ undefined, NEW w \in Workers, pc[w] = "run"
               PROVE  /\ w \in app
                      /\ Pool \subseteq maps \cap bufs
                      /\ \A k \in Pool : fd[k] = "open"
    BY DEF UsesWhatLives
  <2>1. w \in app BY DEF LifeInv, Models, Loaded
  <2>2. pc[MAIN] \in {"show", "join"} BY DEF LifeInv, Launched
  <2>3. \A k \in Pool : fd[k] = "open" BY <2>2 DEF LifeInv, Progress
  <2>4. Pool \subseteq maps \cap bufs BY <2>3 DEF LifeInv, Memory, Slots
  <2> QED BY <2>1, <2>3, <2>4
<1> QED BY LifetimesInvariance, <1>1, PTL

(* What either program leaves when it ends, for every combination of       *)
(* failures: descriptors, mappings and contexts only where a failure named *)
(* in the property left them, and of the label tables that were filled,    *)
(* those whose thread gave up, those whose worker was not the last to      *)
(* stop, and no other while no two updates of g_init_count have met.       *)
THEOREM NothingElseStays == Spec => []LeftAtEnd
<1>1. LifeInv => LeftAtEnd
  <2> SUFFICES ASSUME LifeInv, pc[MAIN] = "done", ~ undefined
               PROVE  /\ maps = {}
                      /\ bufs = {k \in {Display} : alloc[k] = "mmap"}
                      /\ heaps = {k \in {Display} : alloc[k] \in {"ioctl", "mmap"}}
                      /\ contexts = {t \in Threads : init[t] = "query"}
                      /\ app = {}
                      /\ \A t \in filled :
                           /\ init[t] # "ok" => t \in labels
                           /\ init[t] = "ok" /\ (t = MAIN \/ ~ raced) =>
                                (t \in labels <=> t \notin last \cup {MAIN})
    BY DEF LeftAtEnd
  <2>1. \A k \in Slots : fd[k] # "open" BY DEF LifeInv, Progress
  <2>2. maps \subseteq Slots /\ bufs \subseteq Slots /\ heaps \subseteq Slots
    BY DEF LifeInv, TypeOK
  <2>3. \A k \in Slots : k # Display => alloc[k] \in {"none", "ok"}
    BY DEF LifeInv, Memory, Slots
  <2>4. Display \in Slots BY DEF Slots
  <2>5. maps = {} BY <2>1, <2>2 DEF LifeInv, Memory
  <2>6. bufs = {k \in {Display} : alloc[k] = "mmap"}
    BY <2>1, <2>2, <2>3, <2>4 DEF LifeInv, Memory
  <2>7. heaps = {k \in {Display} : alloc[k] \in {"ioctl", "mmap"}}
    BY <2>2, <2>3, <2>4 DEF LifeInv, Memory
  <2>8. app = {} BY DEF LifeInv, Launched, Models, Loaded
  <2>9. contexts = {t \in Threads : init[t] = "query"} BY <2>8 DEF LifeInv, Models
  <2>10. ASSUME NEW t \in filled
         PROVE  /\ init[t] # "ok" => t \in labels
                /\ init[t] = "ok" /\ (t = MAIN \/ ~ raced) =>
                     (t \in labels <=> t \notin last \cup {MAIN})
    <3>1. CASE t = MAIN BY <3>1 DEF LifeInv, MainsLabels
    <3>2. CASE t \in Workers
      <4>1. pc[t] \in {"unborn", "done"} /\ t # MAIN
        BY <3>2, LifeThreads DEF LifeInv, Launched
      <4>2. Table(t) BY <3>2 DEF LifeInv, Tables
      <4> QED BY <4>1, <4>2 DEF Table
    <3> QED BY <3>1, <3>2 DEF LifeInv, TypeOK, Threads
  <2> QED BY <2>5, <2>6, <2>7, <2>8, <2>9, <2>10
<1> QED BY LifetimesInvariance, <1>1, PTL

(* Until two updates of g_init_count meet it is the number of workers that *)
(* count themselves, and at most one of these loaded the label table.      *)
THEOREM CountIsRight == Spec => []CountsWorkers
<1>1. LifeInv => CountsWorkers
  BY DEF LifeInv, Counting, CountsWorkers, Carriers
<1> QED BY LifetimesInvariance, <1>1, PTL
=============================================================================
