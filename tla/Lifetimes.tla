----------------------------- MODULE Lifetimes ------------------------------
(***************************************************************************)
(* What the two programs hold from their start to their end, and what they *)
(* leave behind.  The stitching program allocates the pool of NPUQueue on  *)
(* the dma-heap (npu_queue.cpp, dma_alloc.cpp), starts its workers, which  *)
(* count themselves in g_init_count, load the label table and the model    *)
(* (worker_npu.cpp, yolov8.cc, postprocess.cc), and frees it all in the    *)
(* end.  The offline test (test_model.cpp) does the same on one thread.    *)
(*                                                                         *)
(* g_init_count is a plain int, so that an update is a load and a store    *)
(* which other threads may come between.  The label table is thread_local: *)
(* a thread loads and frees its own and never sees another.  A pointer     *)
(* that was never set is used in two places; whatever that does, the model *)
(* ends there.                                                             *)
(*                                                                         *)
(* raced, filled and last are history: no guard reads them, they tell the  *)
(* properties what has happened.                                           *)
(***************************************************************************)
EXTENDS Integers, FiniteSets

CONSTANTS
  Workers,   \* the inference threads, NUM_NPU = 3 in the program
  MAIN,      \* the main thread, of either program
  BufNum,    \* NPU_QUEUE_CAPACITY
  Faults     \* the calls that may fail

FaultKinds == {"matrices", "open", "ioctl", "mmap", "labels", "image", "read",
               "rknn_init", "query", "inference"}

ASSUME LifeThreads == MAIN \notin Workers /\ IsFiniteSet(Workers)

ASSUME LifeBuffers == BufNum \in Nat \ {0}

ASSUME LifeFaults == Faults \subseteq FaultKinds

Threads == Workers \cup {MAIN}

Pool == 0 .. BufNum - 1

Display == BufNum         \* the display's buffer, allocated after the pool

Slots == Pool \cup {Display}

VARIABLES
  program,       \* which of the two runs
  pc,            \* where each thread is
  slot,          \* the buffer main allocates or frees next
  alloc,         \* what dma_buf_alloc returned for each buffer
  fd,            \* NPUQueue::fd and display_fd
  heaps,         \* buffers for which the heap's own descriptor is open
  bufs,          \* buffers whose descriptor is open
  maps,          \* buffers that are mapped
  running,       \* the workers' running flags, which main clears in a row
  g_init_count,
  seen,          \* what each worker loaded from g_init_count
  raced,         \* two updates of g_init_count have been interleaved
  last,          \* workers whose decrement left no other worker counted
  labels,        \* which threads have strings in their label table
  filled,        \* which threads ever had some
  init,          \* what init_yolov8_model, or the inference, returned
  contexts,      \* threads whose RKNN context is open
  app,           \* threads whose app_ctx holds a context and attributes
  undefined      \* a pointer that was never set has been used

memory == <<slot, alloc, fd, heaps, bufs, maps>>
count == <<g_init_count, seen, raced, last>>
model == <<labels, filled, init, contexts, app>>
vars == <<program, pc, memory, running, count, model, undefined>>

Goto(t, l) == pc' = [pc EXCEPT ![t] = l]

Move(t, from, to) == ~ undefined /\ pc[t] = from /\ Goto(t, to)

Init ==
  /\ program \in {"stitch", "test"}
  /\ pc = [t \in Threads |-> IF t # MAIN THEN "unborn"
                             ELSE IF program = "stitch" THEN "load" ELSE "read"]
  /\ slot = 0
  /\ alloc = [k \in Slots |-> "none"]
  /\ fd = [k \in Slots |-> IF k = Display THEN "closed" ELSE "unset"]
  /\ heaps = {} /\ bufs = {} /\ maps = {}
  /\ running = TRUE
  /\ g_init_count = 0
  /\ seen = [w \in Workers |-> 0]
  /\ raced = FALSE /\ last = {}
  /\ labels = {} /\ filled = {}
  /\ init = [t \in Threads |-> "none"]
  /\ contexts = {} /\ app = {}
  /\ undefined = FALSE
-----------------------------------------------------------------------------
(* The pool.                                                               *)

(* load_H_matrices fails: main returns before it has anything.             *)
LoadMatrices ==
  /\ \/ Move(MAIN, "load", "alloc")
     \/ "matrices" \in Faults /\ Move(MAIN, "load", "done")
  /\ UNCHANGED <<program, memory, running, count, model, undefined>>

(* dma_buf_alloc: the heap is opened, asked for a buffer, and the buffer   *)
(* mapped.  A failure closes nothing of what came before it, and sets      *)
(* neither descriptor nor address.                                         *)
dma_buf_alloc(k, result) ==
  /\ result = "ok" \/ result \in {"open", "ioctl", "mmap"} \cap Faults
  /\ alloc' = [alloc EXCEPT ![k] = result]
  /\ heaps' = IF result \in {"ioctl", "mmap"} THEN heaps \cup {k} ELSE heaps
  /\ bufs' = IF result \in {"mmap", "ok"} THEN bufs \cup {k} ELSE bufs
  /\ maps' = IF result = "ok" THEN maps \cup {k} ELSE maps
  /\ fd' = IF result = "ok" THEN [fd EXCEPT ![k] = "open"] ELSE fd

(* NPUQueue::init, one buffer.  The result is not looked at: the next      *)
(* statements write frame_id and state through virt[i], which a failure    *)
(* leaves as it was, unset.  The display's address is null then, its       *)
(* descriptor -1, and the program goes on without a picture to show.       *)
Allocate ==
  /\ slot \in Slots
  /\ Move(MAIN, "alloc", "alloc")
  /\ slot' = slot + 1
  /\ \E result \in {"ok", "open", "ioctl", "mmap"} :
       /\ dma_buf_alloc(slot, result)
       /\ undefined' = (result # "ok" /\ slot \in Pool)
  /\ UNCHANGED <<program, running, count, model>>

Spawn ==
  /\ ~ undefined
  /\ pc[MAIN] = "alloc" /\ slot \notin Slots
  /\ pc' = [t \in Threads |-> IF t = MAIN THEN "show" ELSE "start"]
  /\ UNCHANGED <<program, memory, running, count, model, undefined>>

(* A signal has come: the display loop is left and the flags are cleared.  *)
Leave ==
  /\ Move(MAIN, "show", "join")
  /\ running' = FALSE
  /\ UNCHANGED <<program, memory, count, model, undefined>>

(* Mutation: main does not wait for the workers.                           *)
Join_Hasty ==
  /\ Move(MAIN, "join", "destroy")
  /\ slot' = 0
  /\ UNCHANGED <<program, alloc, fd, heaps, bufs, maps, running, count, model,
                 undefined>>

Join ==
  /\ \A w \in Workers : pc[w] = "done"
  /\ Move(MAIN, "join", "destroy")
  /\ slot' = 0
  /\ UNCHANGED <<program, alloc, fd, heaps, bufs, maps, running, count, model,
                 undefined>>

dma_buf_free(k) ==
  /\ maps' = maps \ {k}
  /\ bufs' = bufs \ {k}
  /\ fd' = [fd EXCEPT ![k] = "closed"]

(* NPUQueue::destroy: the pool, then the display; what has no descriptor   *)
(* is passed over.                                                         *)
Destroy ==
  /\ slot \in Slots
  /\ Move(MAIN, "destroy", IF slot = Display THEN "done" ELSE "destroy")
  /\ slot' = slot + 1
  /\ IF fd[slot] = "closed" THEN UNCHANGED <<fd, bufs, maps>>
                            ELSE dma_buf_free(slot)
  /\ UNCHANGED <<program, alloc, heaps, running, count, model, undefined>>
-----------------------------------------------------------------------------
(* Labels and model, the same for a worker and for the offline test.       *)

(* init_post_process.  That the file cannot be opened is not reported by   *)
(* loadLabelName: the table stays empty.                                   *)
init_post_process(t, from, to) ==
  /\ Move(t, from, to)
  /\ \/ labels' = labels \cup {t} /\ filled' = filled \cup {t}
     \/ "labels" \in Faults /\ UNCHANGED <<labels, filled>>
  /\ UNCHANGED <<program, memory, running, count, init, contexts, app,
                 undefined>>

deinit_post_process(t, from, to) ==
  /\ Move(t, from, to)
  /\ labels' = labels \ {t}
  /\ UNCHANGED <<program, memory, running, count, filled, init, contexts, app,
                 undefined>>

init_yolov8_model(t, from, to) ==
  /\ Move(t, from, to)
  /\ init' = [init EXCEPT ![t] = "ok"]
  /\ contexts' = contexts \cup {t}
  /\ app' = app \cup {t}
  /\ UNCHANGED <<program, memory, running, count, labels, filled, undefined>>

(* The model file cannot be read: read_data_from_file returns without      *)
(* setting the caller's pointer, which the caller then compares with NULL. *)
(* By luck that is what it finds; otherwise it hands the runtime, and      *)
(* free, a pointer that was never set.                                     *)
ReadFails(t, from, failed) ==
  /\ "read" \in Faults
  /\ Move(t, from, failed)
  /\ init' = [init EXCEPT ![t] = "read"]
  /\ undefined' \in BOOLEAN
  /\ UNCHANGED <<program, memory, running, count, labels, filled, contexts, app>>

(* rknn_init, or one of the queries after it, fails; the context that      *)
(* rknn_init made is not destroyed then.                                   *)
RuntimeFails(t, from, failed) ==
  \E call \in {"rknn_init", "query"} \cap Faults :
    /\ Move(t, from, failed)
    /\ init' = [init EXCEPT ![t] = call]
    /\ contexts' = IF call = "query" THEN contexts \cup {t} ELSE contexts
    /\ UNCHANGED <<program, memory, running, count, labels, filled, app,
                   undefined>>

(* Mutation: the handle keeps its value when the context is destroyed.     *)
release_yolov8_model_Dangling(t, from, to) ==
  /\ Move(t, from, to)
  /\ contexts' = IF t \in app THEN contexts \ {t} ELSE contexts
  /\ UNCHANGED <<program, memory, running, count, labels, filled, init, app,
                 undefined>>

release_yolov8_model(t, from, to) ==
  /\ Move(t, from, to)
  /\ contexts' = IF t \in app THEN contexts \ {t} ELSE contexts
  /\ app' = app \ {t}
  /\ UNCHANGED <<program, memory, running, count, labels, filled, init,
                 undefined>>
-----------------------------------------------------------------------------
(* An inference worker.                                                    *)

(* Between its load and its store of g_init_count.                         *)
Updating == {"up", "back", "down"}

(* The workers that count: from the store of the increment to the store of *)
(* a decrement.                                                            *)
Counted == {w \in Workers : pc[w] \in {"label", "model", "run", "failed",
                                       "back", "released", "down"}}

LoadCount(w, from, to) ==
  /\ Move(w, from, to)
  /\ seen' = [seen EXCEPT ![w] = g_init_count]
  /\ raced' = (raced \/ \E v \in Workers : pc[v] \in Updating)
  /\ UNCHANGED <<program, memory, running, g_init_count, last, model, undefined>>

StoreCount(w, from, to, n) ==
  /\ Move(w, from, to)
  /\ g_init_count' = n
  /\ last' = IF Counted = {w} THEN last \cup {w} ELSE last
  /\ UNCHANGED <<program, memory, running, seen, raced, model, undefined>>

(* if (g_init_count++ == 0) init_post_process()                            *)
CountUp(w) ==
  \/ LoadCount(w, "start", "up")
  \/ StoreCount(w, "up", IF seen[w] = 0 THEN "label" ELSE "model", seen[w] + 1)
  \/ init_post_process(w, "label", "model")

LoadModel(w) ==
  \/ init_yolov8_model(w, "model", "run")
  \/ ReadFails(w, "model", "failed")
  \/ RuntimeFails(w, "model", "failed")

(* Mutation: a worker without a model leaves and stays counted.            *)
GiveUp_Counted(w) ==
  /\ Move(w, "failed", "done")
  /\ UNCHANGED <<program, memory, running, count, model, undefined>>

(* A worker without a model counts itself off and is gone; the table it    *)
(* may have loaded is not freed.                                           *)
GiveUp(w) ==
  \/ LoadCount(w, "failed", "back")
  \/ StoreCount(w, "back", "done", seen[w] - 1)

(* Mutation: the count is tested before it is decremented.                 *)
Stop_Postfix(w) ==
  \/ ~ running /\ release_yolov8_model(w, "run", "released")
  \/ LoadCount(w, "released", "down")
  \/ StoreCount(w, "down", IF seen[w] = 0 THEN "unlabel" ELSE "done",
                seen[w] - 1)
  \/ deinit_post_process(w, "unlabel", "done")

(* The flag is clear: the model is released, and                           *)
(* if (--g_init_count == 0) deinit_post_process()                          *)
Stop(w) ==
  \/ ~ running /\ release_yolov8_model(w, "run", "released")
  \/ LoadCount(w, "released", "down")
  \/ StoreCount(w, "down", IF seen[w] = 1 THEN "unlabel" ELSE "done",
                seen[w] - 1)
  \/ deinit_post_process(w, "unlabel", "done")

Worker(w) == CountUp(w) \/ LoadModel(w) \/ GiveUp(w) \/ Stop(w)
-----------------------------------------------------------------------------
(* The offline test.                                                       *)

ReadImage ==
  /\ \/ Move(MAIN, "read", "label")
     \/ "image" \in Faults /\ Move(MAIN, "read", "done")
  /\ UNCHANGED <<program, memory, running, count, model, undefined>>

TestInfer ==
  /\ \/ Move(MAIN, "infer", "release") /\ UNCHANGED init
     \/ /\ "inference" \in Faults
        /\ Move(MAIN, "infer", "giveup")
        /\ init' = [init EXCEPT ![MAIN] = "inference"]
  /\ UNCHANGED <<program, memory, running, count, labels, filled, contexts, app,
                 undefined>>

(* Every failure returns from main at once, with the labels loaded.        *)
Test ==
  \/ ReadImage
  \/ init_post_process(MAIN, "label", "model")
  \/ init_yolov8_model(MAIN, "model", "infer")
  \/ ReadFails(MAIN, "model", "done")
  \/ RuntimeFails(MAIN, "model", "done")
  \/ TestInfer
  \/ release_yolov8_model(MAIN, "giveup", "done")
  \/ release_yolov8_model(MAIN, "release", "unlabel")
  \/ deinit_post_process(MAIN, "unlabel", "done")

Terminated == (undefined \/ pc[MAIN] = "done") /\ UNCHANGED vars
-----------------------------------------------------------------------------
Next ==
  \/ LoadMatrices \/ Allocate \/ Spawn \/ Leave \/ Join \/ Destroy
  \/ \E w \in Workers : Worker(w)
  \/ Test
  \/ Terminated

Spec == Init /\ [][Next]_vars
-----------------------------------------------------------------------------
Results == {"none", "ok", "open", "ioctl", "mmap"}
Inits == {"none", "ok", "read", "rknn_init", "query", "inference"}
MainPcs == {"load", "alloc", "show", "join", "destroy", "read", "label",
            "model", "infer", "giveup", "release", "unlabel", "done"}
WorkerPcs == {"unborn", "start", "up", "label", "model", "run", "failed",
              "back", "released", "down", "unlabel", "done"}

(* Type invariant.                                                         *)
TypeOK ==
  /\ program \in {"stitch", "test"}
  /\ pc \in [Threads -> MainPcs \cup WorkerPcs]
  /\ pc[MAIN] \in MainPcs
  /\ \A w \in Workers : pc[w] \in WorkerPcs
  /\ slot \in 0 .. BufNum + 1
  /\ alloc \in [Slots -> Results]
  /\ fd \in [Slots -> {"unset", "open", "closed"}]
  /\ heaps \subseteq Slots /\ bufs \subseteq Slots /\ maps \subseteq Slots
  /\ running \in BOOLEAN
  /\ g_init_count \in Int
  /\ seen \in [Workers -> Int]
  /\ raced \in BOOLEAN
  /\ last \subseteq Workers
  /\ filled \subseteq Threads /\ labels \subseteq filled
  /\ init \in [Threads -> Inits]
  /\ contexts \subseteq Threads /\ app \subseteq contexts
  /\ undefined \in BOOLEAN

(* As long as no two updates of the plain int meet, it is the number of    *)
(* workers that count, also when models fail to load, and so at most one   *)
(* of these has loaded a label table: the first comer.  (When updates do   *)
(* meet the count may be anything from minus to plus the number of         *)
(* workers; the tables are each thread's own, so that nothing is freed     *)
(* twice.)                                                                 *)
CountsWorkers ==
  ~ raced => /\ g_init_count = Cardinality(Counted)
             /\ \A v, w \in Counted \cap labels : v = w

(* A worker in its loop has a context of its own and a pool that is mapped *)
(* and open in every buffer: no failed allocation goes that far, and main  *)
(* does not free the pool before it has joined every worker.               *)
UsesWhatLives ==
  ~ undefined =>
    \A w \in Workers : pc[w] = "run" => /\ w \in app
                                        /\ Pool \subseteq maps \cap bufs
                                        /\ \A k \in Pool : fd[k] = "open"

(* What is left when a program ends, and why: the heap's descriptor, and   *)
(* the buffer's if it was mmap that failed, of a display buffer that could *)
(* not be allocated (dma_alloc.cpp:126,141); the contexts of models whose  *)
(* queries failed (yolov8.cc:60-97); and label tables.  A worker or a test *)
(* that gives up leaves the table it filled.  So does, in a run in which   *)
(* nothing fails, the worker that came first, unless it is also the last   *)
(* to stop: the last frees its own table, which then is empty              *)
(* (worker_npu.cpp:28-30,98-100, postprocess.cc:36).  Which worker that is *)
(* is only certain as long as no two updates of the count have met; the    *)
(* rest holds on any way through either program, and nothing else is left. *)
LeftAtEnd ==
  pc[MAIN] = "done" /\ ~ undefined =>
    /\ maps = {}
    /\ bufs = {k \in {Display} : alloc[k] = "mmap"}
    /\ heaps = {k \in {Display} : alloc[k] \in {"ioctl", "mmap"}}
    /\ contexts = {t \in Threads : init[t] = "query"}
    /\ app = {}
    /\ \A t \in filled :
         /\ init[t] # "ok" => t \in labels
         /\ init[t] = "ok" /\ (t = MAIN \/ ~ raced) =>
              (t \in labels <=> t \notin last \cup {MAIN})
=============================================================================
