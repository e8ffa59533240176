----------------------------- MODULE Detections -----------------------------
(***************************************************************************)
(* What becomes of the detector's outputs: inference_yolov8_model picks a  *)
(* post-processing by the number of outputs, and each of the two collects  *)
(* the detections that are sure enough, ranks them, suppresses those that  *)
(* overlap a better one, and writes the list of results.                   *)
(*                                                                         *)
(* post_process_crack (postprocess_crack.cpp, nine outputs) collects into  *)
(* the list of results itself, which holds MaxSize, and ranks what is      *)
(* there; post_process (postprocess.cc, three or four) collects and ranks  *)
(* everything and cuts the list at the end.  They measure overlap          *)
(* differently too.                                                        *)
(*                                                                         *)
(* Decoding the tensors is left out: a grid cell, for one of its classes,  *)
(* yields a detection with a score, a class and a box in whole pixels of   *)
(* the model's input.  So are the key points, and the way post_process's   *)
(* boxes take back to the picture (shift, clip, scale) as they are         *)
(* written: results are named by the boxes that were compared.             *)
(***************************************************************************)
EXTENDS Integers, Sequences, FiniteSets

CONSTANTS
  Candidates,    \* the detections a grid cell may yield
  MaxCells,      \* bound of the model: the number of grid cells
  OutputCounts,  \* numbers of outputs a model may have
  Conf,          \* BOX_THRESH
  MaxSize        \* OBJ_NUMB_MAX_SIZE

Box == [left : Int, top : Int, right : Int, bottom : Int]

Detection == [box : Box, prop : Int, cls_id : Nat]

ASSUME DetectionsAssumption ==
  /\ Candidates \subseteq Detection
  /\ MaxCells \in Nat
  /\ OutputCounts \subseteq Nat
  /\ Conf \in Nat
  /\ MaxSize \in Nat \ {0}

VARIABLES
  stage,     \* what comes next
  n_output,  \* the model's number of outputs
  cells,     \* what the grid cells yield, in the order they are scanned
  pos,       \* the cell scanned next
  dets,      \* the detections collected, and then ranked
  gone,      \* the ranks suppressed: prop or order was set to -1
  i,         \* the rank that suppresses next
  results    \* od_results

vars == <<stage, n_output, cells, pos, dets, gone, i, results>>

Crack == n_output = 9
Generic == n_output \in {3, 4}

Init ==
  /\ stage = "dispatch"
  /\ n_output \in OutputCounts
  /\ cells \in UNION {[1 .. n -> Candidates] : n \in 0 .. MaxCells}
  /\ Crack => \A c \in DOMAIN cells : cells[c].cls_id = 0
  /\ pos = 1
  /\ dets = <<>>
  /\ gone = {}
  /\ i = 1
  /\ results = <<>>
-----------------------------------------------------------------------------
(* How much boxes overlap.                                                 *)

Least(a, b) == IF a <= b THEN a ELSE b

Most(a, b) == IF a >= b THEN a ELSE b

(* Intersection over union exceeds the threshold, 0.4; sides are `more'    *)
(* pixels longer than the difference of the coordinates.                   *)
Overlap(a, b, more) ==
  LET w == Most(0, Least(a.right, b.right) - Most(a.left, b.left) + more)
      h == Most(0, Least(a.bottom, b.bottom) - Most(a.top, b.top) + more)
      area(c) == (c.right - c.left + more) * (c.bottom - c.top + more)
  IN  w * h > 0 /\ 5 * w * h > 2 * (area(a) + area(b) - w * h)

(* d suppresses e.  post_process_crack knows one class, post_process takes *)
(* one pass for each; passes do not touch each other's detections, and are *)
(* one here.                                                               *)
ClashCrack(d, e) == Overlap(d.box, e.box, 0)

ClashGeneric(d, e) == d.cls_id = e.cls_id /\ Overlap(d.box, e.box, 1)

Clash(d, e) == IF Crack THEN ClashCrack(d, e) ELSE ClashGeneric(d, e)
-----------------------------------------------------------------------------
(* Ranking.  std::sort leaves the order of equal scores open;              *)
(* quick_sort_indice_inverse settles it, but nothing depends on that.      *)

Ranked(s) == \A j, k \in DOMAIN s : j < k => s[j].prop >= s[k].prop

Rearranged(s) ==
  LET P == {p \in [DOMAIN s -> DOMAIN s] : \A k \in DOMAIN s :
                                             \E j \in DOMAIN s : p[j] = k}
  IN  {[k \in DOMAIN s |-> s[p[k]]] : p \in P}

(* The inner loops of quick_sort_indice_inverse: the place that is free    *)
(* moves from low to high and back, until the two meet and key is put      *)
(* there.  The scores and the indices are moved alike, so s stands for     *)
(* both.                                                                   *)
LastAbove(s, low, high, key) ==
  CHOOSE k \in low .. high : /\ k = low \/ s[k].prop > key.prop
                             /\ \A j \in k + 1 .. high : s[j].prop <= key.prop

FirstBelow(s, low, high, key) ==
  CHOOSE k \in low .. high : /\ k = high \/ s[k].prop < key.prop
                             /\ \A j \in low .. k - 1 : s[j].prop >= key.prop

(* A list, a stretch of it, and the key that has been taken out of it.     *)
Keyed == {a \in Seq(Detection) \X Nat \X Nat \X Detection :
            1 <= a[2] /\ a[2] <= a[3] /\ a[3] <= Len(a[1])}

Split[a \in Keyed] ==
  LET s == a[1]
      low == a[2]
      high == a[3]
      key == a[4]
      h == LastAbove(s, low, high, key)
      s1 == [s EXCEPT ![low] = s[h]]
      l == FirstBelow(s1, low, h, key)
  IN  IF low >= high THEN [seq |-> [s EXCEPT ![low] = key], mid |-> low]
      ELSE Split[<<[s1 EXCEPT ![h] = s1[l]], l, h, key>>]

(* Mutation: the key is that of the right end.                             *)
Key_Right(s, left, right) == s[right]

(* What is taken out of s[left .. right], to leave its first place free.   *)
Key(s, left, right) == s[left]

(* A list, and a stretch of it, empty perhaps.                             *)
Ranged == {a \in Seq(Detection) \X Nat \X Nat :
             1 <= a[2] /\ a[2] <= a[3] + 1 /\ a[3] <= Len(a[1])}

QuickSort[a \in Ranged] ==
  LET s == a[1]
      left == a[2]
      right == a[3]
      split == Split[<<s, left, right, Key(s, left, right)>>]
      lower == QuickSort[<<split.seq, left, split.mid - 1>>]
  IN  IF left >= right THEN s ELSE QuickSort[<<lower, split.mid + 1, right>>]
-----------------------------------------------------------------------------
(* The two post-processings, step by step.  post_process_crack collects    *)
(* in od_results and copies that to all_dets; dets stands for both.        *)

Dispatch ==
  /\ stage = "dispatch"
  /\ stage' = IF Crack \/ Generic THEN "collect" ELSE "done"
  /\ UNCHANGED <<n_output, cells, pos, dets, gone, i, results>>

(* Mutation: a score equal to the threshold does not do.                   *)
Scan_Above(room) ==
  /\ stage = "collect"
  /\ pos <= Len(cells)
  /\ pos' = pos + 1
  /\ dets' = IF cells[pos].prop > Conf /\ room
             THEN Append(dets, cells[pos]) ELSE dets
  /\ UNCHANGED <<stage, n_output, cells, gone, i, results>>

(* The next cell is looked at.                                             *)
Scan(room) ==
  /\ stage = "collect"
  /\ pos <= Len(cells)
  /\ pos' = pos + 1
  /\ dets' = IF cells[pos].prop >= Conf /\ room
             THEN Append(dets, cells[pos]) ELSE dets
  /\ UNCHANGED <<stage, n_output, cells, gone, i, results>>

(* nms is called for each detection alone too, which changes nothing.      *)
CollectCrack == Crack /\ Scan(Len(dets) < MaxSize)

CollectGeneric == Generic /\ Scan(TRUE)

Rank ==
  /\ stage = "collect"
  /\ pos > Len(cells)
  /\ stage' = "suppress"
  /\ dets' \in {s \in Rearranged(dets) : Ranked(s)}
  /\ UNCHANGED <<n_output, cells, pos, gone, i, results>>

(* Mutation: what has been suppressed goes on suppressing.                 *)
Suppress_Any ==
  /\ stage = "suppress"
  /\ i <= Len(dets)
  /\ i' = i + 1
  /\ gone' = gone \cup {j \in i + 1 .. Len(dets) : Clash(dets[i], dets[j])}
  /\ UNCHANGED <<stage, n_output, cells, pos, dets, results>>

(* Mutation: the inner loop starts one too late.                           *)
Suppress_Late ==
  /\ stage = "suppress"
  /\ i <= Len(dets)
  /\ i' = i + 1
  /\ gone' = gone \cup {j \in i + 2 .. Len(dets) :
                         i \notin gone /\ Clash(dets[i], dets[j])}
  /\ UNCHANGED <<stage, n_output, cells, pos, dets, results>>

(* One round of the outer loop of nms.                                     *)
Suppress ==
  /\ stage = "suppress"
  /\ i <= Len(dets)
  /\ i' = i + 1
  /\ gone' = gone \cup {j \in i + 1 .. Len(dets) :
                         i \notin gone /\ Clash(dets[i], dets[j])}
  /\ UNCHANGED <<stage, n_output, cells, pos, dets, results>>

(* The ranks that are left, and them in their order.                       *)
Left == (DOMAIN dets) \ gone

InOrder(S) ==
  {f \in [1 .. Cardinality(S) -> S] :
     /\ \A j, k \in DOMAIN f : j < k => f[j] < f[k]
     /\ \A x \in S : \E k \in DOMAIN f : f[k] = x}

(* Mutation: the list of results has no limit.                             *)
Write_All ==
  /\ stage = "suppress"
  /\ i > Len(dets)
  /\ stage' = "done"
  /\ \E f \in InOrder(Left) : results' = [k \in DOMAIN f |-> dets[f[k]]]
  /\ UNCHANGED <<n_output, cells, pos, dets, gone, i>>

Write ==
  /\ stage = "suppress"
  /\ i > Len(dets)
  /\ stage' = "done"
  /\ \E f \in InOrder(Left) :
       results' = [k \in 1 .. Least(Cardinality(Left), MaxSize) |-> dets[f[k]]]
  /\ UNCHANGED <<n_output, cells, pos, dets, gone, i>>

Finished == stage = "done" /\ UNCHANGED vars

Next == Dispatch \/ CollectCrack \/ CollectGeneric \/ Rank \/ Suppress \/ Write \/ Finished

Spec == Init /\ [][Next]_vars
-----------------------------------------------------------------------------
(* Type invariant.                                                         *)
TypeOK ==
  /\ stage \in {"dispatch", "collect", "suppress", "done"}
  /\ n_output \in OutputCounts
  /\ cells \in Seq(Candidates)
  /\ pos \in 1 .. Len(cells) + 1
  /\ dets \in Seq(Candidates)
  /\ i \in 1 .. Len(dets) + 1
  /\ gone \subseteq 2 .. Len(dets)
  /\ results \in Seq(Candidates) /\ Len(results) <= MaxSize

(* The hand-written quick sort loses, doubles and misplaces nothing: it    *)
(* gives one of the rankings, whatever it is given, equal scores included. *)
QuickSorts ==
  stage = "collect" /\ pos > Len(cells) =>
    QuickSort[<<dets, 1, Len(dets)>>] \in {s \in Rearranged(dets) : Ranked(s)}

(* The suppression, done pair by pair, ends in the one choice that can be  *)
(* defined without doing it: a detection goes if and only if one of higher *)
(* rank that stays clashes with it.                                        *)
Greedy ==
  stage = "suppress" /\ i > Len(dets) =>
    \A k \in DOMAIN dets :
      k \in gone <=> \E j \in Left : j < k /\ Clash(dets[j], dets[k])

(* The results are ranked, and no two of them clash.                       *)
Separated ==
  stage = "done" =>
    /\ Ranked(results)
    /\ \A j, k \in DOMAIN results : j < k => ~ Clash(results[j], results[k])

Sure(c) == cells[c].prop >= Conf

(* Nothing sure enough disappears without a reason: it is a result, or     *)
(* clashes with one at least as sure, or the limit was reached, and that   *)
(* by results at least as sure (post_process), or merely by cells scanned  *)
(* before (post_process_crack).                                            *)
Accounted ==
  stage = "done" /\ (Crack \/ Generic) =>
    \A c \in DOMAIN cells : Sure(c) =>
      \/ \E k \in DOMAIN results :
           \/ results[k] = cells[c]
           \/ /\ results[k].prop >= cells[c].prop
              /\ Clash(results[k], cells[c])
      \/ /\ Generic
         /\ Len(results) = MaxSize
         /\ \A k \in DOMAIN results : results[k].prop >= cells[c].prop
      \/ /\ Crack
         /\ Cardinality({b \in 1 .. c - 1 : Sure(b)}) >= MaxSize
=============================================================================
