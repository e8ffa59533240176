-------------------------- MODULE DetectionsProofs --------------------------
(***************************************************************************)
(* Proofs about Detections, for every list of detections, every threshold  *)
(* and every limit.  The first part holds for any ranking by score; the    *)
(* second shows that quick_sort_indice_inverse gives one.                  *)
(***************************************************************************)
EXTENDS Detections, TLAPS, SequenceTheorems, FiniteSetTheorems

(* Clash with the number of outputs as a parameter.                        *)
ClashFor(n, d, e) == IF n = 9 THEN ClashCrack(d, e) ELSE ClashGeneric(d, e)

Processed == Crack \/ Generic

SureBefore(c) == {b \in 1 .. c - 1 : cells[b].prop >= Conf}

(* The type invariant, and what each stage starts with.                    *)
Stages ==
  /\ stage \in {"dispatch", "collect"} => i = 1 /\ gone = {}
  /\ stage = "dispatch" => pos = 1 /\ dets = <<>>
  /\ stage # "done" => results = <<>>
  /\ stage \in {"collect", "suppress"} => Processed
  /\ stage = "done" /\ ~ Processed => results = <<>>
  /\ stage = "suppress" \/ (stage = "done" /\ Processed) =>
       pos = Len(cells) + 1 /\ Ranked(dets)

(* What has been scanned and is sure is among dets, unless these were full *)
(* by then.                                                                *)
Collected ==
  /\ Processed =>
       \A c \in 1 .. pos - 1 : cells[c].prop >= Conf =>
         \/ \E k \in DOMAIN dets : dets[k] = cells[c]
         \/ Crack /\ Cardinality(SureBefore(c)) >= MaxSize
  /\ stage \in {"dispatch", "collect"} =>
       Len(dets) <= Cardinality(SureBefore(pos))

(* Greedy, as far as the suppression has got.                              *)
Marks ==
  \A k \in DOMAIN dets :
    k \in gone <=> \E j \in Left : /\ j < k /\ j < i
                                   /\ ClashFor(n_output, dets[j], dets[k])

Written ==
  stage = "done" /\ Processed =>
    /\ i > Len(dets)
    /\ \E f \in InOrder(Left) :
         results = [k \in 1 .. Least(Cardinality(Left), MaxSize) |-> dets[f[k]]]

(* post_process_crack collects no more than od_results holds.              *)
Fits == Crack => Len(dets) <= MaxSize

IInv == TypeOK /\ Stages /\ Collected /\ Fits /\ Marks /\ Written
-----------------------------------------------------------------------------
(* How many sure cells there are before a cell, and at it.                 *)
LEMMA OneMore ==
  ASSUME NEW c \in Nat \ {0}
  PROVE  /\ Cardinality(SureBefore(c)) \in Nat
         /\ cells[c].prop >= Conf =>
              Cardinality(SureBefore(c + 1)) = Cardinality(SureBefore(c)) + 1
         /\ ~ (cells[c].prop >= Conf) => SureBefore(c + 1) = SureBefore(c)
<1>1. IsFiniteSet(SureBefore(c))
  <2>1. IsFiniteSet(1 .. c - 1)
    BY FS_Interval
  <2>2. SureBefore(c) \subseteq 1 .. c - 1
    BY DEF SureBefore
  <2> QED
    BY <2>1, <2>2, FS_Subset
<1>2. Cardinality(SureBefore(c)) \in Nat
  BY <1>1, FS_CardinalityType
<1>3. ASSUME cells[c].prop >= Conf
      PROVE  Cardinality(SureBefore(c + 1)) = Cardinality(SureBefore(c)) + 1
  <2>1. SureBefore(c + 1) = SureBefore(c) \cup {c}
    BY <1>3 DEF SureBefore
  <2>2. c \notin SureBefore(c)
    BY DEF SureBefore
  <2> QED
    BY <1>1, <2>1, <2>2, FS_AddElement
<1>4. ASSUME ~ (cells[c].prop >= Conf)
      PROVE  SureBefore(c + 1) = SureBefore(c)
  BY <1>4 DEF SureBefore
<1> QED
  BY <1>2, <1>3, <1>4

(* Nothing has been collected at the start.                                *)
LEMMA Initially == Init => IInv
<1> SUFFICES ASSUME Init PROVE IInv
  OBVIOUS
<1>1. TypeOK
  <2>1. cells \in Seq(Candidates) /\ Len(cells) \in Nat
    <3>1. PICK n \in 0 .. MaxCells : cells \in [1 .. n -> Candidates]
      BY DEF Init
    <3>2. n \in Nat
      BY DetectionsAssumption
    <3> QED
      BY <3>1, <3>2, IsASeq, LenProperties
  <2>2. <<>> \in Seq(Candidates) /\ Len(<<>>) = 0
    BY EmptySeq
  <2> QED
    BY <2>1, <2>2, DetectionsAssumption DEF Init, TypeOK
<1>2. Stages
  BY DEF Init, Stages
<1>3. Collected
  <2>1. SureBefore(pos) = {}
    BY DEF Init, SureBefore
  <2> QED
    BY <2>1, FS_EmptySet DEF Init, Collected
<1>4. Fits
  BY EmptySeq, DetectionsAssumption DEF Init, Fits
<1>5. Marks /\ Written
  BY DEF Init, Marks, Written
<1> QED
  BY <1>1, <1>2, <1>3, <1>4, <1>5 DEF IInv

(* Choosing a post-processing.                                             *)
LEMMA Dispatching == ASSUME IInv, Dispatch PROVE IInv'
<1> USE DEF IInv, Dispatch
<1>1. TypeOK'
  BY DEF TypeOK
<1>2. Stages'
  BY DEF Stages, Processed, Crack, Generic
<1>3. Collected'
  BY DEF Collected, Stages, Processed, Crack, Generic, SureBefore
<1>4. Marks'
  BY DEF Marks, Left
<1>5. Written'
  BY DEF Written, Processed, Crack, Generic
<1>6. Fits'
  BY DEF Fits, Crack
<1> QED
  BY <1>1, <1>2, <1>3, <1>4, <1>5, <1>6

(* Collecting: what is sure is appended, or there was no room.             *)
LEMMA Scanning ==
  ASSUME IInv, NEW room \in BOOLEAN, Scan(room), Processed,
         room <=> (Crack => Len(dets) < MaxSize)
  PROVE  IInv'
<1>0. TypeOK /\ Stages /\ Collected /\ Fits /\ Marks /\ Written
  BY DEF IInv
<1>1. /\ stage = "collect" /\ stage' = stage /\ n_output' = n_output
      /\ cells' = cells /\ gone' = gone /\ i' = i /\ results' = results
      /\ pos \in Nat \ {0} /\ pos <= Len(cells) /\ pos' = pos + 1
      /\ Len(cells) \in Nat /\ Len(dets) \in Nat
      /\ cells[pos] \in Candidates
      /\ i = 1 /\ gone = {}
  BY <1>0, LenProperties, ElementOfSeq DEF Scan, TypeOK, Stages
<1>2. \/ /\ cells[pos].prop >= Conf /\ room
         /\ dets' = Append(dets, cells[pos])
      \/ /\ ~ (cells[pos].prop >= Conf /\ room)
         /\ dets' = dets
  BY DEF Scan
<1>3. /\ dets' \in Seq(Candidates)
      /\ Len(dets') \in Nat /\ Len(dets') >= Len(dets)
      /\ Len(dets') <= Len(dets) + 1
      /\ DOMAIN dets' = 1 .. Len(dets')
      /\ \A k \in DOMAIN dets : k \in DOMAIN dets' /\ dets'[k] = dets[k]
  <2>1. dets \in Seq(Candidates) /\ DOMAIN dets = 1 .. Len(dets)
    BY <1>0, LenProperties DEF TypeOK
  <2>2. CASE dets' = Append(dets, cells[pos])
    <3>1. /\ dets' \in Seq(Candidates) /\ Len(dets') = Len(dets) + 1
          /\ \A k \in 1 .. Len(dets) : dets'[k] = dets[k]
      BY <2>1, <2>2, <1>1, AppendProperties
    <3>2. DOMAIN dets' = 1 .. Len(dets')
      BY <3>1, LenProperties
    <3> QED
      BY <3>1, <3>2, <2>1, <1>1
  <2>3. CASE dets' = dets
    BY <2>1, <2>3, <1>1
  <2> QED
    BY <1>2, <2>2, <2>3
<1>4. TypeOK'
  BY <1>0, <1>1, <1>3 DEF TypeOK
<1>5. Stages'
  BY <1>0, <1>1 DEF Stages, Processed, Crack, Generic
<1>6. Collected'
  <2>1. \A c \in 1 .. pos - 1 : cells[c].prop >= Conf =>
           \/ \E k \in DOMAIN dets' : dets'[k] = cells[c]
           \/ Crack /\ Cardinality(SureBefore(c)) >= MaxSize
    BY <1>0, <1>3 DEF Collected
  <2>2. cells[pos].prop >= Conf =>
           \/ \E k \in DOMAIN dets' : dets'[k] = cells[pos]
           \/ Crack /\ Cardinality(SureBefore(pos)) >= MaxSize
    <3>1. CASE dets' = Append(dets, cells[pos])
      <4>1. Len(dets) + 1 \in DOMAIN dets' /\ dets'[Len(dets) + 1] = cells[pos]
        BY <3>1, <1>0, <1>1, AppendProperties, LenProperties DEF TypeOK
      <4> QED
        BY <4>1
    <3>2. CASE cells[pos].prop >= Conf /\ ~ room
      <4>1. Crack /\ Len(dets) >= MaxSize
        BY <3>2, <1>1, DetectionsAssumption
      <4>2. Len(dets) <= Cardinality(SureBefore(pos))
        BY <1>0, <1>1 DEF Collected
      <4> QED
        BY <4>1, <4>2, <1>1, OneMore, DetectionsAssumption
    <3> QED
      BY <3>1, <3>2, <1>2
  <2>3. Len(dets') <= Cardinality(SureBefore(pos + 1))
    <3>1. Len(dets) <= Cardinality(SureBefore(pos))
      BY <1>0, <1>1 DEF Collected
    <3>2. CASE cells[pos].prop >= Conf
      BY <3>1, <3>2, <1>1, <1>3, OneMore
    <3>3. CASE ~ (cells[pos].prop >= Conf)
      BY <3>1, <3>3, <1>1, <1>2, OneMore
    <3> QED
      BY <3>2, <3>3
  <2>4. \A c : SureBefore(c)' = SureBefore(c)
    BY <1>1 DEF SureBefore
  <2>5. pos' - 1 = pos /\ 1 .. pos = (1 .. pos - 1) \cup {pos}
    BY <1>1
  <2> QED
    BY <2>1, <2>2, <2>3, <2>4, <2>5, <1>1 DEF Collected, Crack
<1>7. Marks'
  <2>1. gone' = {} /\ \A j \in DOMAIN dets' : ~ (j < i')
    BY <1>1, <1>3
  <2> QED
    BY <2>1 DEF Marks, Left
<1>8. Written'
  BY <1>1 DEF Written
<1>9. Fits'
  <2>1. CASE dets' = dets
    BY <2>1, <1>0, <1>1 DEF Fits, Crack
  <2>2. CASE room /\ Crack
    BY <2>2, <1>1, <1>3, DetectionsAssumption DEF Fits
  <2>3. CASE ~ Crack
    BY <2>3, <1>1 DEF Fits, Crack
  <2> QED
    BY <2>1, <2>2, <2>3, <1>2
<1> QED
  BY <1>4, <1>5, <1>6, <1>7, <1>8, <1>9 DEF IInv

(* Ranking rearranges what was collected.                                  *)
LEMMA Ranking == ASSUME IInv, Rank PROVE IInv'
<1>0. TypeOK /\ Stages /\ Collected /\ Fits /\ Marks /\ Written
  BY DEF IInv
<1>1. /\ stage = "collect" /\ stage' = "suppress" /\ n_output' = n_output
      /\ cells' = cells /\ pos' = pos /\ gone' = {} /\ i' = 1
      /\ results' = results /\ results = <<>>
      /\ pos = Len(cells) + 1 /\ pos \in Nat
      /\ Processed
      /\ Ranked(dets')
  BY <1>0, LenProperties DEF Rank, TypeOK, Stages
<1>2. PICK p \in [DOMAIN dets -> DOMAIN dets] :
        /\ \A k \in DOMAIN dets : \E j \in DOMAIN dets : p[j] = k
        /\ dets' = [k \in DOMAIN dets |-> dets[p[k]]]
  BY DEF Rank, Rearranged
<1>3. /\ dets \in Seq(Candidates) /\ Len(dets) \in Nat
      /\ DOMAIN dets = 1 .. Len(dets)
  BY <1>0, LenProperties DEF TypeOK
<1>4. /\ dets' \in [1 .. Len(dets) -> Candidates]
  BY <1>2, <1>3, ElementOfSeq
<1>5. /\ dets' \in Seq(Candidates) /\ Len(dets') = Len(dets)
      /\ DOMAIN dets' = DOMAIN dets
  BY <1>3, <1>4, IsASeq, LenProperties
<1>6. TypeOK'
  BY <1>0, <1>1, <1>3, <1>5 DEF TypeOK
<1>7. Stages'
  BY <1>0, <1>1 DEF Stages, Processed, Crack, Generic
<1>8. Collected'
  <2>1. \A c : SureBefore(c)' = SureBefore(c)
    BY <1>1 DEF SureBefore
  <2>2. ASSUME NEW k \in DOMAIN dets
        PROVE  \E j \in DOMAIN dets' : dets'[j] = dets[k]
    BY <1>2, <1>5
  <2> QED
    BY <2>1, <2>2, <1>0, <1>1 DEF Collected, Crack
<1>9. Marks'
  <2>1. gone' = {} /\ \A j \in DOMAIN dets' : ~ (j < i')
    BY <1>1, <1>3, <1>5
  <2> QED
    BY <2>1 DEF Marks, Left
<1>10. Fits'
  BY <1>0, <1>1, <1>5 DEF Fits, Crack
<1>11. Written'
  BY <1>1 DEF Written
<1> QED
  BY <1>6, <1>7, <1>8, <1>9, <1>10, <1>11 DEF IInv

(* A round of the suppression decides about the rank it is at: only lower  *)
(* ranks are marked in it.                                                 *)
LEMMA Suppressing == ASSUME IInv, Suppress PROVE IInv'
<1>0. TypeOK /\ Stages /\ Collected /\ Fits /\ Marks /\ Written
  BY DEF IInv
<1>1. /\ stage = "suppress" /\ stage' = stage /\ n_output' = n_output
      /\ cells' = cells /\ pos' = pos /\ dets' = dets /\ i' = i + 1
      /\ results' = results
      /\ i \in Nat \ {0} /\ i <= Len(dets)
      /\ Len(dets) \in Nat /\ DOMAIN dets = 1 .. Len(dets)
  BY <1>0, LenProperties DEF Suppress, TypeOK
<1>2. gone' = gone \cup {j \in i + 1 .. Len(dets) :
                          /\ i \notin gone
                          /\ ClashFor(n_output, dets[i], dets[j])}
  BY DEF Suppress, Clash, ClashFor, Crack
<1>3. TypeOK'
  <2>1. gone \subseteq 2 .. Len(dets) /\ i + 1 .. Len(dets) \subseteq 2 .. Len(dets)
    BY <1>0, <1>1 DEF TypeOK
  <2>2. gone' \subseteq gone \cup (i + 1 .. Len(dets))
    BY <1>2
  <2>3. gone' \subseteq 2 .. Len(dets)
    BY <2>1, <2>2
  <2> QED
    BY <2>3, <1>0, <1>1 DEF TypeOK
<1>4. Stages'
  BY <1>0, <1>1 DEF Stages, Processed, Crack, Generic
<1>5. Collected'
  <2>1. \A c : SureBefore(c)' = SureBefore(c)
    BY <1>1 DEF SureBefore
  <2> QED
    BY <2>1, <1>0, <1>1 DEF Collected, Processed, Crack, Generic
<1>6. Marks'
  <2> DEFINE C(j, k) == ClashFor(n_output, dets[j], dets[k])
             D == DOMAIN dets
  <2>1. \A k \in D : k \in gone <=> \E j \in D \ gone : j < k /\ j < i /\ C(j, k)
    BY <1>0 DEF Marks, Left
  <2>2. \A k \in D : k \in gone' <=>
                      k \in gone \/ (i < k /\ i \notin gone /\ C(i, k))
    <3>1. \A k : k \in gone' <=>
                   \/ k \in gone
                   \/ k \in i + 1 .. Len(dets) /\ i \notin gone /\ C(i, k)
      BY <1>2
    <3>2. \A k \in D : k \in i + 1 .. Len(dets) <=> i < k
      BY <1>1
    <3> QED
      BY <3>1, <3>2
  <2>3. D \subseteq Nat /\ i \in D /\ i \in Nat
    BY <1>1
  <2>4. ASSUME NEW k \in D
        PROVE  k \in gone' <=>
                 \E j \in D \ gone' : j < k /\ j < i + 1 /\ C(j, k)
    <3> HIDE DEF C, D
    <3>1. ASSUME k \in gone'
          PROVE  \E j \in D \ gone' : j < k /\ j < i + 1 /\ C(j, k)
      <4>1. CASE k \in gone
        <5>1. PICK j \in D \ gone : j < k /\ j < i /\ C(j, k)
          BY <2>1, <4>1
        <5>2. j \in Nat /\ ~ (i < j)
          BY <5>1, <2>3
        <5>3. j \notin gone'
          BY <5>1, <5>2, <2>2
        <5>4. j < i + 1
          BY <5>1, <5>2, <2>3
        <5> QED
          BY <5>1, <5>3, <5>4
      <4>2. CASE i < k /\ i \notin gone /\ C(i, k)
        <5>1. ~ (i < i) /\ i < i + 1
          BY <2>3
        <5>2. i \in D \ gone'
          BY <5>1, <4>2, <2>2, <2>3
        <5> QED
          BY <5>1, <5>2, <4>2
      <4> QED
        BY <3>1, <2>2, <4>1, <4>2
    <3>2. ASSUME NEW j \in D \ gone', j < k, j < i + 1, C(j, k)
          PROVE  k \in gone'
      <4>1. j \notin gone
        BY <2>2
      <4>2. CASE j < i
        BY <4>1, <4>2, <3>2, <2>1, <2>2
      <4>3. CASE j = i
        BY <4>1, <4>3, <3>2, <2>2
      <4>4. j < i \/ j = i
        BY <3>2, <2>3
      <4> QED
        BY <4>2, <4>3, <4>4
    <3> QED
      BY <3>1, <3>2
  <2> QED
    BY <2>4, <1>1 DEF Marks, Left
<1>7. Written' /\ Fits'
  BY <1>0, <1>1 DEF Written, Fits, Crack
<1> QED
  BY <1>3, <1>4, <1>5, <1>6, <1>7 DEF IInv

(* The ranks left are a finite set, no larger than dets is long.           *)
LEMMA LeftOver ==
  ASSUME TypeOK
  PROVE  /\ Cardinality(Left) \in Nat /\ Cardinality(Left) <= Len(dets)
         /\ Len(dets) \in Nat /\ DOMAIN dets = 1 .. Len(dets)
         /\ Least(Cardinality(Left), MaxSize) \in Nat
         /\ Least(Cardinality(Left), MaxSize) <= MaxSize
         /\ Least(Cardinality(Left), MaxSize) <= Cardinality(Left)
<1>1. Len(dets) \in Nat /\ DOMAIN dets = 1 .. Len(dets)
  BY LenProperties DEF TypeOK
<1>2. Left \subseteq 1 .. Len(dets)
  BY <1>1 DEF Left
<1>3. IsFiniteSet(1 .. Len(dets)) /\ Cardinality(1 .. Len(dets)) = Len(dets)
  <2>1. CASE Len(dets) = 0
    BY <2>1, <1>1, FS_Interval
  <2>2. CASE Len(dets) # 0
    BY <2>2, <1>1, FS_Interval
  <2> QED
    BY <2>1, <2>2
<1>4. Cardinality(Left) \in Nat /\ Cardinality(Left) <= Len(dets)
  BY <1>2, <1>3, FS_Subset, FS_CardinalityType
<1> QED
  BY <1>1, <1>4, DetectionsAssumption DEF Least

(* Writing the results.                                                    *)
LEMMA Writing == ASSUME IInv, Write PROVE IInv'
<1>0. TypeOK /\ Stages /\ Collected /\ Fits /\ Marks /\ Written
  BY DEF IInv
<1>1. /\ stage = "suppress" /\ stage' = "done" /\ n_output' = n_output
      /\ cells' = cells /\ pos' = pos /\ dets' = dets /\ gone' = gone
      /\ i' = i /\ i > Len(dets)
  BY DEF Write
<1> DEFINE n == Least(Cardinality(Left), MaxSize)
<1>2. PICK f \in InOrder(Left) : results' = [k \in 1 .. n |-> dets[f[k]]]
  BY DEF Write
<1>3. TypeOK'
  <2>1. n \in Nat /\ n <= MaxSize /\ n <= Cardinality(Left)
        /\ Cardinality(Left) \in Nat
    BY <1>0, LeftOver
  <2>2. ASSUME NEW k \in 1 .. n PROVE dets[f[k]] \in Candidates
    <3>1. k \in 1 .. Cardinality(Left)
      BY <2>1
    <3>2. f[k] \in DOMAIN dets
      BY <3>1 DEF InOrder, Left
    <3> QED
      BY <3>2, <1>0, LeftOver, ElementOfSeq DEF TypeOK
  <2> HIDE DEF n
  <2>3. results' \in [1 .. n -> Candidates]
    BY <1>2, <2>2
  <2>4. results' \in Seq(Candidates) /\ Len(results') = n
    BY <2>1, <2>3, IsASeq, LenProperties
  <2> QED
    BY <2>1, <2>4, <1>0, <1>1 DEF TypeOK
<1>4. Stages'
  BY <1>0, <1>1 DEF Stages, Processed, Crack, Generic
<1>5. Collected'
  <2>1. \A c : SureBefore(c)' = SureBefore(c)
    BY <1>1 DEF SureBefore
  <2> QED
    BY <2>1, <1>0, <1>1 DEF Collected, Processed, Crack, Generic
<1>6. Marks' /\ Fits'
  BY <1>0, <1>1 DEF Marks, Left, Fits, Crack
<1>7. Written'
  <2>1. Left' = Left
    BY <1>1 DEF Left
  <2> QED
    BY <2>1, <1>1, <1>2 DEF Written
<1> QED
  BY <1>3, <1>4, <1>5, <1>6, <1>7 DEF IInv

(* Every step keeps the invariant.                                         *)
LEMMA Preserved == IInv /\ [Next]_vars => IInv'
<1> SUFFICES ASSUME IInv, [Next]_vars PROVE IInv'
  OBVIOUS
<1>1. CASE Dispatch
  BY <1>1, Dispatching
<1>2. CASE CollectCrack
  <2> DEFINE room == Len(dets) < MaxSize
  <2>1. Scan(room) /\ Crack
    BY <1>2 DEF CollectCrack
  <2>2. room \in BOOLEAN /\ (room <=> (Crack => Len(dets) < MaxSize))
    BY <2>1
  <2> HIDE DEF room
  <2> QED
    BY <2>1, <2>2, Scanning DEF Processed
<1>3. CASE CollectGeneric
  <2>1. Scan(TRUE) /\ Generic
    BY <1>3 DEF CollectGeneric
  <2>2. ~ Crack
    BY <2>1 DEF Generic, Crack
  <2> QED
    BY <2>1, <2>2, Scanning DEF Processed
<1>4. CASE Rank
  BY <1>4, Ranking
<1>5. CASE Suppress
  BY <1>5, Suppressing
<1>6. CASE Write
  BY <1>6, Writing
<1>7. CASE UNCHANGED vars
  <2>1. TypeOK' /\ Stages'
    BY <1>7 DEF IInv, TypeOK, Stages, vars, Processed, Crack, Generic
  <2>2. Collected'
    <3>1. \A c : SureBefore(c)' = SureBefore(c)
      BY <1>7 DEF SureBefore, vars
    <3> QED
      BY <3>1, <1>7 DEF IInv, Collected, Processed, Crack, Generic, vars
  <2>3. Fits' /\ Marks'
    BY <1>7 DEF IInv, Fits, Marks, Left, Crack, vars
  <2>4. Written'
    <3>1. Left' = Left
      BY <1>7 DEF Left, vars
    <3> QED
      BY <3>1, <1>7 DEF IInv, Written, Processed, Crack, Generic, vars
  <2> QED
    BY <2>1, <2>2, <2>3, <2>4 DEF IInv
<1> QED
  BY <1>1, <1>2, <1>3, <1>4, <1>5, <1>6, <1>7 DEF Next, Finished

(* The inductive invariant, in every reachable state.                      *)
THEOREM DetectionsInvariance == Spec => []IInv
  BY Initially, Preserved, PTL DEF Spec

(* Types, and the limit of the list of results.                            *)
THEOREM DetectionsTypeCorrect == Spec => []TypeOK
  BY DetectionsInvariance, PTL DEF IInv

(* The suppression ends in the one greedy choice.                          *)
THEOREM GreedyChoice == Spec => []Greedy
<1>1. IInv => Greedy
  <2> SUFFICES ASSUME IInv, stage = "suppress", i > Len(dets),
                      NEW k \in DOMAIN dets
               PROVE  k \in gone <=>
                        \E j \in Left : j < k /\ Clash(dets[j], dets[k])
    BY DEF Greedy
  <2>1. k \in gone <=>
          \E j \in Left : j < k /\ j < i /\ Clash(dets[j], dets[k])
    BY DEF IInv, Marks, ClashFor, Clash, Crack
  <2>2. \A j \in Left : j < i
    BY LeftOver DEF IInv, Left, TypeOK
  <2> QED
    BY <2>1, <2>2
<1> QED
  BY <1>1, DetectionsInvariance, PTL

(* What the list of results is made of.                                    *)
LEMMA ResultsAre ==
  ASSUME IInv, stage = "done", Processed
  PROVE  \E f \in InOrder(Left) :
           LET n == Least(Cardinality(Left), MaxSize)
           IN  /\ DOMAIN results = 1 .. n /\ Len(results) = n
               /\ \A k \in 1 .. n : /\ results[k] = dets[f[k]]
                                   /\ f[k] \in Left
                                   /\ f[k] \in Nat
                                   /\ k \in 1 .. Cardinality(Left)
<1>1. PICK f \in InOrder(Left) :
        results = [k \in 1 .. Least(Cardinality(Left), MaxSize) |-> dets[f[k]]]
  BY DEF IInv, Written
<1> DEFINE n == Least(Cardinality(Left), MaxSize)
<1>2. n \in Nat /\ n <= Cardinality(Left) /\ Cardinality(Left) \in Nat
  BY LeftOver DEF IInv
<1>3. \A k \in 1 .. n : k \in 1 .. Cardinality(Left)
  BY <1>2
<1>4. \A k \in 1 .. n : f[k] \in Left /\ f[k] \in Nat
  <2>1. Left \subseteq Nat
    BY LeftOver DEF IInv, Left
  <2> QED
    BY <1>3, <2>1 DEF InOrder
<1>5. DOMAIN results = 1 .. n /\ \A k \in 1 .. n : results[k] = dets[f[k]]
  BY <1>1
<1>6. Len(results) = n
  BY <1>2, <1>5, LenProperties DEF IInv, TypeOK
<1> QED
  BY <1>3, <1>4, <1>5, <1>6

(* Scores are numbers.                                                     *)
LEMMA Scores ==
  ASSUME TypeOK
  PROVE  /\ \A k \in DOMAIN dets : dets[k].prop \in Int
         /\ \A c \in DOMAIN cells : cells[c].prop \in Int
<1>1. \A d \in Candidates : d.prop \in Int
  BY DetectionsAssumption DEF Detection
<1>2. /\ \A k \in DOMAIN dets : dets[k] \in Candidates
      /\ \A c \in DOMAIN cells : cells[c] \in Candidates
  BY LenProperties, ElementOfSeq DEF TypeOK
<1> QED
  BY <1>1, <1>2

(* The results are ranked, and no two of them clash.                       *)
THEOREM NoClash == Spec => []Separated
<1>1. IInv => Separated
  <2> SUFFICES ASSUME IInv, stage = "done" PROVE Separated
    BY DEF Separated
  <2>1. CASE ~ Processed
    <3>1. DOMAIN results = {}
      BY <2>1, EmptySeq, LenProperties DEF IInv, Stages, TypeOK
    <3> QED
      BY <3>1 DEF Separated, Ranked
  <2>2. CASE Processed
    <3>1. PICK f \in InOrder(Left) :
            LET n == Least(Cardinality(Left), MaxSize)
            IN  /\ DOMAIN results = 1 .. n
                /\ \A k \in 1 .. n : /\ results[k] = dets[f[k]]
                                    /\ f[k] \in Left
                                    /\ k \in 1 .. Cardinality(Left)
      BY <2>2, ResultsAre
    <3> SUFFICES ASSUME NEW j \in DOMAIN results, NEW k \in DOMAIN results,
                        j < k
                 PROVE  /\ results[j].prop >= results[k].prop
                        /\ ~ Clash(results[j], results[k])
      BY DEF Separated, Ranked
    <3>2. /\ results[j] = dets[f[j]] /\ results[k] = dets[f[k]]
          /\ f[j] \in Left /\ f[k] \in Left /\ f[j] < f[k]
      BY <3>1 DEF InOrder
    <3>3. f[j] \in DOMAIN dets /\ f[k] \in DOMAIN dets /\ f[k] \notin gone
      BY <3>2 DEF Left
    <3>4. f[j] < i
      BY <2>2, <3>3, LeftOver DEF IInv, Written, TypeOK
    <3>5. dets[f[j]].prop >= dets[f[k]].prop
      BY <2>2, <3>2, <3>3 DEF IInv, Stages, Ranked
    <3>6. ~ Clash(dets[f[j]], dets[f[k]])
      BY <3>2, <3>3, <3>4 DEF IInv, Marks, ClashFor, Clash, Crack
    <3> QED
      BY <3>2, <3>5, <3>6
  <2> QED
    BY <2>1, <2>2
<1> QED
  BY <1>1, DetectionsInvariance, PTL

(* Nothing sure enough disappears without a reason.                        *)
THEOREM NothingUnaccounted == Spec => []Accounted
<1>1. IInv => Accounted
  <2> SUFFICES ASSUME IInv, stage = "done", Crack \/ Generic,
                      NEW c \in DOMAIN cells, Sure(c)
               PROVE  \/ \E k \in DOMAIN results :
                           \/ results[k] = cells[c]
                           \/ /\ results[k].prop >= cells[c].prop
                              /\ Clash(results[k], cells[c])
                      \/ /\ Generic
                         /\ Len(results) = MaxSize
                         /\ \A k \in DOMAIN results :
                              results[k].prop >= cells[c].prop
                      \/ /\ Crack
                         /\ Cardinality({b \in 1 .. c - 1 : Sure(b)}) >= MaxSize
    BY DEF Accounted
  <2>1. Processed
    BY DEF Processed
  <2>2. \/ \E k \in DOMAIN dets : dets[k] = cells[c]
        \/ /\ Crack
           /\ Cardinality({b \in 1 .. c - 1 : Sure(b)}) >= MaxSize
    <3>1. c \in 1 .. pos - 1 /\ cells[c].prop >= Conf
      BY <2>1, LenProperties DEF IInv, Stages, TypeOK, Sure
    <3>2. SureBefore(c) = {b \in 1 .. c - 1 : Sure(b)}
      BY DEF SureBefore, Sure
    <3> QED
      BY <2>1, <3>1, <3>2 DEF IInv, Collected
  <2>3. ASSUME NEW k \in DOMAIN dets, dets[k] = cells[c]
        PROVE  \E h \in Left : /\ \/ dets[h] = cells[c]
                                 \/ Clash(dets[h], cells[c])
                              /\ dets[h].prop >= cells[c].prop
    <3>1. CASE k \notin gone
      <4>1. dets[k].prop >= dets[k].prop
        BY Scores DEF IInv
      <4> QED
        BY <2>3, <3>1, <4>1 DEF Left
    <3>2. CASE k \in gone
      <4>1. PICK h \in Left : h < k /\ Clash(dets[h], dets[k])
        BY <3>2 DEF IInv, Marks, ClashFor, Clash, Crack
      <4>2. dets[h].prop >= dets[k].prop
        BY <2>1, <4>1 DEF IInv, Stages, Ranked, Left
      <4> QED
        BY <2>3, <4>1, <4>2
    <3> QED
      BY <3>1, <3>2
  <2>4. ASSUME NEW h \in Left, dets[h].prop >= cells[c].prop
        PROVE  \/ \E k \in DOMAIN results : results[k] = dets[h]
               \/ /\ Generic
                  /\ Len(results) = MaxSize
                  /\ \A k \in DOMAIN results :
                       results[k].prop >= cells[c].prop
    <3> DEFINE n == Least(Cardinality(Left), MaxSize)
    <3>1. PICK f \in InOrder(Left) :
            /\ DOMAIN results = 1 .. n /\ Len(results) = n
            /\ \A k \in 1 .. n : /\ results[k] = dets[f[k]]
                                /\ f[k] \in Left
                                /\ f[k] \in Nat
                                /\ k \in 1 .. Cardinality(Left)
      BY <2>1, ResultsAre
    <3>2. PICK a \in 1 .. Cardinality(Left) : f[a] = h
      BY DEF InOrder
    <3>3. n \in Nat /\ Cardinality(Left) \in Nat /\ Cardinality(Left) <= Len(dets)
          /\ Len(dets) \in Nat
      BY LeftOver DEF IInv
    <3>4. CASE a <= n
      <4>1. a \in 1 .. n
        BY <3>2, <3>3, <3>4
      <4> QED
        BY <4>1, <3>1, <3>2
    <3>5. CASE a > n
      <4>1. n = MaxSize /\ MaxSize < Cardinality(Left)
        BY <3>2, <3>3, <3>5, DetectionsAssumption DEF Least
      <4>2. Generic
        BY <3>3, <4>1, DetectionsAssumption DEF IInv, Fits
      <4>3. ASSUME NEW k \in 1 .. n
            PROVE  results[k].prop >= cells[c].prop
        <5>1. k \in 1 .. Cardinality(Left) /\ k < a
          BY <3>1, <3>2, <3>3, <3>5
        <5>2. f[k] < h
          BY <3>2, <5>1 DEF InOrder
        <5>3. f[k] \in DOMAIN dets /\ h \in DOMAIN dets
          BY <3>1 DEF Left
        <5>4. dets[f[k]].prop >= dets[h].prop
          BY <2>1, <5>2, <5>3 DEF IInv, Stages, Ranked
        <5>5. /\ dets[f[k]].prop \in Int /\ dets[h].prop \in Int
              /\ cells[c].prop \in Int
          BY <5>3, Scores DEF IInv
        <5>6. dets[f[k]].prop >= cells[c].prop
          BY <5>4, <5>5, <2>4
        <5> QED
          BY <3>1, <5>6
      <4> QED
        BY <3>1, <4>1, <4>2, <4>3
    <3> QED
      BY <3>2, <3>3, <3>4, <3>5
  <2> QED
    BY <2>2, <2>3, <2>4
<1> QED
  BY <1>1, DetectionsInvariance, PTL
-----------------------------------------------------------------------------
(* Every natural number is reached from 0.                                 *)
LEMMA Induction ==
  ASSUME NEW S, 0 \in S, \A n \in Nat : n \in S => n + 1 \in S
  PROVE  Nat \subseteq S
<1> SUFFICES ASSUME ~ (Nat \subseteq S) PROVE FALSE OBVIOUS
<1> DEFINE Below(n) == 0 .. n
           T == {Below(n) : n \in Nat \ S}
<1>1. T \subseteq FiniteSubsetsOf(Nat)
  <2> SUFFICES ASSUME NEW n \in Nat \ S PROVE 0 .. n \in FiniteSubsetsOf(Nat)
    OBVIOUS
  <2>1. IsFiniteSet(0 .. n) BY FS_Interval
  <2> QED BY <2>1 DEF FiniteSubsetsOf
<1>2. T # {}
  OBVIOUS
<1>3. IsWellFoundedOn(StrictSubsetOrdering(Nat), FiniteSubsetsOf(Nat))
  BY FS_StrictSubsetOrderingWellFounded
<1>4. PICK x \in T : \A y \in T : ~ (<<y, x>> \in StrictSubsetOrdering(Nat))
  <2> HIDE DEF T
  <2> QED BY <1>1, <1>2, <1>3, WFMin
<1>5. PICK n \in Nat \ S : x = 0 .. n
  BY <1>4
<1>6. n # 0 /\ n - 1 \in Nat \ S
  OBVIOUS
<1>7. 0 .. n - 1 \in T
  BY <1>6
<1>8. 0 .. n - 1 \subseteq 0 .. n /\ 0 .. n - 1 # 0 .. n /\ 0 .. n \subseteq Nat
  BY <1>6
<1>9. <<0 .. n - 1, x>> \in StrictSubsetOrdering(Nat)
  BY <1>5, <1>8 DEF StrictSubsetOrdering
<1> QED BY <1>4, <1>7, <1>9

(* Recursion, for functions that call themselves twice: on first[a], and   *)
(* on what cont makes of the result.  R holds arguments and results that   *)
(* go together; each call is for something smaller.                        *)
Calls(f, A, done, end, first, cont) ==
  \A a \in A : f[a] = IF a \in done THEN end[a] ELSE f[cont[<<a, f[first[a]]>>]]

CallsUpTo(n, f, A, size, done, end, first, cont) ==
  \A a \in A : size[a] <= n =>
    f[a] = IF a \in done THEN end[a] ELSE f[cont[<<a, f[first[a]]>>]]

Goes(f, A, R) == \A a \in A : <<a, f[a]>> \in R

Descends(A, V, R, size, done, end, first, cont) ==
  /\ size \in [A -> Nat]
  /\ end \in [A -> V] /\ \A a \in done : <<a, end[a]>> \in R
  /\ first \in [A -> A]
  /\ \A a \in A \ done :
       /\ size[first[a]] < size[a]
       /\ \A v \in V : <<first[a], v>> \in R =>
            /\ cont[<<a, v>>] \in A
            /\ size[cont[<<a, v>>]] < size[a]
            /\ \A w \in V : <<cont[<<a, v>>], w>> \in R => <<a, w>> \in R

(* The recursion, for arguments up to a size.                              *)
LEMMA UpTo ==
  ASSUME NEW A, NEW V, NEW R, NEW size, NEW done \in SUBSET A, NEW end, NEW first, NEW cont,
         Descends(A, V, R, size, done, end, first, cont),
         NEW base \in [A -> V], Goes(base, A, R), NEW n \in Nat
  PROVE  \E f \in [A -> V] : /\ Goes(f, A, R)
                             /\ CallsUpTo(n, f, A, size, done, end, first, cont)
<1> DEFINE Body(f, a) == IF a \in done THEN end[a] ELSE f[cont[<<a, f[first[a]]>>]]
           Known(m) == \E f \in [A -> V] : /\ Goes(f, A, R)
                                           /\ \A a \in A : size[a] < m => f[a] = Body(f, a)
           S == {m \in Nat : Known(m)}
<1>0. \A a \in A : size[a] \in Nat BY DEF Descends
<1>1. 0 \in S
  <2>1. \A a \in A : ~ (size[a] < 0) BY <1>0
  <2> HIDE DEF Body
  <2> QED BY <2>1
<1>2. \A m \in Nat : m \in S => m + 1 \in S
  <2> HIDE DEF Known
  <2> SUFFICES ASSUME NEW m \in Nat, Known(m) PROVE Known(m + 1) OBVIOUS
  <2>1. PICK f \in [A -> V] : Goes(f, A, R) /\ \A a \in A : size[a] < m => f[a] = Body(f, a)
    BY DEF Known
  <2> DEFINE g == [a \in A |-> IF size[a] = m THEN Body(f, a) ELSE f[a]]
  <2>2. ASSUME NEW a \in A, a \notin done
        PROVE  /\ first[a] \in A /\ size[first[a]] < size[a]
               /\ f[first[a]] \in V
               /\ cont[<<a, f[first[a]]>>] \in A
               /\ size[cont[<<a, f[first[a]]>>]] < size[a]
               /\ f[cont[<<a, f[first[a]]>>]] \in V
               /\ <<a, f[cont[<<a, f[first[a]]>>]]>> \in R
    <3>1. first[a] \in A /\ size[first[a]] < size[a] BY <2>2 DEF Descends
    <3>2. f[first[a]] \in V /\ <<first[a], f[first[a]]>> \in R BY <2>1, <3>1 DEF Goes
    <3> DEFINE b == cont[<<a, f[first[a]]>>]
    <3>3. /\ b \in A /\ size[b] < size[a]
          /\ \A w \in V : <<b, w>> \in R => <<a, w>> \in R
      BY <2>2, <3>2 DEF Descends
    <3> HIDE DEF b
    <3>4. f[b] \in V /\ <<b, f[b]>> \in R BY <2>1, <3>3 DEF Goes
    <3>5. <<a, f[b]>> \in R BY <3>3, <3>4
    <3> QED BY <3>1, <3>2, <3>3, <3>4, <3>5 DEF b
  <2>3. \A a \in A : Body(f, a) \in V /\ <<a, Body(f, a)>> \in R
    <3> SUFFICES ASSUME NEW a \in A PROVE Body(f, a) \in V /\ <<a, Body(f, a)>> \in R OBVIOUS
    <3>1. CASE a \in done BY <3>1 DEF Descends
    <3>2. CASE a \notin done BY <2>2, <3>2
    <3> QED BY <3>1, <3>2
  <2>4. g \in [A -> V] /\ Goes(g, A, R)
    <3> HIDE DEF Body
    <3> QED BY <2>1, <2>3 DEF Goes
  <2>5. ASSUME NEW a \in A, size[a] < m + 1 PROVE g[a] = Body(g, a)
    <3>1. \A b \in A : size[b] < m => g[b] = f[b] BY <1>0
    <3>2. g[a] = Body(f, a)
      <4> HIDE DEF Body
      <4>1. CASE size[a] = m BY <4>1
      <4>2. CASE size[a] # m
        <5>1. size[a] < m BY <1>0, <2>5, <4>2
        <5> QED BY <2>1, <3>1, <5>1
      <4> QED BY <4>1, <4>2
    <3>3. CASE a \in done BY <3>2, <3>3
    <3>4. CASE a \notin done
      <4> DEFINE b == first[a]
                 c == cont[<<a, f[first[a]]>>]
      <4>1. b \in A /\ size[b] < m /\ c \in A /\ size[c] < m
        <5>1. b \in A /\ size[b] < size[a] /\ c \in A /\ size[c] < size[a]
          BY <2>2, <3>4, Zenon
        <5> HIDE DEF b, c, g, Body
        <5> QED BY <1>0, <2>5, <5>1
      <4>2. g[b] = f[b] /\ g[c] = f[c]
        <5> HIDE DEF b, c, g
        <5> QED BY <3>1, <4>1
      <4>3. Body(f, a) = f[c] BY <3>4
      <4>4. Body(g, a) = g[cont[<<a, g[b]>>]]
        <5> HIDE DEF g
        <5> QED BY <3>4
      <4> HIDE DEF g, Body
      <4> QED BY <3>2, <4>2, <4>3, <4>4
    <3> QED BY <3>3, <3>4
  <2> HIDE DEF g, Body
  <2> QED BY <2>4, <2>5 DEF Known
<1>3. Known(n + 1)
  <2>1. Nat \subseteq S
    <3> HIDE DEF S
    <3> QED BY <1>1, <1>2, Induction
  <2>2. n + 1 \in S BY <2>1
  <2> HIDE DEF Known
  <2> QED BY <2>2
<1>4. PICK f \in [A -> V] : Goes(f, A, R) /\ \A a \in A : size[a] < n + 1 => f[a] = Body(f, a)
  <2> HIDE DEF Body
  <2> QED BY <1>3
<1>5. \A a \in A : size[a] <= n => f[a] = Body(f, a)
  <2> HIDE DEF Body
  <2> QED BY <1>0, <1>4
<1> QED BY <1>4, <1>5 DEF CallsUpTo

(* Two functions that satisfy it up to a size agree up to that size.       *)
LEMMA Agree ==
  ASSUME NEW A, NEW V, NEW R, NEW size, NEW done \in SUBSET A, NEW end, NEW first, NEW cont,
         Descends(A, V, R, size, done, end, first, cont),
         NEW f \in [A -> V], NEW g \in [A -> V], Goes(f, A, R), Goes(g, A, R),
         NEW n \in Nat,
         CallsUpTo(n, f, A, size, done, end, first, cont),
         CallsUpTo(n, g, A, size, done, end, first, cont),
         NEW z \in A, size[z] <= n
  PROVE  f[z] = g[z]
<1> DEFINE Same(m) == \A a \in A : size[a] < m /\ size[a] <= n => f[a] = g[a]
           S == {m \in Nat : Same(m)}
<1>0. \A a \in A : size[a] \in Nat BY DEF Descends
<1>1. 0 \in S BY <1>0
<1>2. \A m \in Nat : m \in S => m + 1 \in S
  <2> HIDE DEF Same
  <2> SUFFICES ASSUME NEW m \in Nat, Same(m) PROVE Same(m + 1) OBVIOUS
  <2>1. ASSUME NEW a \in A, size[a] < m + 1, size[a] <= n PROVE f[a] = g[a]
    <3>1. CASE a \in done BY <2>1, <3>1 DEF CallsUpTo
    <3>2. CASE a \notin done
      <4> DEFINE b == first[a]
                 c == cont[<<a, f[b]>>]
      <4>1. b \in A /\ size[b] < size[a] BY <3>2 DEF Descends
      <4>2. size[b] < m /\ size[b] <= n
        <5> HIDE DEF b
        <5> QED BY <1>0, <2>1, <4>1
      <4>3. f[b] = g[b]
        <5> HIDE DEF b
        <5> QED BY <4>1, <4>2 DEF Same
      <4>4. f[b] \in V /\ <<b, f[b]>> \in R
        <5> HIDE DEF b
        <5> QED BY <4>1 DEF Goes
      <4>5. c \in A /\ size[c] < size[a] BY <3>2, <4>4 DEF Descends
      <4>6. size[c] < m /\ size[c] <= n
        <5> HIDE DEF c
        <5> QED BY <1>0, <2>1, <4>5
      <4>7. f[c] = g[c]
        <5> HIDE DEF c
        <5> QED BY <4>5, <4>6 DEF Same
      <4>8. f[a] = f[c] BY <2>1, <3>2 DEF CallsUpTo
      <4>9. g[a] = g[cont[<<a, g[b]>>]] BY <2>1, <3>2 DEF CallsUpTo
      <4> HIDE DEF b
      <4> QED BY <4>3, <4>7, <4>8, <4>9
    <3> QED BY <3>1, <3>2
  <2> QED BY <2>1 DEF Same
<1>3. Same(n + 1)
  <2>1. Nat \subseteq S
    <3> HIDE DEF S
    <3> QED BY <1>1, <1>2, Induction
  <2>2. n + 1 \in S BY <2>1
  <2> HIDE DEF Same
  <2> QED BY <2>2
<1>4. size[z] < n + 1 BY <1>0
<1> QED BY <1>3, <1>4

(* There is a function that calls itself so, for every argument.           *)
LEMMA NestedRecursion ==
  ASSUME NEW A, NEW V, NEW R, NEW size, NEW done \in SUBSET A, NEW end, NEW first, NEW cont,
         Descends(A, V, R, size, done, end, first, cont),
         NEW base \in [A -> V], Goes(base, A, R)
  PROVE  \E f \in [A -> V] : Goes(f, A, R) /\ Calls(f, A, done, end, first, cont)
<1> DEFINE Good(n, f) == /\ f \in [A -> V] /\ Goes(f, A, R)
                         /\ CallsUpTo(n, f, A, size, done, end, first, cont)
           F(n) == CHOOSE f : Good(n, f)
           G == [a \in A |-> F(size[a])[a]]
<1>0. \A a \in A : size[a] \in Nat BY DEF Descends
<1>1. \A n \in Nat : Good(n, F(n))
  <2> SUFFICES ASSUME NEW n \in Nat PROVE Good(n, F(n)) OBVIOUS
  <2>1. \E f \in [A -> V] : Goes(f, A, R) /\ CallsUpTo(n, f, A, size, done, end, first, cont)
    BY UpTo
  <2>2. \E f : Good(n, f) BY <2>1
  <2> HIDE DEF Good
  <2> QED BY <2>2
<1> HIDE DEF F
<1>2. ASSUME NEW a \in A, NEW b \in A, size[b] <= size[a] PROVE F(size[a])[b] = G[b]
  <2>1. size[a] \in Nat /\ size[b] \in Nat BY <1>0
  <2>2. Good(size[a], F(size[a])) /\ Good(size[b], F(size[b])) BY <1>1, <2>1
  <2>3. CallsUpTo(size[b], F(size[a]), A, size, done, end, first, cont)
    <3>1. CallsUpTo(size[a], F(size[a]), A, size, done, end, first, cont) BY <2>2
    <3> QED BY <1>0, <1>2, <2>1, <3>1 DEF CallsUpTo
  <2>4. F(size[a])[b] = F(size[b])[b]
    <3> DEFINE f == F(size[a])
               g == F(size[b])
               n == size[b]
    <3>1. /\ f \in [A -> V] /\ g \in [A -> V] /\ Goes(f, A, R) /\ Goes(g, A, R)
          /\ CallsUpTo(n, f, A, size, done, end, first, cont)
          /\ CallsUpTo(n, g, A, size, done, end, first, cont)
      BY <2>2, <2>3
    <3>2. n \in Nat /\ size[b] <= n BY <2>1
    <3> HIDE DEF f, g, n
    <3>3. f[b] = g[b] BY <3>1, <3>2, Agree
    <3> QED BY <3>3 DEF f, g, n
  <2> QED BY <2>4
<1>3. G \in [A -> V] /\ Goes(G, A, R)
  <2>1. ASSUME NEW a \in A PROVE F(size[a])[a] \in V /\ <<a, F(size[a])[a]>> \in R
    <3>1. Good(size[a], F(size[a])) BY <1>0, <1>1
    <3> QED BY <3>1 DEF Goes
  <2> QED BY <2>1 DEF Goes
<1>4. ASSUME NEW a \in A
      PROVE  G[a] = IF a \in done THEN end[a] ELSE G[cont[<<a, G[first[a]]>>]]
  <2> DEFINE f == F(size[a])
             b == first[a]
             c == cont[<<a, f[b]>>]
  <2>1. Good(size[a], f) BY <1>0, <1>1
  <2>2. G[a] = f[a] OBVIOUS
  <2>3. f[a] = IF a \in done THEN end[a] ELSE f[c] BY <1>0, <2>1 DEF CallsUpTo
  <2>4. CASE a \in done BY <2>2, <2>3, <2>4
  <2>5. CASE a \notin done
    <3>1. b \in A /\ size[b] < size[a] BY <2>5 DEF Descends
    <3>2. f[b] = G[b]
      <4>1. size[b] <= size[a]
        <5> HIDE DEF b
        <5> QED BY <1>0, <3>1
      <4> HIDE DEF b, G
      <4> QED BY <1>2, <3>1, <4>1
    <3>3. f[b] \in V /\ <<b, f[b]>> \in R
      <4> HIDE DEF b, f
      <4> QED BY <2>1, <3>1 DEF Goes
    <3>4. c \in A /\ size[c] < size[a]
      <4> HIDE DEF f
      <4> QED BY <2>5, <3>3 DEF Descends
    <3>5. f[c] = G[c]
      <4>1. size[c] <= size[a]
        <5> HIDE DEF c
        <5> QED BY <1>0, <3>4
      <4> HIDE DEF c, G
      <4> QED BY <1>2, <3>4, <4>1
    <3>6. G[a] = G[cont[<<a, f[b]>>]]
      <4> HIDE DEF f, G, b
      <4> QED BY <2>2, <2>3, <2>5, <3>5
    <3>7. G[a] = G[cont[<<a, G[b]>>]]
      <4> HIDE DEF f, G, b
      <4> QED BY <3>2, <3>6
    <3> HIDE DEF G
    <3> QED BY <2>5, <3>7
  <2> QED BY <2>4, <2>5
<1> HIDE DEF G
<1> QED BY <1>3, <1>4 DEF Calls

List == Seq(Detection)

(* What the inner loops find.                                              *)
LEMMA Props ==
  ASSUME NEW s \in List, NEW k \in 1 .. Len(s)
  PROVE  s[k] \in Detection /\ s[k].prop \in Int
<1>1. s[k] \in Detection BY ElementOfSeq DEF List
<1> QED BY <1>1 DEF Detection

LEMMA LastFound ==
  ASSUME NEW s \in List, NEW low \in Nat, NEW high \in Nat, NEW key \in Detection,
         1 <= low, low <= high, high <= Len(s)
  PROVE  LET k == LastAbove(s, low, high, key)
         IN /\ k \in low .. high
            /\ k = low \/ s[k].prop > key.prop
            /\ \A j \in k + 1 .. high : s[j].prop <= key.prop
<1> DEFINE Stops(k, m) == /\ k = low \/ s[k].prop > key.prop
                          /\ \A j \in k + 1 .. m : s[j].prop <= key.prop
           Found(m) == \E k \in low .. m : Stops(k, m)
           S == {n \in Nat : low + n <= high => Found(low + n)}
<1>1. Len(s) \in Nat /\ key.prop \in Int BY LenProperties DEF List, Detection
<1>2. 0 \in S
  <2>1. Stops(low, low + 0) OBVIOUS
  <2>2. low \in low .. low + 0 OBVIOUS
  <2> HIDE DEF Stops
  <2> QED BY <2>1, <2>2
<1>3. \A n \in Nat : n \in S => n + 1 \in S
  <2> HIDE DEF Found
  <2> SUFFICES ASSUME NEW n \in Nat, n \in S, low + (n + 1) <= high
               PROVE  Found(low + (n + 1))
    OBVIOUS
  <2> DEFINE m == low + n
  <2>1. m \in Nat /\ m <= high /\ m + 1 <= high /\ low <= m /\ low + (n + 1) = m + 1 OBVIOUS
  <2>2. Found(m) BY <2>1
  <2> HIDE DEF m, S
  <2>3. m + 1 \in 1 .. Len(s) BY <1>1, <2>1
  <2>4. s[m + 1].prop \in Int BY <2>3, Props
  <2>5. CASE s[m + 1].prop > key.prop
    <3>1. Stops(m + 1, m + 1) BY <2>1, <2>5
    <3>2. m + 1 \in low .. m + 1 BY <2>1
    <3> HIDE DEF Stops
    <3> QED BY <2>1, <3>1, <3>2 DEF Found
  <2>6. CASE ~ (s[m + 1].prop > key.prop)
    <3>1. PICK k \in low .. m : Stops(k, m)
      <4> HIDE DEF Stops
      <4> QED BY <2>2 DEF Found
    <3>2. s[m + 1].prop <= key.prop BY <1>1, <2>4, <2>6
    <3>3. \A j \in k + 1 .. m + 1 : j \in k + 1 .. m \/ j = m + 1 BY <2>1
    <3>4. \A j \in k + 1 .. m + 1 : s[j].prop <= key.prop BY <3>1, <3>2, <3>3
    <3>5. Stops(k, m + 1) BY <3>1, <3>4
    <3>6. k \in low .. m + 1 BY <2>1
    <3> HIDE DEF Stops
    <3> QED BY <2>1, <3>5, <3>6 DEF Found
  <2> QED BY <2>5, <2>6
<1>4. Found(high)
  <2>1. Nat \subseteq S
    <3> HIDE DEF S
    <3> QED BY <1>2, <1>3, Induction
  <2>2. high - low \in Nat /\ low + (high - low) = high OBVIOUS
  <2> HIDE DEF Found
  <2>3. high - low \in S BY <2>1, <2>2
  <2> QED BY <2>2, <2>3
<1> QED BY <1>4, Zenon DEF LastAbove

LEMMA FirstFound ==
  ASSUME NEW s \in List, NEW low \in Nat, NEW high \in Nat, NEW key \in Detection,
         1 <= low, low <= high, high <= Len(s)
  PROVE  LET k == FirstBelow(s, low, high, key)
         IN /\ k \in low .. high
            /\ k = high \/ s[k].prop < key.prop
            /\ \A j \in low .. k - 1 : s[j].prop >= key.prop
<1> DEFINE Stops(k, m) == /\ k = high \/ s[k].prop < key.prop
                          /\ \A j \in m .. k - 1 : s[j].prop >= key.prop
           Found(m) == \E k \in m .. high : Stops(k, m)
           S == {n \in Nat : low <= high - n => Found(high - n)}
<1>1. Len(s) \in Nat /\ key.prop \in Int BY LenProperties DEF List, Detection
<1>2. 0 \in S
  <2>1. Stops(high, high - 0) OBVIOUS
  <2>2. high \in high - 0 .. high OBVIOUS
  <2> HIDE DEF Stops
  <2> QED BY <2>1, <2>2
<1>3. \A n \in Nat : n \in S => n + 1 \in S
  <2> HIDE DEF Found
  <2> SUFFICES ASSUME NEW n \in Nat, n \in S, low <= high - (n + 1)
               PROVE  Found(high - (n + 1))
    OBVIOUS
  <2> DEFINE m == high - (n + 1)
  <2>1. m \in Nat /\ 1 <= m /\ low <= m /\ m + 1 <= high /\ high - n = m + 1 /\ low <= high - n OBVIOUS
  <2>2. Found(m + 1) BY <2>1
  <2> HIDE DEF m, S
  <2>3. m \in 1 .. Len(s) BY <1>1, <2>1
  <2>4. s[m].prop \in Int BY <2>3, Props
  <2>5. CASE s[m].prop < key.prop
    <3>1. Stops(m, m) BY <2>1, <2>5
    <3>2. m \in m .. high BY <2>1
    <3> HIDE DEF Stops
    <3> QED BY <2>1, <3>1, <3>2 DEF Found, m
  <2>6. CASE ~ (s[m].prop < key.prop)
    <3>1. PICK k \in m + 1 .. high : Stops(k, m + 1)
      <4> HIDE DEF Stops
      <4> QED BY <2>2 DEF Found
    <3>2. s[m].prop >= key.prop BY <1>1, <2>4, <2>6
    <3>3. \A j \in m .. k - 1 : j \in m + 1 .. k - 1 \/ j = m BY <2>1
    <3>4. \A j \in m .. k - 1 : s[j].prop >= key.prop BY <3>1, <3>2, <3>3
    <3>5. Stops(k, m) BY <3>1, <3>4
    <3>6. k \in m .. high BY <2>1
    <3> HIDE DEF Stops
    <3> QED BY <3>5, <3>6 DEF Found, m
  <2> QED BY <2>5, <2>6
<1>4. Found(low)
  <2>1. Nat \subseteq S
    <3> HIDE DEF S
    <3> QED BY <1>2, <1>3, Induction
  <2>2. high - low \in Nat /\ high - (high - low) = low OBVIOUS
  <2> HIDE DEF Found
  <2>3. high - low \in S BY <2>1, <2>2
  <2> QED BY <2>2, <2>3
<1> QED BY <1>4, Zenon DEF FirstBelow

(* One round of the outer loop: the free place goes from low to h, and     *)
(* from there to l, which is nearer.                                       *)
Taken(s, low, high, key) == [s EXCEPT ![low] = s[LastAbove(s, low, high, key)]]

Free(s, low, high, key) ==
  FirstBelow(Taken(s, low, high, key), low, LastAbove(s, low, high, key), key)

Moved(s, low, high, key) ==
  [Taken(s, low, high, key) EXCEPT ![LastAbove(s, low, high, key)] =
     Taken(s, low, high, key)[Free(s, low, high, key)]]

(* What one round of quick_sort_indice_inverse does.                       *)
Round(s, low, high, key, h, l, t) ==
  /\ h \in low .. high /\ l \in low .. h /\ h - l < high - low
  /\ t \in List /\ Len(t) = Len(s)
  /\ h = low \/ (low < l /\ s[h].prop > key.prop)
  /\ l < h => s[l].prop < key.prop
  /\ \A j \in h + 1 .. high : s[j].prop <= key.prop
  /\ \A j \in low + 1 .. l - 1 : s[j].prop >= key.prop
  /\ \A j \in 1 .. Len(s) :
       t[j] = IF j = h THEN (IF l = low THEN s[h] ELSE s[l])
              ELSE IF j = low THEN s[h] ELSE s[j]

(* One round, from the two inner loops of quick_sort_indice_inverse.       *)
LEMMA Moves ==
  ASSUME NEW s \in List, NEW low \in Nat, NEW high \in Nat, NEW key \in Detection,
         1 <= low, low < high, high <= Len(s),
         NEW h, h = LastAbove(s, low, high, key),
         NEW l, l = Free(s, low, high, key),
         NEW t, t = Moved(s, low, high, key)
  PROVE  Round(s, low, high, key, h, l, t)
<1> DEFINE s1 == Taken(s, low, high, key)
<1>1. /\ h \in low .. high
      /\ h = low \/ s[h].prop > key.prop
      /\ \A j \in h + 1 .. high : s[j].prop <= key.prop
  <2> DEFINE k == LastAbove(s, low, high, key)
  <2>1. /\ k \in low .. high
        /\ k = low \/ s[k].prop > key.prop
        /\ \A j \in k + 1 .. high : s[j].prop <= key.prop
    BY LastFound
  <2>2. h = k OBVIOUS
  <2> HIDE DEF k
  <2> QED BY <2>1, <2>2
<1>2. s1 = [s EXCEPT ![low] = s[h]] BY DEF Taken
<1>3. l = FirstBelow(s1, low, h, key) BY DEF Free
<1>4. t = [s1 EXCEPT ![h] = s1[l]] BY DEF Moved
<1>5. Len(s) \in Nat /\ key.prop \in Int BY LenProperties DEF List, Detection
<1> HIDE DEF s1
<1>6. h \in Nat /\ 1 <= h /\ h <= Len(s) /\ h \in 1 .. Len(s) /\ low \in 1 .. Len(s) BY <1>1, <1>5
<1>7. s[h] \in Detection /\ s[h].prop \in Int BY <1>6, Props
<1>8. /\ s1 \in List /\ Len(s1) = Len(s)
      /\ \A j \in 1 .. Len(s) : s1[j] = IF j = low THEN s[h] ELSE s[j]
  BY <1>2, <1>6, <1>7, ExceptSeq DEF List
<1>9. /\ l \in low .. h
      /\ l = h \/ s1[l].prop < key.prop
      /\ \A j \in low .. l - 1 : s1[j].prop >= key.prop
  <2>1. 1 <= low /\ low <= h /\ h <= Len(s1) BY <1>1, <1>6, <1>8
  <2> DEFINE m == FirstBelow(s1, low, h, key)
  <2>2. /\ m \in low .. h
        /\ m = h \/ s1[m].prop < key.prop
        /\ \A j \in low .. m - 1 : s1[j].prop >= key.prop
    BY <1>6, <1>8, <2>1, FirstFound
  <2> HIDE DEF m
  <2> QED BY <1>3, <2>2 DEF m
<1>10. l \in 1 .. Len(s) BY <1>6, <1>9
<1>11. s1[l] \in Detection BY <1>8, <1>10, Props
<1>12. /\ t \in List /\ Len(t) = Len(s)
       /\ \A j \in 1 .. Len(s) : t[j] = IF j = h THEN s1[l] ELSE s1[j]
  BY <1>4, <1>6, <1>8, <1>11, ExceptSeq DEF List
<1>13. h = low \/ (low < l /\ s[h].prop > key.prop)
  <2> SUFFICES ASSUME h # low PROVE low < l /\ s[h].prop > key.prop OBVIOUS
  <2>1. s[h].prop > key.prop BY <1>1
  <2>2. CASE l = low
    <3>1. s1[l] = s[h] BY <1>6, <1>8, <2>2
    <3>2. l # h BY <2>2
    <3>3. s[h].prop < key.prop BY <1>9, <3>1, <3>2
    <3> QED BY <1>5, <1>7, <2>1, <3>3
  <2>3. CASE l # low BY <1>9, <2>1, <2>3
  <2> QED BY <2>2, <2>3
<1>14. h - l < high - low
  <2>1. CASE h = low BY <1>9, <2>1
  <2>2. CASE h # low BY <1>1, <1>9, <1>13, <2>2
  <2> QED BY <2>1, <2>2
<1>15. ASSUME l < h PROVE s[l].prop < key.prop
  <2>1. l # low BY <1>9, <1>13, <1>15
  <2>2. s1[l] = s[l] BY <1>8, <1>10, <2>1
  <2> QED BY <1>9, <1>15, <2>2
<1>16. ASSUME NEW j \in low + 1 .. l - 1 PROVE s[j].prop >= key.prop
  <2>1. j \in 1 .. Len(s) /\ j # low /\ j \in low .. l - 1 BY <1>10
  <2>2. s1[j] = s[j] BY <1>8, <2>1
  <2> QED BY <1>9, <2>1, <2>2
<1>17. s1[l] = IF l = low THEN s[h] ELSE s[l] BY <1>8, <1>10
<1>18. \A j \in 1 .. Len(s) :
         t[j] = IF j = h THEN (IF l = low THEN s[h] ELSE s[l])
                ELSE IF j = low THEN s[h] ELSE s[j]
  BY <1>8, <1>12, <1>17
<1> QED BY <1>1, <1>9, <1>12, <1>13, <1>14, <1>15, <1>16, <1>18, Zenon DEF Round

LEMMA KeyedParts ==
  ASSUME NEW a \in Keyed
  PROVE  /\ a[1] \in List /\ a[2] \in Nat /\ a[3] \in Nat /\ a[4] \in Detection
         /\ 1 <= a[2] /\ a[2] <= a[3] /\ a[3] <= Len(a[1])
         /\ a = <<a[1], a[2], a[3], a[4]>>
BY DEF Keyed, List

LEMMA PartsKeyed ==
  ASSUME NEW s \in List, NEW low \in Nat, NEW high \in Nat, NEW key \in Detection,
         1 <= low, low <= high, high <= Len(s)
  PROVE  <<s, low, high, key>> \in Keyed
BY DEF Keyed, List

SplitEnd(a) == [seq |-> [a[1] EXCEPT ![a[2]] = a[4]], mid |-> a[2]]

SplitNext(a) == <<Moved(a[1], a[2], a[3], a[4]), Free(a[1], a[2], a[3], a[4]),
                  LastAbove(a[1], a[2], a[3], a[4]), a[4]>>

SplitResult == [seq : List, mid : Nat]

(* The last round gives a list and a place in it.                          *)
LEMMA SplitEnds == \A a \in Keyed : SplitEnd(a) \in SplitResult
<1> SUFFICES ASSUME NEW a \in Keyed PROVE SplitEnd(a) \in SplitResult OBVIOUS
<1>1. /\ a[1] \in List /\ a[2] \in Nat /\ a[3] \in Nat /\ a[4] \in Detection
      /\ 1 <= a[2] /\ a[2] <= a[3] /\ a[3] <= Len(a[1])
  BY KeyedParts
<1>2. a[2] \in 1 .. Len(a[1]) /\ Len(a[1]) \in Nat BY <1>1, LenProperties DEF List
<1> DEFINE t == [a[1] EXCEPT ![a[2]] = a[4]]
<1>3. t \in List BY <1>1, <1>2, ExceptSeq DEF List
<1>4. SplitEnd(a) = [seq |-> t, mid |-> a[2]] BY DEF SplitEnd
<1> HIDE DEF t
<1> QED BY <1>1, <1>3, <1>4 DEF SplitResult

(* A round leaves a shorter stretch to split.                              *)
LEMMA SplitNexts ==
  \A a \in Keyed : a[2] < a[3] =>
    /\ SplitNext(a) \in Keyed
    /\ SplitNext(a)[3] - SplitNext(a)[2] < a[3] - a[2]
<1> SUFFICES ASSUME NEW a \in Keyed, a[2] < a[3]
             PROVE  /\ SplitNext(a) \in Keyed
                    /\ SplitNext(a)[3] - SplitNext(a)[2] < a[3] - a[2]
  OBVIOUS
<1> DEFINE t == Moved(a[1], a[2], a[3], a[4])
           l == Free(a[1], a[2], a[3], a[4])
           h == LastAbove(a[1], a[2], a[3], a[4])
<1>1. /\ a[1] \in List /\ a[2] \in Nat /\ a[3] \in Nat /\ a[4] \in Detection
      /\ 1 <= a[2] /\ a[2] <= a[3] /\ a[3] <= Len(a[1])
  BY KeyedParts
<1>2. /\ h \in a[2] .. a[3] /\ l \in a[2] .. h /\ h - l < a[3] - a[2]
      /\ t \in List /\ Len(t) = Len(a[1])
  <2>1. h = LastAbove(a[1], a[2], a[3], a[4]) /\ l = Free(a[1], a[2], a[3], a[4])
        /\ t = Moved(a[1], a[2], a[3], a[4])
    OBVIOUS
  <2> HIDE DEF t, l, h
  <2> DEFINE s == a[1]
             low == a[2]
             high == a[3]
             key == a[4]
  <2>2. h = LastAbove(s, low, high, key) /\ l = Free(s, low, high, key)
        /\ t = Moved(s, low, high, key)
    BY <2>1
  <2>3. /\ s \in List /\ low \in Nat /\ high \in Nat /\ key \in Detection
        /\ 1 <= low /\ low < high /\ high <= Len(s)
    BY <1>1
  <2> HIDE DEF s, low, high, key
  <2>4. /\ h \in low .. high /\ l \in low .. h /\ h - l < high - low
        /\ t \in List /\ Len(t) = Len(s)
    BY <2>2, <2>3, Moves DEF Round
  <2> QED BY <2>4 DEF s, low, high
<1>3. SplitNext(a) = <<t, l, h, a[4]>> BY DEF SplitNext
<1> HIDE DEF t, l, h
<1>4. Len(a[1]) \in Nat BY <1>1, LenProperties DEF List
<1>5. l \in Nat /\ h \in Nat /\ 1 <= l /\ l <= h /\ h <= Len(t) BY <1>1, <1>2, <1>4
<1>6. <<t, l, h, a[4]>> \in Keyed BY <1>1, <1>2, <1>5, PartsKeyed
<1>7. ASSUME NEW p, NEW b1, NEW b2, NEW b3, NEW b4, p = <<b1, b2, b3, b4>>
      PROVE  p[3] = b3 /\ p[2] = b2
  BY <1>7
<1>8. SplitNext(a)[3] = h /\ SplitNext(a)[2] = l BY <1>3, <1>7
<1> QED BY <1>2, <1>3, <1>6, <1>8

(* There is a function that goes round like this.                          *)
LEMMA SplitExists ==
  \E f \in [Keyed -> SplitResult] : f =
    [a \in Keyed |-> IF a[2] >= a[3] THEN SplitEnd(a) ELSE f[SplitNext(a)]]
<1> DEFINE A == Keyed
           V == SplitResult
           R == A \X V
           size == [a \in A |-> a[3] - a[2]]
           done == {a \in A : a[2] >= a[3]}
           end == [a \in A |-> SplitEnd(a)]
           first == [a \in A |-> IF a[2] >= a[3] THEN a ELSE SplitNext(a)]
           cont == [x \in A \X V |-> first[x[1]]]
<1>1. \A a \in A : a[2] \in Nat /\ a[3] \in Nat /\ a[2] <= a[3] BY KeyedParts
<1>2. size \in [A -> Nat] BY <1>1
<1>3. end \in [A -> V] /\ Goes(end, A, R) BY SplitEnds DEF Goes
<1>4. first \in [A -> A] BY <1>1, SplitNexts
<1>5. ASSUME NEW a \in A \ done
      PROVE  /\ first[a] = SplitNext(a) /\ first[a] \in A
             /\ size[first[a]] < size[a]
  <2>1. a \in A /\ ~ (a[2] >= a[3]) /\ a[2] < a[3] BY <1>1
  <2>2. first[a] = SplitNext(a) /\ SplitNext(a) \in A BY <2>1, SplitNexts
  <2>3. size[a] = a[3] - a[2] /\ size[SplitNext(a)] = SplitNext(a)[3] - SplitNext(a)[2]
    BY <2>1, <2>2
  <2> HIDE DEF size, first
  <2> QED BY <2>1, <2>2, <2>3, SplitNexts
<1>6. \A a \in A, v \in V : cont[<<a, v>>] = first[a] OBVIOUS
<1> HIDE DEF A, V, size, end, first, cont
<1>7. \A a \in done : a \in A OBVIOUS
<1>8. Descends(A, V, R, size, done, end, first, cont)
  <2>1. \A a \in done : <<a, end[a]>> \in R BY <1>3, <1>7 DEF Goes
  <2>2. ASSUME NEW a \in A \ done
        PROVE  /\ size[first[a]] < size[a]
               /\ \A v \in V : <<first[a], v>> \in R =>
                    /\ cont[<<a, v>>] \in A
                    /\ size[cont[<<a, v>>]] < size[a]
                    /\ \A w \in V : <<cont[<<a, v>>], w>> \in R => <<a, w>> \in R
    BY <1>5, <1>6
  <2> HIDE DEF done, R
  <2> QED BY <1>2, <1>3, <1>4, <2>1, <2>2 DEF Descends
<1>9. done \in SUBSET A OBVIOUS
<1>10. \E f \in [A -> V] : Goes(f, A, R) /\ Calls(f, A, done, end, first, cont)
  <2> HIDE DEF done, R
  <2> QED BY <1>3, <1>8, <1>9, NestedRecursion
<1>11. PICK f \in [A -> V] : Calls(f, A, done, end, first, cont) BY <1>10
<1>12. ASSUME NEW a \in A
       PROVE  f[a] = IF a[2] >= a[3] THEN SplitEnd(a) ELSE f[SplitNext(a)]
  <2>1. f[a] = IF a \in done THEN end[a] ELSE f[cont[<<a, f[first[a]]>>]]
    <3> HIDE DEF done
    <3> QED BY <1>11 DEF Calls
  <2>2. CASE a[2] >= a[3] BY <2>1, <2>2 DEF end
  <2>3. CASE ~ (a[2] >= a[3])
    <3>1. a \in A \ done BY <2>3
    <3>2. f[first[a]] \in V BY <1>5, <3>1
    <3>3. cont[<<a, f[first[a]]>>] = SplitNext(a) BY <1>5, <1>6, <3>1, <3>2
    <3> QED BY <2>1, <2>3, <3>1, <3>3
  <2> QED BY <2>2, <2>3
<1>13. f = [a \in A |-> IF a[2] >= a[3] THEN SplitEnd(a) ELSE f[SplitNext(a)]] BY <1>12
<1> QED BY <1>13 DEF A, V

(* Split goes round like this.                                             *)
LEMMA SplitSteps ==
  \A a \in Keyed : Split[a] = IF a[2] >= a[3] THEN SplitEnd(a) ELSE Split[SplitNext(a)]
<1> DEFINE Body(f) == [a \in Keyed |-> IF a[2] >= a[3] THEN SplitEnd(a) ELSE f[SplitNext(a)]]
<1>1. Split = CHOOSE f : f = Body(f)
  BY Zenon DEF Split, Keyed, SplitEnd, SplitNext, Moved, Taken, Free
<1>2. PICK f \in [Keyed -> SplitResult] : f = Body(f) BY SplitExists
<1> HIDE DEF Body
<1>3. Split = Body(Split) BY <1>1, <1>2, Zenon
<1>4. \A a \in Keyed : Body(Split)[a] = IF a[2] >= a[3] THEN SplitEnd(a) ELSE Split[SplitNext(a)] BY DEF Body
<1> QED BY <1>3, <1>4, Zenon

(* The places of a list, moved about within lo .. hi.                      *)
Perms(n, lo, hi) ==
  {p \in [1 .. n -> 1 .. n] :
     /\ \A k \in 1 .. n : \E j \in 1 .. n : p[j] = k
     /\ \A k \in 1 .. n : k < lo \/ hi < k => p[k] = k
     /\ \A k \in 1 .. n : lo <= k /\ k <= hi => lo <= p[k] /\ p[k] <= hi}

Shuffle(s, t, lo, hi) ==
  \E p \in Perms(Len(s), lo, hi) : \A k \in 1 .. Len(s) : t[k] = s[p[k]]

LEMMA ShuffleSame ==
  ASSUME NEW s, NEW t, Len(s) \in Nat, NEW lo \in Int, NEW hi \in Int,
         \A k \in 1 .. Len(s) : t[k] = s[k]
  PROVE  Shuffle(s, t, lo, hi)
<1> DEFINE p == [k \in 1 .. Len(s) |-> k]
<1>1. p \in Perms(Len(s), lo, hi) BY DEF Perms
<1>2. \A k \in 1 .. Len(s) : t[k] = s[p[k]] OBVIOUS
<1> HIDE DEF p
<1> QED BY <1>1, <1>2 DEF Shuffle

LEMMA ShuffleWider ==
  ASSUME NEW s, NEW t, Len(s) \in Nat, NEW lo \in Int, NEW hi \in Int,
         NEW lo2 \in Int, NEW hi2 \in Int, lo2 <= lo, hi <= hi2,
         Shuffle(s, t, lo, hi)
  PROVE  Shuffle(s, t, lo2, hi2)
<1>1. PICK p \in Perms(Len(s), lo, hi) : \A k \in 1 .. Len(s) : t[k] = s[p[k]]
  BY DEF Shuffle
<1>2. /\ p \in [1 .. Len(s) -> 1 .. Len(s)]
      /\ \A k \in 1 .. Len(s) : \E j \in 1 .. Len(s) : p[j] = k
      /\ \A k \in 1 .. Len(s) : k < lo \/ hi < k => p[k] = k
      /\ \A k \in 1 .. Len(s) : lo <= k /\ k <= hi => lo <= p[k] /\ p[k] <= hi
  BY <1>1 DEF Perms
<1>3. \A k \in 1 .. Len(s) : k < lo2 \/ hi2 < k => p[k] = k BY <1>2
<1>4. \A k \in 1 .. Len(s) : lo2 <= k /\ k <= hi2 => lo2 <= p[k] /\ p[k] <= hi2
  <2> SUFFICES ASSUME NEW k \in 1 .. Len(s), lo2 <= k, k <= hi2
               PROVE  lo2 <= p[k] /\ p[k] <= hi2
    OBVIOUS
  <2>4. p[k] \in 1 .. Len(s) BY <1>2
  <2>0. p[k] \in Int BY <2>4
  <2>1. CASE lo <= k /\ k <= hi BY <1>2, <2>0, <2>1
  <2>2. CASE ~ (lo <= k /\ k <= hi) BY <1>2, <2>2
  <2> QED BY <2>1, <2>2
<1>5. p \in Perms(Len(s), lo2, hi2) BY <1>2, <1>3, <1>4 DEF Perms
<1> QED BY <1>1, <1>5 DEF Shuffle

(* One shuffle after the other is a shuffle.                               *)
LEMMA ShuffleThen ==
  ASSUME NEW s, NEW t, NEW u, Len(s) \in Nat, Len(t) = Len(s), NEW lo \in Int, NEW hi \in Int,
         Shuffle(s, t, lo, hi), Shuffle(t, u, lo, hi)
  PROVE  Shuffle(s, u, lo, hi)
<1>1. PICK p \in Perms(Len(s), lo, hi) : \A k \in 1 .. Len(s) : t[k] = s[p[k]]
  BY DEF Shuffle
<1>2. PICK q \in Perms(Len(s), lo, hi) : \A k \in 1 .. Len(s) : u[k] = t[q[k]]
  BY DEF Shuffle
<1>3. /\ p \in [1 .. Len(s) -> 1 .. Len(s)]
      /\ \A k \in 1 .. Len(s) : \E j \in 1 .. Len(s) : p[j] = k
      /\ \A k \in 1 .. Len(s) : k < lo \/ hi < k => p[k] = k
      /\ \A k \in 1 .. Len(s) : lo <= k /\ k <= hi => lo <= p[k] /\ p[k] <= hi
  BY <1>1 DEF Perms
<1>4. /\ q \in [1 .. Len(s) -> 1 .. Len(s)]
      /\ \A k \in 1 .. Len(s) : \E j \in 1 .. Len(s) : q[j] = k
      /\ \A k \in 1 .. Len(s) : k < lo \/ hi < k => q[k] = k
      /\ \A k \in 1 .. Len(s) : lo <= k /\ k <= hi => lo <= q[k] /\ q[k] <= hi
  BY <1>2 DEF Perms
<1> DEFINE r == [k \in 1 .. Len(s) |-> p[q[k]]]
<1>5. r \in [1 .. Len(s) -> 1 .. Len(s)] BY <1>3, <1>4
<1>6. \A k \in 1 .. Len(s) : r[k] = p[q[k]] OBVIOUS
<1> HIDE DEF r
<1>7. \A k \in 1 .. Len(s) : \E j \in 1 .. Len(s) : r[j] = k
  <2> SUFFICES ASSUME NEW k \in 1 .. Len(s) PROVE \E j \in 1 .. Len(s) : r[j] = k
    OBVIOUS
  <2>1. PICK m \in 1 .. Len(s) : p[m] = k BY <1>3
  <2>2. PICK j \in 1 .. Len(s) : q[j] = m BY <1>4
  <2> QED BY <1>6, <2>1, <2>2
<1>8. \A k \in 1 .. Len(s) : k < lo \/ hi < k => r[k] = k BY <1>3, <1>4, <1>6
<1>9. \A k \in 1 .. Len(s) : lo <= k /\ k <= hi => lo <= r[k] /\ r[k] <= hi
  <2> SUFFICES ASSUME NEW k \in 1 .. Len(s), lo <= k, k <= hi
               PROVE  lo <= r[k] /\ r[k] <= hi
    OBVIOUS
  <2>1. q[k] \in 1 .. Len(s) /\ lo <= q[k] /\ q[k] <= hi BY <1>4
  <2> QED BY <1>3, <1>6, <2>1
<1>10. r \in Perms(Len(s), lo, hi) BY <1>5, <1>7, <1>8, <1>9 DEF Perms
<1>11. \A k \in 1 .. Len(s) : u[k] = s[r[k]] BY <1>1, <1>2, <1>4, <1>6
<1> QED BY <1>10, <1>11 DEF Shuffle

(* One round moves the free place from low to l, and what was there.       *)
Put(s, k, e, t) ==
  Len(t) = Len(s) /\ \A j \in 1 .. Len(s) : t[j] = IF j = k THEN e ELSE s[j]

LEMMA MovesShuffle ==
  ASSUME NEW s, Len(s) \in Nat, NEW low \in Nat, NEW high \in Nat, NEW key,
         1 <= low, low < high, high <= Len(s),
         NEW h \in low .. high, NEW l \in low .. h, h = low \/ low < l,
         NEW t, NEW s1, NEW t1, Put(s, low, key, s1), Put(t, l, key, t1),
         Len(t) = Len(s),
         \A j \in 1 .. Len(s) :
           t[j] = IF j = h THEN (IF l = low THEN s[h] ELSE s[l])
                  ELSE IF j = low THEN s[h] ELSE s[j]
  PROVE  Shuffle(s1, t1, low, high)
<1> DEFINE n == Len(s)
           p == [k \in 1 .. n |-> IF k = l THEN low
                                  ELSE IF k = low THEN h
                                  ELSE IF k = h THEN l ELSE k]
<1>1. low \in 1 .. n /\ h \in 1 .. n /\ l \in 1 .. n OBVIOUS
<1>2. p \in [1 .. n -> 1 .. n] BY <1>1
<1>3. \A k \in 1 .. n : p[k] = IF k = l THEN low
                               ELSE IF k = low THEN h
                               ELSE IF k = h THEN l ELSE k
  OBVIOUS
<1> HIDE DEF p, n
<1>4. \A k \in 1 .. n : \E j \in 1 .. n : p[j] = k
  <2> SUFFICES ASSUME NEW k \in 1 .. n PROVE \E j \in 1 .. n : p[j] = k
    OBVIOUS
  <2>1. CASE k = low BY <1>1, <1>3, <2>1
  <2>2. CASE k # low /\ k = h
    <3>1. l # low BY <2>2
    <3> QED BY <1>1, <1>3, <2>2, <3>1
  <2>3. CASE k # low /\ k # h /\ k = l
    <3>1. h # l /\ h # low BY <2>3
    <3> QED BY <1>1, <1>3, <2>3, <3>1
  <2>4. CASE k # low /\ k # h /\ k # l BY <1>3, <2>4
  <2> QED BY <2>1, <2>2, <2>3, <2>4
<1>5. \A k \in 1 .. n : k < low \/ high < k => p[k] = k BY <1>3
<1>6. \A k \in 1 .. n : low <= k /\ k <= high => low <= p[k] /\ p[k] <= high BY <1>3
<1>7. p \in Perms(n, low, high) BY <1>2, <1>4, <1>5, <1>6 DEF Perms
<1>8. ASSUME NEW k \in 1 .. n PROVE t1[k] = s1[p[k]]
  <2>0. /\ t1[k] = IF k = l THEN key
                   ELSE IF k = h THEN (IF l = low THEN s[h] ELSE s[l])
                   ELSE IF k = low THEN s[h] ELSE s[k]
        /\ p[k] = IF k = l THEN low
                  ELSE IF k = low THEN h
                  ELSE IF k = h THEN l ELSE k
    BY <1>3 DEF n, Put
  <2>1. \A j \in 1 .. n : s1[j] = IF j = low THEN key ELSE s[j] BY DEF n, Put
  <2>2. CASE k = l BY <1>1, <2>0, <2>1, <2>2
  <2>3. CASE k # l /\ k = low
    <3>1. h # low BY <2>3
    <3> QED BY <1>1, <2>0, <2>1, <2>3, <3>1
  <2>4. CASE k # l /\ k # low /\ k = h
    <3>1. l # low BY <2>4
    <3> QED BY <1>1, <2>0, <2>1, <2>4, <3>1
  <2>5. CASE k # l /\ k # low /\ k # h BY <2>0, <2>1, <2>5
  <2> QED BY <2>2, <2>3, <2>4, <2>5
<1>9. Len(s1) = n BY DEF n, Put
<1> QED BY <1>7, <1>8, <1>9 DEF Shuffle

(* What Split promises of its result.                                      *)
SplitRight(a, r) ==
  /\ r \in SplitResult /\ r.mid \in a[2] .. a[3] /\ Len(r.seq) = Len(a[1])
  /\ r.seq[r.mid] = a[4]
  /\ Shuffle([a[1] EXCEPT ![a[2]] = a[4]], r.seq, a[2], a[3])
  /\ \A j \in a[2] .. r.mid - 1 : r.seq[j].prop >= a[4].prop
  /\ \A j \in r.mid + 1 .. a[3] : r.seq[j].prop <= a[4].prop

LEMMA FourParts ==
  ASSUME NEW p, NEW x1, NEW x2, NEW x3, NEW x4, p = <<x1, x2, x3, x4>>
  PROVE  p[1] = x1 /\ p[2] = x2 /\ p[3] = x3 /\ p[4] = x4
OBVIOUS

(* The key is put in the place where low and high have met.                *)
LEMMA SplitEndRight ==
  ASSUME NEW a \in Keyed, a[2] >= a[3] PROVE SplitRight(a, SplitEnd(a))
<1>1. /\ a[1] \in List /\ a[2] \in Nat /\ a[3] \in Nat /\ a[4] \in Detection
      /\ 1 <= a[2] /\ a[2] <= a[3] /\ a[3] <= Len(a[1])
  BY KeyedParts
<1>2. a[2] = a[3] /\ Len(a[1]) \in Nat /\ a[2] \in 1 .. Len(a[1])
  BY <1>1, LenProperties DEF List
<1> DEFINE t == [a[1] EXCEPT ![a[2]] = a[4]]
           r == SplitEnd(a)
<1>3. t \in List /\ Len(t) = Len(a[1]) /\ t[a[2]] = a[4] BY <1>1, <1>2, ExceptSeq DEF List
<1>4. r = [seq |-> t, mid |-> a[2]] BY DEF SplitEnd
<1>5. r \in SplitResult BY SplitEnds
<1> HIDE DEF t, r
<1>6. r.seq = t /\ r.mid = a[2] BY <1>4
<1>7. Shuffle(t, r.seq, a[2], a[3])
  <2>1. Len(t) \in Nat /\ a[2] \in Int /\ a[3] \in Int BY <1>1, <1>2, <1>3
  <2>2. \A k \in 1 .. Len(t) : r.seq[k] = t[k] BY <1>6
  <2> QED BY <2>1, <2>2, ShuffleSame
<1>8. \A j \in Int : ~ (j \in a[2] .. a[2] - 1) /\ ~ (j \in a[2] + 1 .. a[3]) BY <1>1, <1>2
<1>9. /\ r.mid \in a[2] .. a[3] /\ Len(r.seq) = Len(a[1]) /\ r.seq[r.mid] = a[4]
  BY <1>1, <1>2, <1>3, <1>6
<1>10. /\ \A j \in a[2] .. r.mid - 1 : r.seq[j].prop >= a[4].prop
       /\ \A j \in r.mid + 1 .. a[3] : r.seq[j].prop <= a[4].prop
  BY <1>1, <1>6, <1>8
<1>11. SplitRight(a, r)
  <2>1. Shuffle([a[1] EXCEPT ![a[2]] = a[4]], r.seq, a[2], a[3]) BY <1>7 DEF t
  <2> QED BY <1>5, <1>9, <1>10, <2>1, Zenon DEF SplitRight
<1> QED BY <1>11 DEF r

(* What lies outside stays.                                                *)
LEMMA ShuffleOutside ==
  ASSUME NEW s, NEW t, Len(s) \in Nat, NEW lo \in Int, NEW hi \in Int,
         Shuffle(s, t, lo, hi), NEW k \in 1 .. Len(s), k < lo \/ hi < k
  PROVE  t[k] = s[k]
BY DEF Shuffle, Perms

(* What lies inside comes from inside.                                     *)
LEMMA ShuffleInside ==
  ASSUME NEW s, NEW t, Len(s) \in Nat, NEW lo \in Int, NEW hi \in Int,
         Shuffle(s, t, lo, hi), NEW k \in 1 .. Len(s), lo <= k, k <= hi
  PROVE  \E m \in 1 .. Len(s) : lo <= m /\ m <= hi /\ t[k] = s[m]
<1>1. PICK p \in Perms(Len(s), lo, hi) : t[k] = s[p[k]] BY DEF Shuffle
<1>2. p[k] \in 1 .. Len(s) /\ lo <= p[k] /\ p[k] <= hi BY DEF Perms
<1> QED BY <1>1, <1>2

(* What the rounds to come promise of their stretch is, with this round,   *)
(* what Split promises.                                                    *)
LEMMA SplitNextRight ==
  ASSUME NEW a \in Keyed, a[2] < a[3], NEW r, SplitRight(SplitNext(a), r)
  PROVE  SplitRight(a, r)
<1> DEFINE s == a[1]
           low == a[2]
           high == a[3]
           key == a[4]
           h == LastAbove(s, low, high, key)
           l == Free(s, low, high, key)
           t == Moved(s, low, high, key)
<1>1. /\ s \in List /\ low \in Nat /\ high \in Nat /\ key \in Detection
      /\ 1 <= low /\ low < high /\ high <= Len(s)
  BY KeyedParts
<1>2. Len(s) \in Nat BY <1>1, LenProperties DEF List
<1>3. SplitNext(a) = <<t, l, h, key>> BY DEF SplitNext
<1>4. h = LastAbove(s, low, high, key) /\ l = Free(s, low, high, key)
      /\ t = Moved(s, low, high, key)
  OBVIOUS
<1> HIDE DEF s, low, high, key, h, l, t
<1>5. /\ h \in low .. high /\ l \in low .. h
      /\ t \in List /\ Len(t) = Len(s)
      /\ h = low \/ (low < l /\ s[h].prop > key.prop)
      /\ \A j \in h + 1 .. high : s[j].prop <= key.prop
      /\ \A j \in low + 1 .. l - 1 : s[j].prop >= key.prop
      /\ \A j \in 1 .. Len(s) :
           t[j] = IF j = h THEN (IF l = low THEN s[h] ELSE s[l])
                  ELSE IF j = low THEN s[h] ELSE s[j]
  <2>1. Round(s, low, high, key, h, l, t) BY <1>1, <1>4, Moves
  <2> QED BY <2>1 DEF Round
<1> DEFINE s1 == [s EXCEPT ![low] = key]
           t1 == [t EXCEPT ![l] = key]
<1>6. /\ r \in SplitResult /\ r.mid \in l .. h /\ Len(r.seq) = Len(s)
      /\ r.seq[r.mid] = key
      /\ Shuffle(t1, r.seq, l, h)
      /\ \A j \in l .. r.mid - 1 : r.seq[j].prop >= key.prop
      /\ \A j \in r.mid + 1 .. h : r.seq[j].prop <= key.prop
  <2> DEFINE b == SplitNext(a)
  <2>1. b[1] = t /\ b[2] = l /\ b[3] = h /\ b[4] = key BY <1>3, FourParts
  <2>2. /\ r \in SplitResult /\ r.mid \in b[2] .. b[3] /\ Len(r.seq) = Len(b[1])
        /\ r.seq[r.mid] = b[4]
        /\ Shuffle([b[1] EXCEPT ![b[2]] = b[4]], r.seq, b[2], b[3])
        /\ \A j \in b[2] .. r.mid - 1 : r.seq[j].prop >= b[4].prop
        /\ \A j \in r.mid + 1 .. b[3] : r.seq[j].prop <= b[4].prop
    BY DEF SplitRight
  <2> HIDE DEF b
  <2> QED BY <1>5, <2>1, <2>2
<1>7. low \in 1 .. Len(s) /\ l \in 1 .. Len(s) /\ h \in 1 .. Len(s) BY <1>1, <1>2, <1>5
<1>8. /\ s1 \in List /\ Len(s1) = Len(s)
      /\ \A j \in 1 .. Len(s) : s1[j] = IF j = low THEN key ELSE s[j]
  BY <1>1, <1>7, ExceptSeq DEF List
<1>9. /\ t1 \in List /\ Len(t1) = Len(s)
      /\ \A j \in 1 .. Len(s) : t1[j] = IF j = l THEN key ELSE t[j]
  BY <1>1, <1>5, <1>7, ExceptSeq DEF List
<1> HIDE DEF s1, t1
<1>10. \A j \in 1 .. Len(s) :
         t1[j] = IF j = l THEN key
                 ELSE IF j = h THEN (IF l = low THEN s[h] ELSE s[l])
                 ELSE IF j = low THEN s[h] ELSE s[j]
  BY <1>5, <1>9
<1>11. Shuffle(s1, t1, low, high)
  <2>1. h = low \/ low < l BY <1>5
  <2>2. 1 <= low /\ low < high /\ high <= Len(s) /\ low \in Nat /\ high \in Nat BY <1>1
  <2>3. h \in low .. high /\ l \in low .. h BY <1>5
  <2>4. Put(s, low, key, s1) /\ Put(t, l, key, t1) BY <1>5, <1>8, <1>9 DEF Put
  <2>5. Len(t) = Len(s)
        /\ \A j \in 1 .. Len(s) :
              t[j] = IF j = h THEN (IF l = low THEN s[h] ELSE s[l])
                     ELSE IF j = low THEN s[h] ELSE s[j]
    BY <1>5
  <2> QED BY <1>2, <2>1, <2>2, <2>3, <2>4, <2>5, MovesShuffle
<1>12. Shuffle(s1, r.seq, low, high)
  <2>1. /\ low \in Int /\ high \in Int /\ l \in Int /\ h \in Int
        /\ low <= l /\ h <= high
    BY <1>1, <1>5
  <2>2. Len(t1) \in Nat /\ Len(s1) \in Nat /\ Len(t1) = Len(s1) BY <1>2, <1>8, <1>9
  <2>3. Shuffle(t1, r.seq, low, high) BY <1>6, <2>1, <2>2, ShuffleWider
  <2> QED BY <1>11, <2>1, <2>2, <2>3, ShuffleThen
<1>13. \A j \in 1 .. Len(s) : j < l \/ h < j => r.seq[j] = t[j]
  <2> SUFFICES ASSUME NEW j \in 1 .. Len(s), j < l \/ h < j PROVE r.seq[j] = t[j]
    OBVIOUS
  <2>1. l \in Int /\ h \in Int /\ Len(t1) \in Nat /\ j \in 1 .. Len(t1)
    BY <1>2, <1>7, <1>9
  <2>4. Shuffle(t1, r.seq, l, h) BY <1>6
  <2>2. r.seq[j] = t1[j] 
    <3> HIDE DEF t1
    <3>1. /\ Len(t1) \in Nat /\ l \in Int /\ h \in Int /\ j \in 1 .. Len(t1)
          /\ (j < l \/ h < j)
      BY <2>1
    <3>2. \A k \in 1 .. Len(t1) : k < l \/ h < k => r.seq[k] = t1[k]
      BY <2>4, <3>1, ShuffleOutside
    <3> QED BY <3>1, <3>2
  <2>3. j # l BY <1>5, <1>1
  <2> QED BY <1>9, <2>2, <2>3
<1>14. key.prop \in Int BY <1>1 DEF Detection
<1>15. ASSUME NEW j \in low .. r.mid - 1 PROVE r.seq[j].prop >= key.prop
  <2>1. r.mid \in Int /\ r.mid <= h /\ j \in 1 .. Len(s) BY <1>1, <1>2, <1>5, <1>6
  <2>2. CASE j >= l
    <3>1. j \in l .. r.mid - 1 BY <1>1, <1>5, <2>2
    <3> QED BY <1>6, <3>1
  <2>3. CASE j < l /\ j # low
    <3>1. j # h /\ j \in low + 1 .. l - 1 BY <1>1, <1>5, <2>3
    <3>2. r.seq[j] = s[j] BY <1>5, <1>13, <2>1, <2>3, <3>1
    <3> QED BY <1>5, <3>1, <3>2
  <2>4. CASE j < l /\ j = low
    <3>1. h # low /\ j # h BY <1>1, <1>5, <2>4
    <3>2. r.seq[j] = s[h] BY <1>5, <1>13, <2>1, <2>4, <3>1
    <3>3. s[h].prop \in Int /\ s[h].prop > key.prop BY <1>1, <1>5, <1>7, <3>1, Props
    <3> QED BY <1>14, <3>2, <3>3
  <2> QED BY <1>1, <1>5, <2>1, <2>2, <2>3, <2>4
<1>16. ASSUME NEW j \in r.mid + 1 .. high PROVE r.seq[j].prop <= key.prop
  <2>1. r.mid \in Int /\ r.mid >= l /\ j \in 1 .. Len(s) /\ j > l BY <1>1, <1>2, <1>5, <1>6, <1>7
  <2>2. CASE j <= h
    <3>1. j \in r.mid + 1 .. h BY <1>1, <1>5, <2>1, <2>2
    <3> QED BY <1>6, <3>1
  <2>3. CASE j > h
    <3>1. j # h /\ j # low /\ j \in h + 1 .. high BY <1>1, <1>5, <2>3
    <3>2. r.seq[j] = s[j] BY <1>5, <1>13, <2>1, <2>3, <3>1
    <3> QED BY <1>5, <3>1, <3>2
  <2> QED BY <1>5, <1>7, <2>1, <2>2, <2>3
<1>17. r.mid \in low .. high BY <1>1, <1>5, <1>6
<1> QED BY <1>6, <1>12, <1>15, <1>16, <1>17 DEF SplitRight, s1, s, low, high, key

(* The partition of quick_sort_indice_inverse: the scores left of the key  *)
(* are no lower, those right of it no higher, and the list is the same up  *)
(* to order.                                                               *)
LEMMA SplitCorrect == \A a \in Keyed : SplitRight(a, Split[a])
<1> DEFINE S == {n \in Nat : \A a \in Keyed : a[3] - a[2] <= n => SplitRight(a, Split[a])}
<1>1. \A a \in Keyed : a[2] \in Nat /\ a[3] \in Nat /\ a[2] <= a[3] BY KeyedParts
<1>2. ASSUME NEW a \in Keyed, a[2] >= a[3] PROVE SplitRight(a, Split[a])
  BY <1>2, SplitSteps, SplitEndRight
<1>3. 0 \in S
  <2> SUFFICES ASSUME NEW a \in Keyed, a[3] - a[2] <= 0 PROVE SplitRight(a, Split[a])
    OBVIOUS
  <2>1. a[2] >= a[3] BY <1>1
  <2> QED BY <1>2, <2>1
<1>4. \A n \in Nat : n \in S => n + 1 \in S
  <2> SUFFICES ASSUME NEW n \in Nat, n \in S, NEW a \in Keyed, a[3] - a[2] <= n + 1
               PROVE  SplitRight(a, Split[a])
    OBVIOUS
  <2>1. CASE a[2] >= a[3] BY <1>2, <2>1
  <2>2. CASE ~ (a[2] >= a[3])
    <3>1. a[2] < a[3] BY <1>1, <2>2
    <3> DEFINE b == SplitNext(a)
    <3>2. b \in Keyed /\ b[3] - b[2] < a[3] - a[2] BY <3>1, SplitNexts
    <3>3. Split[a] = Split[b] BY <2>2, SplitSteps
    <3> HIDE DEF b
    <3>4. b[3] - b[2] <= n BY <1>1, <3>2
    <3>5. SplitRight(b, Split[b]) BY <3>2, <3>4
    <3>6. SplitRight(SplitNext(a), Split[a]) BY <3>3, <3>5 DEF b
    <3> QED BY <3>1, <3>6, SplitNextRight
  <2> QED BY <2>1, <2>2
<1>5. Nat \subseteq S
  <2> HIDE DEF S
  <2> QED BY <1>3, <1>4, Induction
<1> SUFFICES ASSUME NEW a \in Keyed PROVE SplitRight(a, Split[a]) OBVIOUS
<1>6. a[3] - a[2] \in Nat BY <1>1
<1>7. a[3] - a[2] \in S
  <2> HIDE DEF S
  <2> QED BY <1>5, <1>6
<1> QED BY <1>6, <1>7

LEMMA RangedParts ==
  ASSUME NEW a \in Ranged
  PROVE  /\ a[1] \in List /\ a[2] \in Nat /\ a[3] \in Nat
         /\ 1 <= a[2] /\ a[2] <= a[3] + 1 /\ a[3] <= Len(a[1])
BY DEF Ranged, List

LEMMA PartsRanged ==
  ASSUME NEW s \in List, NEW left \in Nat, NEW right \in Nat,
         1 <= left, left <= right + 1, right <= Len(s)
  PROVE  <<s, left, right>> \in Ranged
BY DEF Ranged, List

LEMMA ThreeParts ==
  ASSUME NEW p, NEW x1, NEW x2, NEW x3, p = <<x1, x2, x3>>
  PROVE  p[1] = x1 /\ p[2] = x2 /\ p[3] = x3
OBVIOUS

Pivot(a) == Split[<<a[1], a[2], a[3], Key(a[1], a[2], a[3])>>]

Lower(a) == <<Pivot(a).seq, a[2], Pivot(a).mid - 1>>

Upper(a, v) == <<v, Pivot(a).mid + 1, a[3]>>

PivotRight(a, r, key) ==
  /\ r.seq \in List /\ r.mid \in a[2] .. a[3] /\ Len(r.seq) = Len(a[1])
  /\ key.prop \in Int /\ r.seq[r.mid] = key
  /\ Shuffle(a[1], r.seq, a[2], a[3])
  /\ \A j \in a[2] .. r.mid - 1 : r.seq[j].prop >= key.prop
  /\ \A j \in r.mid + 1 .. a[3] : r.seq[j].prop <= key.prop

(* The partition, as quick_sort_indice_inverse calls it.                   *)
LEMMA Pivots ==
  ASSUME NEW a \in Ranged, a[2] < a[3] PROVE PivotRight(a, Pivot(a), a[1][a[2]])
<1> DEFINE s == a[1]
           left == a[2]
           right == a[3]
           key == s[left]
           b == <<s, left, right, key>>
           r == Split[b]
<1>1. /\ s \in List /\ left \in Nat /\ right \in Nat
      /\ 1 <= left /\ left < right /\ right <= Len(s)
  BY RangedParts
<1>2. Pivot(a) = r BY DEF Pivot, Key
<1> HIDE DEF s, left, right
<1>3. Len(s) \in Nat /\ left \in 1 .. Len(s) BY <1>1, LenProperties DEF List
<1>4. key \in Detection /\ key.prop \in Int BY <1>1, <1>3, Props
<1> HIDE DEF key
<1>5. b \in Keyed
  <2>1. left <= right BY <1>1
  <2> QED BY <1>1, <1>4, <2>1, PartsKeyed
<1>6. b[1] = s /\ b[2] = left /\ b[3] = right /\ b[4] = key BY FourParts
<1> HIDE DEF b
<1>7. SplitRight(b, r) BY <1>5, SplitCorrect
<1> HIDE DEF r
<1>8. /\ r \in SplitResult /\ r.mid \in left .. right /\ Len(r.seq) = Len(s)
      /\ r.seq[r.mid] = key
      /\ Shuffle([s EXCEPT ![left] = key], r.seq, left, right)
      /\ \A j \in left .. r.mid - 1 : r.seq[j].prop >= key.prop
      /\ \A j \in r.mid + 1 .. right : r.seq[j].prop <= key.prop
  BY <1>6, <1>7 DEF SplitRight
<1>9. [s EXCEPT ![left] = key] = s BY <1>1, <1>3 DEF key, List
<1>10. r.seq \in List BY <1>8 DEF SplitResult
<1>11. /\ Shuffle(s, r.seq, left, right)
       /\ r.mid \in left .. right /\ Len(r.seq) = Len(s) /\ r.seq[r.mid] = key
  BY <1>8, <1>9
<1>12. PivotRight(a, r, key)
  BY <1>4, <1>8, <1>10, <1>11, Zenon DEF PivotRight, s, left, right
<1> QED BY <1>2, <1>12 DEF key, s, left

LEMMA PivotBounds ==
  ASSUME NEW a \in Ranged, a[2] < a[3]
  PROVE  /\ Pivot(a).seq \in List /\ Pivot(a).mid \in Nat
         /\ a[2] <= Pivot(a).mid /\ Pivot(a).mid <= a[3]
         /\ Len(Pivot(a).seq) = Len(a[1])
<1>1. PivotRight(a, Pivot(a), a[1][a[2]]) BY Pivots
<1>2. a[2] \in Nat /\ a[3] \in Nat BY RangedParts
<1> DEFINE r == Pivot(a)
<1> HIDE DEF r
<1>3. PivotRight(a, r, a[1][a[2]]) BY <1>1 DEF r
<1>4. r.seq \in List /\ r.mid \in a[2] .. a[3] /\ Len(r.seq) = Len(a[1]) BY <1>3 DEF PivotRight
<1>5. r.mid \in Nat /\ a[2] <= r.mid /\ r.mid <= a[3] BY <1>2, <1>4
<1> QED BY <1>4, <1>5 DEF r

(* The first recursive call is for a shorter stretch.                      *)
LEMMA Lowers ==
  ASSUME NEW a \in Ranged, a[2] < a[3]
  PROVE  /\ Lower(a) \in Ranged
         /\ Lower(a)[1] = Pivot(a).seq /\ Lower(a)[2] = a[2] /\ Lower(a)[3] = Pivot(a).mid - 1
         /\ Lower(a)[3] - Lower(a)[2] < a[3] - a[2]
<1> DEFINE r == Pivot(a)
           t == r.seq
           m == r.mid
<1>1. /\ a[1] \in List /\ a[2] \in Nat /\ a[3] \in Nat
      /\ 1 <= a[2] /\ a[3] <= Len(a[1])
  BY RangedParts
<1>2. t \in List /\ m \in Nat /\ a[2] <= m /\ m <= a[3] /\ Len(t) = Len(a[1]) BY PivotBounds
<1>3. Lower(a) = <<t, a[2], m - 1>> BY DEF Lower
<1> HIDE DEF r, t, m
<1>4. Len(t) \in Nat BY <1>2, LenProperties DEF List
<1>5. m - 1 \in Nat /\ a[2] <= (m - 1) + 1 /\ m - 1 <= Len(t) BY <1>1, <1>2, <1>4
<1>6. <<t, a[2], m - 1>> \in Ranged BY <1>1, <1>2, <1>5, PartsRanged
<1>7. Lower(a)[1] = t /\ Lower(a)[2] = a[2] /\ Lower(a)[3] = m - 1 BY <1>3, ThreeParts
<1>8. Lower(a)[3] - Lower(a)[2] < a[3] - a[2] BY <1>1, <1>2, <1>7
<1>9. Lower(a) \in Ranged BY <1>3, <1>6
<1> QED BY <1>7, <1>8, <1>9 DEF t, m, r

(* And the second.                                                         *)
LEMMA Uppers ==
  ASSUME NEW a \in Ranged, a[2] < a[3], NEW v \in List, Len(v) = Len(a[1])
  PROVE  /\ Upper(a, v) \in Ranged
         /\ Upper(a, v)[1] = v /\ Upper(a, v)[2] = Pivot(a).mid + 1 /\ Upper(a, v)[3] = a[3]
         /\ Upper(a, v)[3] - Upper(a, v)[2] < a[3] - a[2]
<1> DEFINE r == Pivot(a)
           m == r.mid
           u == Upper(a, v)
<1>1. /\ a[1] \in List /\ a[2] \in Nat /\ a[3] \in Nat
      /\ 1 <= a[2] /\ a[3] <= Len(a[1])
  BY RangedParts
<1>2. m \in Nat /\ a[2] <= m /\ m <= a[3] BY PivotBounds
<1>3. u = <<v, m + 1, a[3]>> BY DEF Upper
<1> HIDE DEF r, m, u
<1>5. m + 1 \in Nat /\ 1 <= m + 1 /\ m + 1 <= a[3] + 1 /\ a[3] <= Len(v) BY <1>1, <1>2
<1>6. <<v, m + 1, a[3]>> \in Ranged BY <1>1, <1>5, PartsRanged
<1>7. u[1] = v /\ u[2] = m + 1 /\ u[3] = a[3] BY <1>3, ThreeParts
<1>8. u[3] - u[2] < a[3] - a[2] BY <1>1, <1>2, <1>7
<1>9. u \in Ranged BY <1>3, <1>6
<1> QED BY <1>7, <1>8, <1>9 DEF m, r, u

(* There is a function that calls itself like this.                        *)
LEMMA SortExists ==
  \E f : f = [a \in Ranged |-> IF a[2] >= a[3] THEN a[1] ELSE f[Upper(a, f[Lower(a)])]]
<1> DEFINE A == Ranged
           V == List
           R == {x \in A \X V : Len(x[2]) = Len(x[1][1])}
           size == [a \in A |-> a[3] - a[2] + 1]
           done == {a \in A : a[2] >= a[3]}
           end == [a \in A |-> a[1]]
           first == [a \in A |-> IF a[2] >= a[3] THEN a ELSE Lower(a)]
           cont == [x \in A \X V |-> Upper(x[1], x[2])]
<1>1. \A a \in A : a[1] \in List /\ a[2] \in Nat /\ a[3] \in Nat /\ a[2] <= a[3] + 1
  BY RangedParts
<1>2. size \in [A -> Nat] BY <1>1
<1>3. \A a \in A, v \in V : <<a, v>> \in R <=> Len(v) = Len(a[1]) OBVIOUS
<1>4. end \in [A -> V] /\ Goes(end, A, R) BY <1>1 DEF Goes
<1>5. first \in [A -> A]
  <2> SUFFICES ASSUME NEW a \in A PROVE (IF a[2] >= a[3] THEN a ELSE Lower(a)) \in A
    OBVIOUS
  <2>1. CASE a[2] >= a[3] BY <2>1
  <2>2. CASE ~ (a[2] >= a[3])
    <3>1. a[2] < a[3] BY <1>1, <2>2
    <3> QED BY <2>2, <3>1, Lowers
  <2> QED BY <2>1, <2>2
<1>6. \A a \in A, v \in V : cont[<<a, v>>] = Upper(a, v) OBVIOUS
<1>7. ASSUME NEW a \in A \ done
      PROVE  /\ first[a] = Lower(a) /\ first[a] \in A /\ size[first[a]] < size[a]
             /\ a \in A /\ a[2] < a[3] /\ Len(first[a][1]) = Len(a[1])
  <2>1. a \in A /\ ~ (a[2] >= a[3]) /\ a[2] < a[3] BY <1>1
  <2>2. first[a] = Lower(a) BY <2>1
  <2>3. /\ Lower(a) \in A /\ Lower(a)[3] - Lower(a)[2] < a[3] - a[2]
        /\ Lower(a)[1] = Pivot(a).seq
    BY <2>1, Lowers
  <2>4. Len(Pivot(a).seq) = Len(a[1]) BY <2>1, PivotBounds
  <2>5. size[a] = a[3] - a[2] + 1 /\ size[Lower(a)] = Lower(a)[3] - Lower(a)[2] + 1
    BY <2>1, <2>3
  <2> HIDE DEF size, first
  <2>6. size[Lower(a)] < size[a] BY <1>1, <2>1, <2>3, <2>5
  <2> QED BY <2>1, <2>2, <2>3, <2>4, <2>6
<1>8. ASSUME NEW a \in A \ done, NEW v \in V, <<first[a], v>> \in R
      PROVE  /\ cont[<<a, v>>] = Upper(a, v)
             /\ cont[<<a, v>>] \in A
             /\ size[cont[<<a, v>>]] < size[a]
             /\ \A w \in V : <<cont[<<a, v>>], w>> \in R => <<a, w>> \in R
  <2>1. a \in A /\ a[2] < a[3] /\ first[a] \in A /\ Len(first[a][1]) = Len(a[1]) BY <1>7
  <2>2. Len(v) = Len(a[1]) 
    <3> HIDE DEF R
    <3> QED BY <1>3, <1>8, <2>1
  <2> DEFINE u == Upper(a, v)
  <2>3. cont[<<a, v>>] = u BY <1>6, <2>1
  <2>4. u \in A /\ u[1] = v /\ u[3] - u[2] < a[3] - a[2] BY <2>1, <2>2, Uppers
  <2> HIDE DEF u, cont
  <2>5. size[a] = a[3] - a[2] + 1 /\ size[u] = u[3] - u[2] + 1 BY <2>1, <2>4
  <2> HIDE DEF size
  <2>6. size[u] < size[a] BY <1>1, <2>1, <2>4, <2>5
  <2>7. \A w \in V : <<u, w>> \in R => <<a, w>> \in R
    <3> HIDE DEF R
    <3> QED BY <1>3, <2>1, <2>2, <2>4
  <2> HIDE DEF R
  <2> QED BY <2>3, <2>4, <2>6, <2>7 DEF u
<1> HIDE DEF A, V, size, end, first, cont
<1>9. done \in SUBSET A /\ \A a \in done : a \in A OBVIOUS
<1>10. \E f \in [A -> V] : Goes(f, A, R) /\ Calls(f, A, done, end, first, cont)
  <2> HIDE DEF done, R
  <2>1. \A a \in done : <<a, end[a]>> \in R BY <1>4, <1>9 DEF Goes
  <2>2. Descends(A, V, R, size, done, end, first, cont)
    BY <1>2, <1>4, <1>5, <1>7, <1>8, <2>1 DEF Descends
  <2> QED BY <1>4, <1>9, <2>2, NestedRecursion
<1>11. PICK f \in [A -> V] : Goes(f, A, R) /\ Calls(f, A, done, end, first, cont) BY <1>10
<1>12. ASSUME NEW a \in A
       PROVE  f[a] = IF a[2] >= a[3] THEN a[1] ELSE f[Upper(a, f[Lower(a)])]
  <2>1. f[a] = IF a \in done THEN end[a] ELSE f[cont[<<a, f[first[a]]>>]]
    <3> HIDE DEF done
    <3> QED BY <1>11 DEF Calls
  <2>2. CASE a[2] >= a[3]
    <3>1. a \in done BY <2>2
    <3>2. end[a] = a[1] BY DEF end
    <3> QED BY <2>1, <2>2, <3>1, <3>2
  <2>3. CASE ~ (a[2] >= a[3])
    <3>1. a \in A \ done BY <2>3
    <3>2. first[a] = Lower(a) /\ first[a] \in A BY <1>7, <3>1
    <3>3. f[first[a]] \in V /\ <<first[a], f[first[a]]>> \in R
      <4> HIDE DEF R, done
      <4> QED BY <1>11, <3>2 DEF Goes
    <3>4. cont[<<a, f[first[a]]>>] = Upper(a, f[first[a]])
      <4> HIDE DEF R, done
      <4> QED BY <1>8, <3>1, <3>3
    <3>5. a \notin done BY <2>3
    <3> HIDE DEF done, R
    <3> QED BY <2>1, <2>3, <3>2, <3>4, <3>5
  <2> QED BY <2>2, <2>3
<1>13. f = [a \in A |-> IF a[2] >= a[3] THEN a[1] ELSE f[Upper(a, f[Lower(a)])]] BY <1>12
<1> QED BY <1>13 DEF A

(* QuickSort calls itself like this.                                       *)
LEMMA SortSteps ==
  \A a \in Ranged :
    QuickSort[a] = IF a[2] >= a[3] THEN a[1] ELSE QuickSort[Upper(a, QuickSort[Lower(a)])]
<1> DEFINE Body(f) == [a \in Ranged |->
                         IF a[2] >= a[3] THEN a[1] ELSE f[Upper(a, f[Lower(a)])]]
<1>1. QuickSort = CHOOSE f : f = Body(f)
  BY Zenon DEF QuickSort, Ranged, Upper, Lower, Pivot
<1>2. \E f : f = Body(f) BY SortExists
<1>3. \A a \in Ranged : Body(QuickSort)[a] =
        IF a[2] >= a[3] THEN a[1] ELSE QuickSort[Upper(a, QuickSort[Lower(a)])]
  OBVIOUS
<1> HIDE DEF Body
<1>4. QuickSort = Body(QuickSort) BY <1>1, <1>2, Zenon
<1> QED BY <1>3, <1>4, Zenon

(* What QuickSort promises of its result.                                  *)
SortRight(a, q) ==
  /\ q \in List /\ Len(q) = Len(a[1])
  /\ Shuffle(a[1], q, a[2], a[3])
  /\ \A j, k \in a[2] .. a[3] : j < k => q[j].prop >= q[k].prop

(* Nothing is done to fewer than two detections.                           *)
LEMMA SortEndRight ==
  ASSUME NEW a \in Ranged, a[2] >= a[3] PROVE SortRight(a, a[1])
<1>1. /\ a[1] \in List /\ a[2] \in Nat /\ a[3] \in Nat BY RangedParts
<1>2. Len(a[1]) \in Nat BY <1>1, LenProperties DEF List
<1>3. Shuffle(a[1], a[1], a[2], a[3]) BY <1>1, <1>2, ShuffleSame
<1>4. \A j, k \in a[2] .. a[3] : ~ (j < k) BY <1>1
<1> QED BY <1>1, <1>3, <1>4 DEF SortRight

(* Both parts sorted, around the key, the whole is.                        *)
LEMMA SortNextRight ==
  ASSUME NEW a \in Ranged, a[2] < a[3],
         NEW v, SortRight(Lower(a), v),
         NEW q, SortRight(Upper(a, v), q)
  PROVE  SortRight(a, q)
<1> DEFINE s == a[1]
           left == a[2]
           right == a[3]
           key == a[1][a[2]]
           r == Pivot(a)
           t == r.seq
           m == r.mid
<1>1. /\ s \in List /\ left \in Nat /\ right \in Nat
      /\ 1 <= left /\ left < right /\ right <= Len(s)
  BY RangedParts
<1>2. PivotRight(a, r, key) BY Pivots
<1>3. /\ Lower(a)[1] = t /\ Lower(a)[2] = left /\ Lower(a)[3] = m - 1
      /\ t \in List /\ m \in Nat /\ left <= m /\ m <= right /\ Len(t) = Len(s)
  BY Lowers, PivotBounds
<1> HIDE DEF r, key
<1>4. /\ Shuffle(s, t, left, right) /\ key.prop \in Int /\ t[m] = key
      /\ \A j \in left .. m - 1 : t[j].prop >= key.prop
      /\ \A j \in m + 1 .. right : t[j].prop <= key.prop
  BY <1>2 DEF PivotRight
<1> HIDE DEF s, left, right, t, m
<1>5. /\ v \in List /\ Len(v) = Len(s) /\ Shuffle(t, v, left, m - 1)
      /\ \A j, k \in left .. m - 1 : j < k => v[j].prop >= v[k].prop
  BY <1>3 DEF SortRight
<1>6. Upper(a, v)[1] = v /\ Upper(a, v)[2] = m + 1 /\ Upper(a, v)[3] = right
  BY <1>1, <1>5, Uppers DEF s, left, right, m, r
<1>7. /\ q \in List /\ Len(q) = Len(s) /\ Shuffle(v, q, m + 1, right)
      /\ \A j, k \in m + 1 .. right : j < k => q[j].prop >= q[k].prop
  BY <1>5, <1>6 DEF SortRight
<1>8. Len(s) \in Nat /\ Len(t) \in Nat /\ Len(v) \in Nat
  BY <1>1, <1>3, <1>5, LenProperties DEF List
<1>9. Shuffle(s, q, left, right)
  <2>1. left \in Int /\ right \in Int /\ m - 1 \in Int /\ m + 1 \in Int
        /\ left <= left /\ right <= right /\ m - 1 <= right /\ left <= m + 1
    BY <1>1, <1>3
  <2>2. Shuffle(t, v, left, right) BY <1>5, <1>8, <2>1, ShuffleWider
  <2>3. Shuffle(v, q, left, right) BY <1>7, <1>8, <2>1, ShuffleWider
  <2>4. Shuffle(s, v, left, right) BY <1>3, <1>4, <1>8, <2>1, <2>2, ShuffleThen
  <2> QED BY <1>5, <1>8, <2>1, <2>3, <2>4, ShuffleThen
<1>10. ASSUME NEW j \in left .. m
       PROVE  /\ q[j] = v[j] /\ q[j].prop \in Int /\ q[j].prop >= key.prop
              /\ j = m => q[j] = key
  <2>1. j \in 1 .. Len(v) /\ j \in 1 .. Len(t) /\ j \in Int /\ j < m + 1
    BY <1>1, <1>3, <1>5, <1>8
  <2>2. m + 1 \in Int /\ right \in Int /\ m - 1 \in Int /\ left \in Int BY <1>1, <1>3
  <2>3. q[j] = v[j] BY <1>7, <1>8, <2>1, <2>2, ShuffleOutside
  <2>4. v[j].prop \in Int BY <1>5, <2>1, Props
  <2>5. CASE j = m
    <3>1. m - 1 < j BY <1>3, <2>5
    <3>2. v[j] = t[j] BY <1>5, <1>8, <2>1, <2>2, <3>1, ShuffleOutside
    <3> QED BY <1>4, <2>3, <2>5, <3>2
  <2>6. CASE j # m
    <3>1. left <= j /\ j <= m - 1 BY <1>1, <1>3, <2>6
    <3>2. PICK n \in 1 .. Len(t) : left <= n /\ n <= m - 1 /\ v[j] = t[n]
      BY <1>5, <1>8, <2>1, <2>2, <3>1, ShuffleInside
    <3>3. n \in left .. m - 1 BY <2>2, <3>2
    <3> QED BY <1>4, <2>3, <2>4, <2>6, <3>2, <3>3
  <2> QED BY <2>5, <2>6
<1>11. ASSUME NEW k \in m + 1 .. right
       PROVE  q[k].prop \in Int /\ q[k].prop <= key.prop
  <2>1. k \in 1 .. Len(v) /\ k \in 1 .. Len(t) /\ k \in 1 .. Len(q) /\ m + 1 <= k /\ k <= right
    BY <1>1, <1>3, <1>5, <1>7, <1>8
  <2>2. m + 1 \in Int /\ right \in Int /\ m - 1 \in Int /\ left \in Int BY <1>1, <1>3
  <2>3. PICK n \in 1 .. Len(v) : m + 1 <= n /\ n <= right /\ q[k] = v[n]
    BY <1>7, <1>8, <2>1, <2>2, ShuffleInside
  <2>4. n \in 1 .. Len(t) /\ m - 1 < n /\ n \in m + 1 .. right BY <1>3, <1>5, <2>2, <2>3
  <2>5. v[n] = t[n] BY <1>5, <1>8, <2>2, <2>4, ShuffleOutside
  <2>6. q[k].prop \in Int BY <1>7, <2>1, Props
  <2> QED BY <1>4, <2>3, <2>4, <2>5, <2>6
<1>12. ASSUME NEW j \in left .. right, NEW k \in left .. right, j < k
       PROVE  q[j].prop >= q[k].prop
  <2>1. j \in Int /\ k \in Int BY <1>1
  <2>2. CASE k < m
    <3>1. j \in left .. m - 1 /\ k \in left .. m - 1 /\ j \in left .. m /\ k \in left .. m
      BY <1>1, <1>3, <1>12, <2>1, <2>2
    <3>2. v[j].prop >= v[k].prop BY <1>5, <1>12, <3>1
    <3>3. q[j] = v[j] /\ q[k] = v[k] BY <1>10, <3>1
    <3> QED BY <3>2, <3>3
  <2>3. CASE k = m
    <3>1. j \in left .. m /\ k \in left .. m BY <1>1, <1>3, <1>12, <2>1, <2>3
    <3> QED BY <1>10, <2>3, <3>1
  <2>4. CASE m < k /\ j <= m
    <3>1. j \in left .. m /\ k \in m + 1 .. right BY <1>1, <1>3, <2>1, <2>4
    <3>2. q[j].prop \in Int /\ q[j].prop >= key.prop BY <1>10, <3>1
    <3>3. q[k].prop \in Int /\ q[k].prop <= key.prop BY <1>11, <3>1
    <3> QED BY <1>4, <3>2, <3>3
  <2>5. CASE m < j
    <3>1. j \in m + 1 .. right /\ k \in m + 1 .. right BY <1>1, <1>3, <1>12, <2>1, <2>5
    <3> QED BY <1>7, <1>12, <3>1
  <2> QED BY <1>3, <1>12, <2>1, <2>2, <2>3, <2>4, <2>5
<1>13. SortRight(a, q)
  <2>1. \A j, k \in left .. right : j < k => q[j].prop >= q[k].prop BY <1>12
  <2> QED BY <1>7, <1>9, <2>1, Zenon DEF SortRight, s, left, right
<1> QED BY <1>13

(* quick_sort_indice_inverse sorts the stretch it is given, and touches no *)
(* other.                                                                  *)
LEMMA SortCorrect == \A a \in Ranged : SortRight(a, QuickSort[a])
<1> DEFINE S == {n \in Nat : \A a \in Ranged : a[3] - a[2] <= n => SortRight(a, QuickSort[a])}
<1>1. \A a \in Ranged : a[2] \in Nat /\ a[3] \in Nat BY RangedParts
<1>2. ASSUME NEW a \in Ranged, a[2] >= a[3] PROVE SortRight(a, QuickSort[a])
  BY <1>2, SortSteps, SortEndRight
<1>3. 0 \in S
  <2> SUFFICES ASSUME NEW a \in Ranged, a[3] - a[2] <= 0 PROVE SortRight(a, QuickSort[a])
    OBVIOUS
  <2>1. a[2] >= a[3] BY <1>1
  <2> QED BY <1>2, <2>1
<1>4. \A n \in Nat : n \in S => n + 1 \in S
  <2> SUFFICES ASSUME NEW n \in Nat, n \in S, NEW a \in Ranged, a[3] - a[2] <= n + 1
               PROVE  SortRight(a, QuickSort[a])
    OBVIOUS
  <2>1. CASE a[2] >= a[3] BY <1>2, <2>1
  <2>2. CASE ~ (a[2] >= a[3])
    <3>1. a[2] < a[3] BY <1>1, <2>2
    <3> DEFINE b == Lower(a)
               v == QuickSort[b]
               u == Upper(a, v)
               q == QuickSort[u]
    <3>2. /\ b \in Ranged /\ b[3] - b[2] < a[3] - a[2]
          /\ b[1] = Pivot(a).seq
      BY <3>1, Lowers
    <3>3. QuickSort[a] = q BY <2>2, SortSteps
    <3>4. Len(b[1]) = Len(a[1]) BY <3>1, <3>2, PivotBounds
    <3> HIDE DEF b, v, u, q
    <3>5. b[3] - b[2] <= n BY <1>1, <3>2
    <3>6. SortRight(b, v) BY <3>2, <3>5 DEF v
    <3>7. v \in List /\ Len(v) = Len(a[1]) BY <3>4, <3>6 DEF SortRight
    <3>8. u \in Ranged /\ u[3] - u[2] < a[3] - a[2] BY <3>1, <3>7, Uppers DEF u
    <3>9. u[3] - u[2] <= n BY <1>1, <3>8
    <3>10. SortRight(u, q) BY <3>8, <3>9 DEF q
    <3>11. SortRight(Lower(a), v) /\ SortRight(Upper(a, v), q) BY <3>6, <3>10 DEF b, u
    <3>12. SortRight(a, q) BY <3>1, <3>11, SortNextRight
    <3> QED BY <3>3, <3>12
  <2> QED BY <2>1, <2>2
<1>5. Nat \subseteq S
  <2> HIDE DEF S
  <2> QED BY <1>3, <1>4, Induction
<1> SUFFICES ASSUME NEW a \in Ranged PROVE SortRight(a, QuickSort[a]) OBVIOUS
<1>6. CASE a[2] >= a[3] BY <1>2, <1>6
<1>7. CASE ~ (a[2] >= a[3])
  <2>1. a[3] - a[2] \in Nat BY <1>1, <1>7
  <2>2. a[3] - a[2] \in S
    <3> HIDE DEF S
    <3> QED BY <1>5, <2>1
  <2> QED BY <2>1, <2>2
<1> QED BY <1>6, <1>7

(* The whole list, sorted, is one of the rankings std::sort may give.      *)
LEMMA SortedList ==
  ASSUME NEW s \in List
  PROVE  QuickSort[<<s, 1, Len(s)>>] \in {t \in Rearranged(s) : Ranked(t)}
<1> DEFINE a == <<s, 1, Len(s)>>
           q == QuickSort[a]
           P == {p \in [DOMAIN s -> DOMAIN s] : \A k \in DOMAIN s :
                                               \E j \in DOMAIN s : p[j] = k}
<1>1. Len(s) \in Nat /\ DOMAIN s = 1 .. Len(s) BY LenProperties DEF List
<1>2. a \in Ranged
  <2>1. 1 <= Len(s) + 1 /\ Len(s) <= Len(s) BY <1>1
  <2> QED BY <1>1, <2>1, PartsRanged
<1>3. a[1] = s /\ a[2] = 1 /\ a[3] = Len(s) BY ThreeParts
<1> HIDE DEF a
<1>4. SortRight(a, q) BY <1>2, SortCorrect
<1> HIDE DEF q
<1>5. /\ q \in List /\ Len(q) = Len(s) /\ Shuffle(s, q, 1, Len(s))
      /\ \A j, k \in 1 .. Len(s) : j < k => q[j].prop >= q[k].prop
  BY <1>3, <1>4 DEF SortRight
<1>6. DOMAIN q = 1 .. Len(s) BY <1>5, LenProperties DEF List
<1>7. Ranked(q) BY <1>5, <1>6 DEF Ranked
<1>8. PICK p \in Perms(Len(s), 1, Len(s)) : \A k \in 1 .. Len(s) : q[k] = s[p[k]]
  BY <1>5 DEF Shuffle
<1>9. p \in P BY <1>1, <1>8 DEF Perms
<1>10. q = [k \in DOMAIN s |-> s[p[k]]]
  <2>1. q = [k \in DOMAIN q |-> q[k]] BY <1>5 DEF List
  <2> QED BY <1>1, <1>6, <1>8, <2>1
<1>11. q \in {[k \in DOMAIN s |-> s[w[k]]] : w \in P} BY <1>9, <1>10
<1>12. q \in Rearranged(s) BY <1>11, Zenon DEF Rearranged
<1> QED BY <1>7, <1>12 DEF q, a

(* quick_sort_indice_inverse (postprocess.cc:147-173), called with the     *)
(* scores of all candidates, gives a list that is ranked and holds the     *)
(* same detections, none lost and none doubled: for every list, equal      *)
(* scores included.                                                        *)
THEOREM QuickSorted == Spec => []QuickSorts
<1>1. IInv => QuickSorts
  <2> SUFFICES ASSUME IInv
               PROVE  QuickSort[<<dets, 1, Len(dets)>>] \in {s \in Rearranged(dets) : Ranked(s)}
    BY DEF QuickSorts
  <2>1. dets \in List
    <3>1. dets \in Seq(Candidates) BY DEF IInv, TypeOK
    <3>2. Candidates \subseteq Detection BY DetectionsAssumption
    <3> QED BY <3>1, <3>2 DEF List
  <2> QED BY <2>1, SortedList
<1> QED BY <1>1, DetectionsInvariance, PTL
=============================================================================
