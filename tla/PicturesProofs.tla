--------------------------- MODULE PicturesProofs ---------------------------
(***************************************************************************)
(* Proofs about Drawing and Stitching, for pictures of every size.         *)
(* Stitching: the canvas cuts nothing off, and every pixel comes from the  *)
(* camera nearest to it. Drawing: calls with any coordinates, lengths and  *)
(* thicknesses paint the shapes they are meant to, text keeps to its box,  *)
(* and chroma follows luma. Planes and shapes are compared pixel by pixel; *)
(* what is left is arithmetic, about bounds that the loops get from halves *)
(* cut towards zero, and induction, over the letters of a text and the     *)
(* cameras of a pixel.                                                     *)
(***************************************************************************)
EXTENDS Drawing, Stitching, FiniteSetTheorems, TLAPS

(* Every natural number is reached from 0.                                 *)
LEMMA Induction ==
  ASSUME NEW S, 0 \in S, \A n \in Nat : n \in S => n + 1 \in S
  PROVE  Nat \subseteq S
<1> SUFFICES ASSUME ~ (Nat \subseteq S) PROVE FALSE OBVIOUS
<1> DEFINE Below(n) == 0 .. n
           T == {Below(n) : n \in Nat \ S}
<1>1. T \subseteq FiniteSubsetsOf(Nat)
  <2> SUFFICES ASSUME NEW n \in Nat \ S PROVE 0 .. n \in FiniteSubsetsOf(Nat)
    OBVIOUS
  <2>1. IsFiniteSet(0 .. n) BY FS_Interval
  <2> QED BY <2>1 DEF FiniteSubsetsOf
<1>2. T # {}
  OBVIOUS
<1>3. IsWellFoundedOn(StrictSubsetOrdering(Nat), FiniteSubsetsOf(Nat))
  BY FS_StrictSubsetOrderingWellFounded
<1>4. PICK x \in T : \A y \in T : ~ (<<y, x>> \in StrictSubsetOrdering(Nat))
  <2> HIDE DEF T
  <2> QED BY <1>1, <1>2, <1>3, WFMin
<1>5. PICK n \in Nat \ S : x = 0 .. n
  BY <1>4
<1>6. n # 0 /\ n - 1 \in Nat \ S
  OBVIOUS
<1>7. 0 .. n - 1 \in T
  BY <1>6
<1>8. 0 .. n - 1 \subseteq 0 .. n /\ 0 .. n - 1 # 0 .. n /\ 0 .. n \subseteq Nat
  BY <1>6
<1>9. <<0 .. n - 1, x>> \in StrictSubsetOrdering(Nat)
  BY <1>5, <1>8 DEF StrictSubsetOrdering
<1> QED BY <1>4, <1>7, <1>9

(* A function that is defined step by step, from lo to hi, exists.         *)
Unrolled(f, lo, hi, first, step) ==
  \A i \in lo .. hi : f[i] = IF i = lo THEN first ELSE step[<<f[i - 1], i>>]

(* A function that starts with first and makes each value of the one       *)
(* before exists: a recursive function of the model is what its equation   *)
(* says.                                                                   *)
LEMMA Recursion ==
  ASSUME NEW V, NEW first \in V, NEW lo \in Int, NEW hi \in Int, lo <= hi,
         NEW step \in [V \X Int -> V]
  PROVE  \E f \in [lo .. hi -> V] : Unrolled(f, lo, hi, first, step)
<1> DEFINE Defined(m) == \E f \in [lo .. lo + m -> V] :
             f = [i \in lo .. lo + m |-> IF i = lo THEN first ELSE step[<<f[i - 1], i>>]]
           S == {m \in Nat : Defined(m)}
<1>1. 0 \in S
  <2> DEFINE f == [i \in lo .. lo + 0 |-> first]
  <2>1. f \in [lo .. lo + 0 -> V] OBVIOUS
  <2>2. f = [i \in lo .. lo + 0 |-> IF i = lo THEN first ELSE step[<<f[i - 1], i>>]]
    OBVIOUS
  <2> HIDE DEF f
  <2> QED BY <2>1, <2>2
<1>2. \A m \in Nat : m \in S => m + 1 \in S
  <2> HIDE DEF Defined
  <2> SUFFICES ASSUME NEW m \in Nat, Defined(m) PROVE Defined(m + 1) OBVIOUS
  <2> USE DEF Defined
  <2>1. PICK f \in [lo .. lo + m -> V] :
          f = [i \in lo .. lo + m |-> IF i = lo THEN first ELSE step[<<f[i - 1], i>>]]
    OBVIOUS
  <2> DEFINE g == [i \in lo .. lo + (m + 1) |->
                     IF i = lo + (m + 1) THEN step[<<f[lo + m], lo + (m + 1)>>] ELSE f[i]]
             h == [i \in lo .. lo + (m + 1) |-> IF i = lo THEN first ELSE step[<<g[i - 1], i>>]]
  <2>2. lo + m \in lo .. lo + m OBVIOUS
  <2>3. step[<<f[lo + m], lo + (m + 1)>>] \in V BY <2>2
  <2>4. g \in [lo .. lo + (m + 1) -> V]
    <3> SUFFICES ASSUME NEW i \in lo .. lo + (m + 1) PROVE g[i] \in V OBVIOUS
    <3>1. i # lo + (m + 1) => i \in lo .. lo + m OBVIOUS
    <3> QED BY <2>3, <3>1
  <2>5. ASSUME NEW i \in lo .. lo + (m + 1) PROVE g[i] = h[i]
    <3>1. CASE i = lo + (m + 1)
      <4>1. i - 1 = lo + m /\ i - 1 \in lo .. lo + (m + 1) /\ i # lo /\ lo + m # lo + (m + 1) BY <3>1
      <4>2. g[i - 1] = f[lo + m] BY <4>1
      <4>3. g[i] = step[<<f[lo + m], i>>] BY <3>1
      <4>4. h[i] = step[<<g[i - 1], i>>] BY <4>1
      <4> QED BY <4>2, <4>3, <4>4
    <3>2. CASE i # lo + (m + 1)
      <4>1. i \in lo .. lo + m BY <3>2
      <4>2. g[i] = f[i] BY <3>2
      <4>3. f[i] = IF i = lo THEN first ELSE step[<<f[i - 1], i>>] BY <2>1, <4>1
      <4>4. CASE i = lo BY <4>2, <4>3, <4>4
      <4>5. CASE i # lo
        <5>1. i - 1 \in lo .. lo + (m + 1) /\ i - 1 # lo + (m + 1) BY <4>1, <4>5
        <5>2. g[i - 1] = f[i - 1] BY <5>1
        <5>3. h[i] = step[<<g[i - 1], i>>] BY <4>5
        <5> QED BY <4>2, <4>3, <4>5, <5>2, <5>3
      <4> QED BY <4>4, <4>5
    <3> QED BY <3>1, <3>2
  <2>6. g = h
    <3>1. DOMAIN g = DOMAIN h OBVIOUS
    <3>2. \A i \in DOMAIN g : g[i] = h[i] BY <2>5
    <3>3. g = [i \in DOMAIN g |-> g[i]] /\ h = [i \in DOMAIN h |-> h[i]] OBVIOUS
    <3> HIDE DEF g, h
    <3> QED BY <3>1, <3>2, <3>3
  <2> HIDE DEF g
  <2> QED BY <2>4, <2>6
<1>3. PICK m \in Nat : hi = lo + m
  <2>1. hi - lo \in Nat /\ hi = lo + (hi - lo) OBVIOUS
  <2> QED BY <2>1
<1>4. Defined(m)
  <2>1. Nat \subseteq S
    <3> HIDE DEF S
    <3> QED BY <1>1, <1>2, Induction
  <2>2. m \in S BY <2>1
  <2> HIDE DEF Defined
  <2> QED BY <2>2
<1>5. PICK f \in [lo .. lo + m -> V] :
        f = [i \in lo .. lo + m |-> IF i = lo THEN first ELSE step[<<f[i - 1], i>>]]
  BY <1>4
<1>6. Unrolled(f, lo, lo + m, first, step)
  BY <1>5 DEF Unrolled
<1> HIDE DEF Defined, S
<1> QED BY <1>3, <1>6

-----------------------------------------------------------------------------
(* A finite set of integers has a largest and a smallest member.           *)
LEMMA FiniteExtremes ==
  ASSUME NEW X, X \subseteq Int, IsFiniteSet(X), X # {}
  PROVE  /\ Max(X) \in X /\ \A y \in X : y <= Max(X)
         /\ Min(X) \in X /\ \A y \in X : Min(X) <= y
<1> DEFINE Ends(Y) == /\ \E x \in Y : \A y \in Y : y <= x
                      /\ \E x \in Y : \A y \in Y : x <= y
           S == {n \in Nat : \A Y \in SUBSET Int :
                   IsFiniteSet(Y) /\ Y # {} /\ Cardinality(Y) <= n => Ends(Y)}
<1>1. 0 \in S
  <2> SUFFICES ASSUME NEW Y \in SUBSET Int, IsFiniteSet(Y), Y # {}, Cardinality(Y) <= 0
               PROVE  Ends(Y)
    OBVIOUS
  <2>1. Cardinality(Y) = 0 BY FS_CardinalityType
  <2>2. Y = {} BY <2>1, FS_EmptySet
  <2> QED BY <2>2
<1>2. \A n \in Nat : n \in S => n + 1 \in S
  <2> SUFFICES ASSUME NEW n \in S, NEW Y \in SUBSET Int, IsFiniteSet(Y), Y # {},
                      Cardinality(Y) <= n + 1
               PROVE  Ends(Y)
    OBVIOUS
  <2>1. PICK z \in Y : TRUE OBVIOUS
  <2> DEFINE Z == Y \ {z}
  <2>2. IsFiniteSet(Z) /\ Cardinality(Z) = Cardinality(Y) - 1
    BY <2>1, FS_RemoveElement
  <2>3. CASE Z = {}
    <3>1. \A y \in Y : y = z BY <2>3
    <3> QED BY <3>1
  <2>4. CASE Z # {}
    <3>1. Cardinality(Y) \in Nat BY FS_CardinalityType
    <3>2. Ends(Z)
      <4> HIDE DEF Ends, Z
      <4>1. Z \in SUBSET Int BY DEF Z
      <4> QED BY <2>2, <2>4, <3>1, <4>1
    <3>3. PICK a \in Z : \A y \in Z : y <= a BY <3>2
    <3>4. PICK b \in Z : \A y \in Z : b <= y BY <3>2
    <3>5. \E x \in Y : \A y \in Y : y <= x
      <4>1. CASE z <= a BY <4>1, <3>3
      <4>2. CASE ~ (z <= a) BY <4>2, <3>3, <2>1
      <4> QED BY <4>1, <4>2
    <3>6. \E x \in Y : \A y \in Y : x <= y
      <4>1. CASE b <= z BY <4>1, <3>4
      <4>2. CASE ~ (b <= z) BY <4>2, <3>4, <2>1
      <4> QED BY <4>1, <4>2
    <3> QED BY <3>5, <3>6
  <2> QED BY <2>3, <2>4
<1>3. Ends(X)
  <2>1. Cardinality(X) \in Nat BY FS_CardinalityType
  <2>2. Nat \subseteq S
    <3> HIDE DEF S
    <3> QED BY <1>1, <1>2, Induction
  <2>3. Cardinality(X) \in S BY <2>1, <2>2
  <2> HIDE DEF Ends
  <2> QED BY <2>1, <2>3
<1>4. Max(X) \in X /\ \A y \in X : Max(X) >= y
  BY <1>3 DEF Max
<1>5. Min(X) \in X /\ \A y \in X : Min(X) <= y
  BY <1>3 DEF Min
<1> QED BY <1>4, <1>5
-----------------------------------------------------------------------------
Matrix == [1 .. 9 -> Int]

(* Matrices and what they make of points stay integer.                     *)
LEMMA InvertedTyped ==
  ASSUME NEW m \in Matrix PROVE Inverted(m) \in Matrix
<1> DEFINE a == Adjugate(m)
           D == {n \in 1 .. 100 : \A k \in DOMAIN a : a[k] % n = 0}
<1>1. a \in Matrix
  BY DEF Adjugate, Matrix
<1> HIDE DEF a
<1>2. 1 \in D
  <2>1. \A n \in Int : n % 1 = 0 OBVIOUS
  <2>2. \A k \in DOMAIN a : a[k] \in Int BY <1>1 DEF Matrix
  <2> QED BY <2>1, <2>2
<1>3. IsFiniteSet(D)
  <2>1. \A n \in Int : IsFiniteSet(1 .. n) BY FS_Interval
  <2>2. PICK n \in Int : n = 100 OBVIOUS
  <2>3. IsFiniteSet(1 .. n) /\ D \in SUBSET (1 .. n) BY <2>1, <2>2
  <2> HIDE DEF D
  <2> QED BY <2>3, FS_Subset
<1>4. Max(D) \in 1 .. 100
  <2>1. D \subseteq Int /\ D # {} BY <1>2
  <2>2. Max(D) \in D BY <1>3, <2>1, FiniteExtremes
  <2> QED BY <2>2
<1>5. Inverted(m) = [k \in DOMAIN a |-> a[k] \div Max(D)]
  BY DEF Inverted, a
<1> HIDE DEF D
<1> QED BY <1>1, <1>4, <1>5 DEF Matrix

LEMMA ApplyTyped ==
  ASSUME NEW m \in Matrix, NEW x \in Int, NEW y \in Int, NEW z \in Int
  PROVE  Apply(m, x, y, z) \in Int \X Int \X Int
BY DEF Apply, Matrix

(* A point seen has a positive third coordinate. *)
LEMMA RemapTyped ==
  ASSUME NEW inverse \in Matrix, NEW p \in Int \X Int,
         canvas.xmin \in Int, canvas.ymin \in Int, Q \in Int
  PROVE  \E x, y, z \in Int : Remap(inverse, p) = <<x, y, z>> /\ z >= 0
<1> DEFINE s == Apply(inverse, Q * p[1] + canvas.xmin, Q * p[2] + canvas.ymin, Q)
<1>1. Q * p[1] + canvas.xmin \in Int /\ Q * p[2] + canvas.ymin \in Int OBVIOUS
<1>2. s \in Int \X Int \X Int BY <1>1, ApplyTyped
<1>3. Remap(inverse, p) = IF s[3] < 0 THEN <<-s[1], -s[2], -s[3]>> ELSE s
  BY DEF Remap
<1> HIDE DEF s
<1>4. CASE s[3] < 0
  <2>1. Remap(inverse, p) = <<-s[1], -s[2], -s[3]>> BY <1>3, <1>4
  <2>2. -s[1] \in Int /\ -s[2] \in Int /\ -s[3] \in Int /\ -s[3] >= 0 BY <1>2, <1>4
  <2> QED BY <2>1, <2>2
<1>5. CASE ~ (s[3] < 0)
  BY <1>2, <1>3, <1>5
<1> QED BY <1>4, <1>5
-----------------------------------------------------------------------------
(* A square is at least as much; comparing distances is transitive. *)
Ratio(d) == d \in Int \X Int /\ d[2] > 0

LEMMA RatioParts ==
  ASSUME NEW d, Ratio(d)
  PROVE  \E a, b \in Int : d = <<a, b>> /\ b > 0
BY DEF Ratio

(* Comparing distances as fractions is transitive, and no two fractions    *)
(* are each nearer than the other.                                         *)
LEMMA NearerChain ==
  ASSUME NEW d, NEW e, NEW f, Ratio(d), Ratio(e), Ratio(f),
         Nearer(d, e), ~ Nearer(f, e)
  PROVE  Nearer(d, f)
<1> PICK a \in Int, b \in Int, x \in Int, y \in Int, u \in Int, v \in Int :
      d = <<a, b>> /\ e = <<x, y>> /\ f = <<u, v>> /\ b > 0 /\ y > 0 /\ v > 0
  <2>1. PICK a \in Int, b \in Int : d = <<a, b>> /\ b > 0 BY RatioParts
  <2>2. PICK x \in Int, y \in Int : e = <<x, y>> /\ y > 0 BY RatioParts
  <2>3. PICK u \in Int, v \in Int : f = <<u, v>> /\ v > 0 BY RatioParts
  <2> QED BY <2>1, <2>2, <2>3
<1>1. a * y < x * b BY DEF Nearer
<1>2. x * v <= u * y BY DEF Nearer
<1>3. a * y * v < x * b * v BY <1>1
<1>4. x * v * b <= u * y * b BY <1>2
<1>5. (a * v) * y < (u * b) * y BY <1>3, <1>4
<1>6. a * v < u * b
  <2> DEFINE g == a * v
             h == u * b
  <2>1. g \in Int /\ h \in Int OBVIOUS
  <2>2. g * y < h * y BY <1>5
  <2> HIDE DEF g, h
  <2>3. g < h
    <3> SUFFICES ASSUME g >= h PROVE FALSE BY <2>1
    <3>1. g * y >= h * y BY <2>1
    <3> QED BY <2>1, <2>2, <3>1
  <2> QED BY <2>3 DEF g, h
<1> QED BY <1>6 DEF Nearer

LEMMA NearerNot ==
  ASSUME NEW d, NEW e, Ratio(d), Ratio(e), Nearer(d, e)
  PROVE  ~ Nearer(e, d)
<1> PICK a \in Int, b \in Int, x \in Int, y \in Int : d = <<a, b>> /\ e = <<x, y>>
  BY DEF Ratio
<1> DEFINE g == a * y
           h == x * b
<1>1. g \in Int /\ h \in Int OBVIOUS
<1>2. g < h BY DEF Nearer
<1>3. ~ (h < g) BY <1>1, <1>2
<1> QED BY <1>3 DEF Nearer

(* A camera that sees a point is at a finite distance from it.             *)
LEMMA SeenRatio ==
  ASSUME NEW s, NEW x \in Int, NEW y \in Int, NEW z \in Int, s = <<x, y, z>>, z >= 0, Sees(s)
  PROVE  z > 0 /\ Ratio(Distance(s)) /\ Nearer(Distance(s), <<1, 0>>)
<1>1. z > 0 BY DEF Sees
<1>2. CamW \in Int /\ CamH \in Int BY PictureSize
<1> DEFINE dx == 2 * x - CamW * z
           dy == 2 * y - CamH * z
<1>3. dx \in Int /\ dy \in Int BY <1>2
<1>4. Distance(s) = <<dx * dx + dy * dy, z * z>> BY DEF Distance
<1> HIDE DEF dx, dy
<1>5. z * z > 0 BY <1>1
<1>6. PICK u \in Int, v \in Int : Distance(s) = <<u, v>> /\ v > 0 BY <1>3, <1>4, <1>5
<1> QED BY <1>1, <1>6 DEF Ratio, Nearer
-----------------------------------------------------------------------------
(* The loop over the cameras. *)
BestAfter(inverses, p, best, n) ==
  LET s == Remap(inverses[n], p)
  IN IF Sees(s) /\ Nearer(Distance(s), best[2]) THEN <<n, Distance(s)>> ELSE best

(* The loop over the cameras, written out.                                 *)
LEMMA Loop ==
  ASSUME NEW inverses, NEW p
  PROVE  \E b0, b1, b2, b3, b4 :
           /\ b0 = <<Nobody, <<1, 0>>>>
           /\ b1 = BestAfter(inverses, p, b0, 0)
           /\ b2 = BestAfter(inverses, p, b1, 1)
           /\ b3 = BestAfter(inverses, p, b2, 2)
           /\ b4 = BestAfter(inverses, p, b3, 3)
           /\ OwnerOf(inverses, p) = b4[1]
<1> DEFINE Body(f) == [n \in 0 .. 4 |-> IF n = 0 THEN <<Nobody, <<1, 0>>>>
                                        ELSE BestAfter(inverses, p, f[n - 1], n - 1)]
           best == CHOOSE f : f = Body(f)
           b0 == <<Nobody, <<1, 0>>>>
           b1 == BestAfter(inverses, p, b0, 0)
           b2 == BestAfter(inverses, p, b1, 1)
           b3 == BestAfter(inverses, p, b2, 2)
           b4 == BestAfter(inverses, p, b3, 3)
<1>1. OwnerOf(inverses, p) = best[4][1]
  BY Zenon DEF OwnerOf, BestAfter
<1>2. \E f : f = Body(f)
  <2> DEFINE g == [n \in 0 .. 4 |-> IF n = 0 THEN b0 ELSE IF n = 1 THEN b1
                                   ELSE IF n = 2 THEN b2 ELSE IF n = 3 THEN b3 ELSE b4]
  <2>1. g[0] = b0 /\ g[1] = b1 /\ g[2] = b2 /\ g[3] = b3 /\ g[4] = b4
    <3> HIDE DEF b0, b1, b2, b3, b4
    <3> QED OBVIOUS
  <2>2. g = Body(g)
    <3> SUFFICES ASSUME NEW n \in 0 .. 4 PROVE g[n] = Body(g)[n]
      OBVIOUS
    <3> QED BY <2>1
  <2> QED BY <2>2
<1>3. best = Body(best)
  BY <1>2, Zenon
<1>4. best[0] = b0 /\ best[1] = b1 /\ best[2] = b2 /\ best[3] = b3 /\ best[4] = b4
  <2>1. \A n \in 0 .. 4 : best[n] = IF n = 0 THEN b0 ELSE BestAfter(inverses, p, best[n - 1], n - 1)
    <3> HIDE DEF best
    <3> QED BY <1>3
  <2> HIDE DEF best
  <2>2. best[0] = b0 /\ best[1] = BestAfter(inverses, p, best[0], 0) /\ best[2] = BestAfter(inverses, p, best[1], 1)
        /\ best[3] = BestAfter(inverses, p, best[2], 2) /\ best[4] = BestAfter(inverses, p, best[3], 3)
    BY <2>1
  <2> QED BY <2>2
<1> QED BY <1>1, <1>4

(* What owner_map says of a pixel. *)
RightOwner(cam, n, inverses, p) ==
  IF cam = Nobody THEN \A i \in 0 .. n - 1 : ~ Sees(Remap(inverses[i], p))
  ELSE /\ cam \in 0 .. n - 1
       /\ Sees(Remap(inverses[cam], p))
       /\ \A i \in (0 .. n - 1) \ {cam} :
            Sees(Remap(inverses[i], p)) =>
              /\ ~ Nearer(Distance(Remap(inverses[i], p)), Distance(Remap(inverses[cam], p)))
              /\ i < cam => Nearer(Distance(Remap(inverses[cam], p)), Distance(Remap(inverses[i], p)))

(* The best so far, after n cameras. *)
Best(b, n, inverses, p) ==
  /\ RightOwner(b[1], n, inverses, p)
  /\ b[2] = IF b[1] = Nobody THEN <<1, 0>> ELSE Distance(Remap(inverses[b[1]], p))

(* One camera more: the best so far stays the best of those looked at.     *)
LEMMA OneCamera ==
  ASSUME NEW inverses, NEW p, NEW n \in Cameras, NEW b, Best(b, n, inverses, p),
         \A i \in Cameras : Sees(Remap(inverses[i], p)) =>
           Ratio(Distance(Remap(inverses[i], p))) /\ Nearer(Distance(Remap(inverses[i], p)), <<1, 0>>)
  PROVE  Best(BestAfter(inverses, p, b, n), n + 1, inverses, p)
<1> DEFINE r(i) == Remap(inverses[i], p)
           d(i) == Distance(Remap(inverses[i], p))
           next == BestAfter(inverses, p, b, n)
<1>1. /\ Sees(r(n)) /\ Nearer(d(n), b[2]) => next = <<n, d(n)>>
      /\ ~ (Sees(r(n)) /\ Nearer(d(n), b[2])) => next = b
  BY DEF BestAfter
<1>2. n # Nobody /\ n \in 0 .. (n + 1) - 1 /\ n \in Nat BY DEF Cameras, Nobody
<1>3. 0 .. (n + 1) - 1 = (0 .. n - 1) \cup {n} BY <1>2
<1>4. 0 .. n - 1 \subseteq Cameras BY <1>2 DEF Cameras
<1>5. CASE Sees(r(n)) /\ Nearer(d(n), b[2])
  <2>1. next[1] = n /\ next[2] = d(n) BY <1>1, <1>5
  <2>2. ASSUME NEW i \in 0 .. n - 1, Sees(r(i))
        PROVE  Nearer(d(n), d(i)) /\ ~ Nearer(d(i), d(n))
    <3>1. b[1] # Nobody BY <2>2 DEF Best, RightOwner
    <3>2. b[2] = d(b[1]) /\ Sees(r(b[1])) /\ b[1] \in Cameras BY <3>1, <1>4 DEF Best, RightOwner
    <3>3. Ratio(d(n)) /\ Ratio(d(b[1])) /\ Ratio(d(i)) BY <1>4, <1>5, <2>2, <3>2
    <3>4. CASE i = b[1]
      <4>1. Nearer(d(n), d(i)) BY <1>5, <3>2, <3>4
      <4> QED BY <4>1, <3>3, NearerNot
    <3>5. CASE i # b[1]
      <4>1. ~ Nearer(d(i), d(b[1])) BY <2>2, <3>1, <3>5 DEF Best, RightOwner
      <4>2. Nearer(d(n), d(b[1])) BY <1>5, <3>2
      <4> HIDE DEF d
      <4>3. Nearer(d(n), d(i)) BY <4>1, <4>2, <3>3, NearerChain
      <4> QED BY <4>3, <3>3, NearerNot
    <3> QED BY <3>4, <3>5
  <2>3. RightOwner(n, n + 1, inverses, p)
    <3>1. \A i \in (0 .. (n + 1) - 1) \ {n} : i \in 0 .. n - 1 BY <1>3
    <3> QED BY <1>2, <1>5, <2>2, <3>1 DEF RightOwner
  <2> QED BY <1>2, <2>1, <2>3 DEF Best
<1>6. CASE ~ (Sees(r(n)) /\ Nearer(d(n), b[2]))
  <2>1. next = b BY <1>1, <1>6
  <2>2. CASE b[1] = Nobody
    <3>1. b[2] = <<1, 0>> BY <2>2 DEF Best
    <3>2. ~ Sees(r(n)) BY <1>6, <3>1
    <3>3. RightOwner(b[1], n + 1, inverses, p) BY <1>3, <2>2, <3>2 DEF Best, RightOwner
    <3> QED BY <2>1, <3>3 DEF Best
  <2>3. CASE b[1] # Nobody
    <3>1. b[2] = d(b[1]) /\ b[1] \in 0 .. n - 1 BY <2>3 DEF Best, RightOwner
    <3>2. ~ (n < b[1]) BY <1>2, <3>1
    <3>3. Sees(r(n)) => ~ Nearer(d(n), d(b[1])) BY <1>6, <3>1
    <3>4. RightOwner(b[1], n + 1, inverses, p) BY <1>3, <2>3, <3>1, <3>2, <3>3 DEF Best, RightOwner
    <3> QED BY <2>1, <3>4 DEF Best
  <2> QED BY <2>2, <2>3
<1> QED BY <1>5, <1>6

(* After the loop, the owner is the nearest of all that see the point.     *)
LEMMA OwnerJudged ==
  ASSUME NEW inverses \in [Cameras -> Matrix], NEW p \in Int \X Int,
         canvas.xmin \in Int, canvas.ymin \in Int
  PROVE  RightOwner(OwnerOf(inverses, p), 4, inverses, p)
<1>1. \A i \in Cameras : Sees(Remap(inverses[i], p)) =>
        Ratio(Distance(Remap(inverses[i], p))) /\ Nearer(Distance(Remap(inverses[i], p)), <<1, 0>>)
  <2> SUFFICES ASSUME NEW i \in Cameras, Sees(Remap(inverses[i], p))
               PROVE  Ratio(Distance(Remap(inverses[i], p))) /\ Nearer(Distance(Remap(inverses[i], p)), <<1, 0>>)
    OBVIOUS
  <2>1. inverses[i] \in Matrix /\ Q \in Int BY Grid
  <2>2. PICK x \in Int, y \in Int, z \in Int : Remap(inverses[i], p) = <<x, y, z>> /\ z >= 0
    BY <2>1, RemapTyped
  <2> QED BY <2>2, SeenRatio
<1>2. PICK b0, b1, b2, b3, b4 :
           /\ b0 = <<Nobody, <<1, 0>>>>
           /\ b1 = BestAfter(inverses, p, b0, 0)
           /\ b2 = BestAfter(inverses, p, b1, 1)
           /\ b3 = BestAfter(inverses, p, b2, 2)
           /\ b4 = BestAfter(inverses, p, b3, 3)
           /\ OwnerOf(inverses, p) = b4[1]
  BY Loop
<1>3. 0 \in Cameras /\ 1 \in Cameras /\ 2 \in Cameras /\ 3 \in Cameras BY DEF Cameras
<1>4. Best(b0, 0, inverses, p) BY <1>2 DEF Best, RightOwner
<1>5. Best(b1, 0 + 1, inverses, p) BY <1>1, <1>2, <1>3, <1>4, OneCamera
<1>6. Best(b2, 1 + 1, inverses, p) BY <1>1, <1>2, <1>3, <1>5, OneCamera
<1>7. Best(b3, 2 + 1, inverses, p) BY <1>1, <1>2, <1>3, <1>6, OneCamera
<1>8. Best(b4, 3 + 1, inverses, p) BY <1>1, <1>2, <1>3, <1>7, OneCamera
<1> QED BY <1>2, <1>8 DEF Best

(* What is not negative at the corners of a rectangle is nowhere negative  *)
(* in it, if it is affine.                                                 *)
LEMMA OnSegment ==
  ASSUME NEW a \in Int, NEW c \in Int, NEW m \in Nat, c >= 0, a * m + c >= 0,
         NEW x \in 0 .. m
  PROVE  a * x + c >= 0
<1>1. CASE a >= 0
  <2>1. a * x >= 0 BY <1>1
  <2> QED BY <2>1
<1>2. CASE a < 0
  <2>1. a * x >= a * m BY <1>2
  <2> QED BY <2>1
<1> QED BY <1>1, <1>2

(* The same in two directions.                                             *)
LEMMA OnRectangle ==
  ASSUME NEW a \in Int, NEW b \in Int, NEW c \in Int, NEW m \in Nat, NEW n \in Nat,
         c >= 0, a * m + c >= 0, b * n + c >= 0, a * m + b * n + c >= 0,
         NEW x \in 0 .. m, NEW y \in 0 .. n
  PROVE  a * x + b * y + c >= 0
<1> PICK u \in Int, v \in Int, z \in Int : u = a * x + c /\ v = a * m + c /\ z = b * n OBVIOUS
<1>1. u >= 0 BY OnSegment
<1>2. z + c >= 0 /\ a * m + (z + c) >= 0 /\ z + c \in Int OBVIOUS
<1>3. a * x + (z + c) >= 0
  <2> PICK d \in Int : d = z + c OBVIOUS
  <2>1. a * x + d >= 0 BY <1>2, OnSegment
  <2> QED BY <2>1
<1>4. b * n + u >= 0 BY <1>3
<1>5. b * y + u >= 0 BY <1>1, <1>4, OnSegment
<1> QED BY <1>5

(* A camera's matrix, and one row of it at a point of the picture.         *)
Proper(m) == m \in Matrix /\ OnGrid(m)

Affine(f, x, y) == f[1] * x + f[2] * y + f[3]

(* Each row of a homography is affine in the coordinates of the pixel.     *)
LEMMA Row ==
  ASSUME NEW m \in Matrix, NEW k \in 1 .. 3
  PROVE  \E f \in Int \X Int \X Int : \A x, y \in Int : Apply(m, x, y, 1)[k] = Affine(f, x, y)
<1> DEFINE f == <<m[3 * k - 2], m[3 * k - 1], m[3 * k]>>
<1>1. f \in Int \X Int \X Int BY DEF Matrix
<1>2. ASSUME NEW x \in Int, NEW y \in Int PROVE Apply(m, x, y, 1)[k] = Affine(f, x, y)
  <2>1. m[3] * 1 = m[3] /\ m[6] * 1 = m[6] /\ m[9] * 1 = m[9] BY DEF Matrix
  <2>2. Apply(m, x, y, 1) = <<m[1] * x + m[2] * y + m[3], m[4] * x + m[5] * y + m[6],
                              m[7] * x + m[8] * y + m[9]>>
    BY <2>1 DEF Apply
  <2>3. CASE k = 1
    <3>1. f = <<m[1], m[2], m[3]>> BY <2>3
    <3> HIDE DEF f
    <3> QED BY <2>2, <2>3, <3>1 DEF Affine
  <2>4. CASE k = 2
    <3>1. f = <<m[4], m[5], m[6]>> BY <2>4
    <3> HIDE DEF f
    <3> QED BY <2>2, <2>4, <3>1 DEF Affine
  <2>5. CASE k = 3
    <3>1. f = <<m[7], m[8], m[9]>> BY <2>5
    <3> HIDE DEF f
    <3> QED BY <2>2, <2>5, <3>1 DEF Affine
  <2> QED BY <2>3, <2>4, <2>5
<1> HIDE DEF f
<1> QED BY <1>1, <1>2

LEMMA RowTyped ==
  ASSUME NEW f \in Int \X Int \X Int, NEW x \in Int, NEW y \in Int
  PROVE  Affine(f, x, y) \in Int
BY DEF Affine

(* What holds in the corners of a camera picture holds on all of it.       *)
LEMMA OnPicture ==
  ASSUME NEW f \in Int \X Int \X Int, \A c \in Corners : Affine(f, c[1], c[2]) >= 0,
         NEW x \in 0 .. CamW - 1, NEW y \in 0 .. CamH - 1
  PROVE  Affine(f, x, y) >= 0
<1>1. PICK a \in Int, b \in Int, c \in Int : f = <<a, b, c>> OBVIOUS
<1>2. PICK m \in Nat, n \in Nat : m = CamW - 1 /\ n = CamH - 1 BY PictureSize
<1>3. <<0, 0>> \in Corners /\ <<0, n>> \in Corners /\ <<m, n>> \in Corners /\ <<m, 0>> \in Corners
  BY <1>2 DEF Corners
<1>4. /\ Affine(f, 0, 0) >= 0 /\ Affine(f, 0, n) >= 0
      /\ Affine(f, m, n) >= 0 /\ Affine(f, m, 0) >= 0
  BY <1>3
<1>5. c >= 0 /\ a * m + c >= 0 /\ b * n + c >= 0 /\ a * m + b * n + c >= 0
  BY <1>1, <1>4 DEF Affine
<1>6. x \in 0 .. m /\ y \in 0 .. n BY <1>2
<1>7. a * x + b * y + c >= 0 BY <1>5, <1>6, OnRectangle
<1> QED BY <1>1, <1>7 DEF Affine

(* The picture is seen from its front, not only its corners.               *)
LEMMA InFront ==
  ASSUME NEW m, Proper(m), NEW x \in 0 .. CamW - 1, NEW y \in 0 .. CamH - 1
  PROVE  Apply(m, x, y, 1)[3] \in Int /\ Apply(m, x, y, 1)[3] > 0
<1>1. PICK f \in Int \X Int \X Int : \A u, v \in Int : Apply(m, u, v, 1)[3] = Affine(f, u, v)
  BY Row DEF Proper
<1>2. x \in Int /\ y \in Int BY PictureSize
<1> DEFINE g == <<f[1], f[2], f[3] - 1>>
<1>3. g \in Int \X Int \X Int OBVIOUS
<1>4. ASSUME NEW u \in Int, NEW v \in Int
      PROVE  Affine(g, u, v) = Affine(f, u, v) - 1 /\ Affine(f, u, v) \in Int
  <2>1. PICK a \in Int, b \in Int, c \in Int : f = <<a, b, c>> OBVIOUS
  <2>2. g = <<a, b, c - 1>> BY <2>1
  <2> HIDE DEF g
  <2> QED BY <2>1, <2>2 DEF Affine
<1> HIDE DEF g
<1>5. ASSUME NEW c \in Corners PROVE Affine(g, c[1], c[2]) >= 0
  <2>1. c[1] \in Int /\ c[2] \in Int BY PictureSize DEF Corners
  <2>2. Apply(m, c[1], c[2], 1)[3] > 0 BY DEF Proper, OnGrid
  <2>3. PICK r \in Int : Affine(f, c[1], c[2]) = r /\ Affine(g, c[1], c[2]) = r - 1
    BY <1>4, <2>1
  <2>4. r > 0 BY <1>1, <2>1, <2>2, <2>3
  <2> QED BY <2>3, <2>4
<1>6. Affine(g, x, y) >= 0 BY <1>3, <1>5, OnPicture
<1>7. PICK r \in Int : Affine(f, x, y) = r /\ Affine(g, x, y) = r - 1
  BY <1>2, <1>4
<1>8. r > 0 BY <1>6, <1>7
<1> QED BY <1>1, <1>2, <1>7, <1>8

(* A coordinate that keeps, at the corners, on one side of a grid line     *)
(* keeps there all over the picture.                                       *)
LEMMA KeepsAbove ==
  ASSUME NEW m, Proper(m), NEW k \in {1, 2}, NEW q \in Int, NEW lo \in Int,
         \A c \in Corners : q * Apply(m, c[1], c[2], 1)[k] - lo * Apply(m, c[1], c[2], 1)[3] >= 0,
         NEW x \in 0 .. CamW - 1, NEW y \in 0 .. CamH - 1
  PROVE  q * Apply(m, x, y, 1)[k] - lo * Apply(m, x, y, 1)[3] >= 0
<1>1. PICK f \in Int \X Int \X Int : \A u, v \in Int : Apply(m, u, v, 1)[k] = Affine(f, u, v)
  BY Row DEF Proper
<1>2. PICK g \in Int \X Int \X Int : \A u, v \in Int : Apply(m, u, v, 1)[3] = Affine(g, u, v)
  BY Row DEF Proper
<1>3. x \in Int /\ y \in Int BY PictureSize
<1> DEFINE h == <<q * f[1] - lo * g[1], q * f[2] - lo * g[2], q * f[3] - lo * g[3]>>
<1>4. h \in Int \X Int \X Int OBVIOUS
<1>5. ASSUME NEW u \in Int, NEW v \in Int
      PROVE  Affine(h, u, v) = q * Affine(f, u, v) - lo * Affine(g, u, v)
  <2>1. PICK a \in Int, b \in Int, c \in Int : f = <<a, b, c>> OBVIOUS
  <2>2. PICK i \in Int, j \in Int, l \in Int : g = <<i, j, l>> OBVIOUS
  <2>3. h = <<q * a - lo * i, q * b - lo * j, q * c - lo * l>> BY <2>1, <2>2
  <2> HIDE DEF h
  <2>4. (q * a - lo * i) * u + (q * b - lo * j) * v + (q * c - lo * l)
          = q * (a * u + b * v + c) - lo * (i * u + j * v + l)
    OBVIOUS
  <2> QED BY <2>1, <2>2, <2>3, <2>4 DEF Affine
<1> HIDE DEF h
<1>6. ASSUME NEW c \in Corners PROVE Affine(h, c[1], c[2]) >= 0
  <2>1. c[1] \in Int /\ c[2] \in Int BY PictureSize DEF Corners
  <2> QED BY <1>1, <1>2, <1>5, <2>1
<1>7. Affine(h, x, y) >= 0 BY <1>4, <1>6, OnPicture
<1> QED BY <1>1, <1>2, <1>3, <1>5, <1>7

Views == view \in [Cameras -> Matrix] /\ \A i \in Cameras : OnGrid(view[i])

(* The corners of all pictures, projected, lie within the span.            *)
LEMMA SpanEnds ==
  ASSUME Views, NEW k \in {1, 2}
  PROVE  /\ Min(Span(k)) \in Int /\ Max(Span(k)) \in Int
         /\ Min(Span(k)) <= Max(Span(k))
         /\ \A i \in Cameras, c \in Corners :
              LET p == Apply(view[i], c[1], c[2], 1)
              IN /\ Q * p[k] - Min(Span(k)) * p[3] >= 0
                 /\ Max(Span(k)) * p[3] - Q * p[k] >= 0
<1> DEFINE Val(i, c) == (Q * Apply(view[i], c[1], c[2], 1)[k]) \div Apply(view[i], c[1], c[2], 1)[3]
<1>1. Span(k) = {Val(i, c) : i \in Cameras, c \in Corners} BY DEF Span
<1>2. ASSUME NEW i \in Cameras, NEW c \in Corners
      PROVE  \E u, w, v \in Int : /\ Apply(view[i], c[1], c[2], 1)[k] = u
                                  /\ Apply(view[i], c[1], c[2], 1)[3] = w
                                  /\ w > 0 /\ Val(i, c) = v /\ Q * u = w * v
  <2>1. c \in Int \X Int BY PictureSize DEF Corners
  <2>2. view[i] \in Matrix /\ OnGrid(view[i]) BY DEF Views
  <2>3. PICK u \in Int : Apply(view[i], c[1], c[2], 1)[k] = u
    <3>1. PICK f \in Int \X Int \X Int : \A x, y \in Int :
            Apply(view[i], x, y, 1)[k] = Affine(f, x, y)
      BY <2>2, Row
    <3> QED BY <2>1, <3>1, RowTyped
  <2>4. PICK w \in Int : Apply(view[i], c[1], c[2], 1)[3] = w
    <3>1. PICK f \in Int \X Int \X Int : \A x, y \in Int :
            Apply(view[i], x, y, 1)[3] = Affine(f, x, y)
      BY <2>2, Row
    <3> QED BY <2>1, <3>1, RowTyped
  <2>5. w > 0 /\ (Q * u) % w = 0 BY <2>2, <2>3, <2>4 DEF OnGrid
  <2>6. PICK t \in Int : t = Q * u BY Grid
  <2>7. t = w * (t \div w) /\ t \div w \in Int BY <2>5, <2>6
  <2> QED BY <2>3, <2>4, <2>5, <2>6, <2>7
<1> HIDE DEF Val
<1>3. Span(k) \subseteq Int BY <1>1, <1>2
<1>4. Span(k) # {}
  <2>1. 0 \in Cameras /\ <<0, 0>> \in Corners BY DEF Cameras, Corners
  <2>2. Val(0, <<0, 0>>) \in Span(k) BY <1>1, <2>1
  <2> QED BY <2>2
<1>5. IsFiniteSet(Span(k))
  <2>1. Cameras = 0 .. 3 BY DEF Cameras
  <2>2. \A n \in Int : IsFiniteSet(0 .. n) BY FS_Interval
  <2>3. PICK n \in Int : n = 3 OBVIOUS
  <2>4. IsFiniteSet(Cameras)
    <3>1. Cameras = 0 .. n BY <2>1, <2>3
    <3> QED BY <2>2, <3>1
  <2>5. IsFiniteSet(Corners)
    <3>1. IsFiniteSet({<<0, 0>>} \cup {<<0, CamH - 1>>} \cup {<<CamW - 1, CamH - 1>>} \cup {<<CamW - 1, 0>>})
      BY FS_Singleton, FS_Union
    <3>2. Corners = {<<0, 0>>} \cup {<<0, CamH - 1>>} \cup {<<CamW - 1, CamH - 1>>} \cup {<<CamW - 1, 0>>}
      BY DEF Corners
    <3> QED BY <3>1, <3>2
  <2>6. IsFiniteSet(Cameras \X Corners) BY <2>4, <2>5, FS_Product
  <2> DEFINE F == [ic \in Cameras \X Corners |-> Val(ic[1], ic[2])]
  <2>7. F \in [Cameras \X Corners -> Span(k)] BY <1>1
  <2>8. \A y \in Span(k) : \E ic \in Cameras \X Corners : F[ic] = y
    <3> SUFFICES ASSUME NEW i \in Cameras, NEW c \in Corners
                 PROVE  \E ic \in Cameras \X Corners : F[ic] = Val(i, c)
      BY <1>1
    <3> QED BY <<i, c>> \in Cameras \X Corners
  <2>9. F \in Surjection(Cameras \X Corners, Span(k))
    <3> HIDE DEF F
    <3> QED BY <2>7, <2>8 DEF Surjection
  <2> QED BY <2>6, <2>9, FS_Surjection
<1> DEFINE lo == Min(Span(k))
           hi == Max(Span(k))
<1>6. lo \in Int /\ hi \in Int /\ \A y \in Span(k) : lo <= y /\ y <= hi
  BY <1>3, <1>4, <1>5, FiniteExtremes
<1> HIDE DEF lo, hi
<1>7. lo <= hi BY <1>3, <1>4, <1>6
<1>8. ASSUME NEW i \in Cameras, NEW c \in Corners
      PROVE  LET p == Apply(view[i], c[1], c[2], 1)
             IN Q * p[k] - lo * p[3] >= 0 /\ hi * p[3] - Q * p[k] >= 0
  <2>1. PICK u \in Int, w \in Int, v \in Int :
           /\ Apply(view[i], c[1], c[2], 1)[k] = u
           /\ Apply(view[i], c[1], c[2], 1)[3] = w
           /\ w > 0 /\ Val(i, c) = v /\ Q * u = w * v
    BY <1>2
  <2>2. lo <= v /\ v <= hi BY <1>1, <1>6, <2>1
  <2>3. w * v - lo * w >= 0 /\ hi * w - w * v >= 0
    <3>1. w * (v - lo) >= 0 /\ w * (hi - v) >= 0 BY <1>6, <2>1, <2>2
    <3> QED BY <1>6, <3>1
  <2> QED BY <2>1, <2>3
<1> QED BY <1>6, <1>7, <1>8 DEF lo, hi

(* Division rounds down.                                                   *)
LEMMA Cut ==
  ASSUME NEW a \in Int, NEW b \in Int, b > 0
  PROVE  a \div b \in Int /\ b * (a \div b) <= a /\ a < b * (a \div b) + b
OBVIOUS

LEMMA Spread ==
  ASSUME NEW w \in Int, NEW a \in Int, NEW b \in Int, NEW q \in Int
  PROVE  /\ w * (2 * (a - b) + q) = 2 * (a * w) - 2 * (b * w) + q * w
         /\ w * ((2 * q) * a) = (2 * (q * w)) * a
OBVIOUS

LEMMA Times ==
  ASSUME NEW w \in Int, w > 0, NEW a \in Int, NEW b \in Int
  PROVE  w * a < w * b <=> a < b
<1>1. a < b => w * a < w * b OBVIOUS
<1>2. a >= b => w * a >= w * b OBVIOUS
<1> QED BY <1>1, <1>2

(* A place between the ends of the span, rounded to the next pixel.        *)
LEMMA RoundedBy ==
  ASSUME NEW lo \in Int, NEW hi \in Int, NEW u \in Int, NEW w \in Int, w > 0,
         NEW q \in Int, q > 0, q * u - lo * w >= 0, hi * w - q * u >= 0
  PROVE  /\ Nearest(q * u - lo * w, q * w) \in Nat
         /\ Nearest(q * u - lo * w, q * w) < (2 * (hi - lo) + 3 * q) \div (2 * q)
<1> PICK x \in Int, y \in Int, z \in Int, d \in Int :
      x = hi * w /\ y = lo * w /\ z = q * u /\ d = q * w
  OBVIOUS
<1>1. z - y >= 0 /\ x - z >= 0 /\ d > 0
  <2>1. q * w > 0 OBVIOUS
  <2> QED BY <2>1
<1> PICK a \in Int : a = 2 * (hi - lo) + q OBVIOUS
<1>2. w * a = 2 * x - 2 * y + d BY Spread
<1> PICK s \in Int : s = (2 * (hi - lo) + 3 * q) \div (2 * q) /\ a < (2 * q) * s
  <2>1. 2 * (hi - lo) + 3 * q = a + 2 * q OBVIOUS
  <2>2. PICK b \in Int : b = 2 * q /\ b > 0 OBVIOUS
  <2>3. PICK s \in Int : s = (a + b) \div b /\ a + b < b * s + b BY <2>2, Cut
  <2>4. a < b * s BY <2>2, <2>3
  <2> QED BY <2>1, <2>2, <2>3, <2>4
<1>3. w * a < (2 * d) * s
  <2> PICK t \in Int : t = (2 * q) * s OBVIOUS
  <2>1. w * a < w * t BY Times
  <2>2. w * ((2 * q) * s) = (2 * (q * w)) * s BY Spread
  <2> QED BY <2>1, <2>2
<1> PICK b \in Int, m \in Int : b = 2 * d /\ m = 2 * (z - y) + d OBVIOUS
<1>4. b > 0 /\ m >= 0 /\ m < b * s
  <2> PICK e \in Int : e = b * s OBVIOUS
  <2>1. w * a < e BY <1>3
  <2> QED BY <1>1, <1>2, <2>1
<1>5. PICK r \in Int : r = m \div b /\ b * r <= m /\ m < b * r + b BY <1>4, Cut
<1>6. r < s
  <2> PICK e \in Int, f \in Int : e = b * s /\ f = b * r OBVIOUS
  <2>1. b * r < b * s BY <1>4, <1>5
  <2> QED BY <1>4, <2>1, Times
<1>7. r >= 0
  <2>1. b * (r + 1) = b * r + b OBVIOUS
  <2> PICK e \in Int, f \in Int : e = b * r /\ f = b * (r + 1) OBVIOUS
  <2>2. b * 0 = 0 OBVIOUS
  <2>3. b * 0 < b * (r + 1) BY <1>4, <1>5, <2>1
  <2>4. 0 < r + 1 BY <1>4, <2>3, Times
  <2> QED BY <2>4
<1>8. Nearest(z - y, d) = r BY <1>5 DEF Nearest
<1> QED BY <1>6, <1>7, <1>8

(* A coordinate within the span is rounded to one within the canvas.       *)
LEMMA Rounded ==
  ASSUME NEW lo \in Int, NEW hi \in Int, NEW u \in Int, NEW w \in Int, w > 0,
         Q * u - lo * w >= 0, hi * w - Q * u >= 0
  PROVE  /\ Nearest(Q * u - lo * w, Q * w) \in 0 .. Size(lo, hi) - 1
         /\ Size(lo, hi) \in Int
<1>1. PICK q \in Int : q = Q /\ q > 0 BY Grid
<1>2. Size(lo, hi) = (2 * (hi - lo) + 3 * q) \div (2 * q) BY <1>1 DEF Size
<1>3. Size(lo, hi) \in Int
  <2>1. PICK n \in Int, d \in Int : n = 2 * (hi - lo) + 3 * q /\ d = 2 * q /\ d > 0 BY <1>1
  <2>2. n \div d \in Int BY <2>1, Cut
  <2> QED BY <1>2, <2>1, <2>2
<1>4. q * u - lo * w >= 0 /\ hi * w - q * u >= 0 BY <1>1
<1>5. /\ Nearest(q * u - lo * w, q * w) \in Nat
      /\ Nearest(q * u - lo * w, q * w) < Size(lo, hi)
  <2>1. /\ Nearest(q * u - lo * w, q * w) \in Nat
        /\ Nearest(q * u - lo * w, q * w) < (2 * (hi - lo) + 3 * q) \div (2 * q)
    BY <1>1, <1>4, RoundedBy
  <2> QED BY <1>2, <2>1
<1> QED BY <1>1, <1>3, <1>5

(* What SetCanvas computes.                                                *)
Spanned == [w |-> Size(Min(Span(1)), Max(Span(1))), h |-> Size(Min(Span(2)), Max(Span(2))),
            xmin |-> Min(Span(1)), ymin |-> Min(Span(2))]

(* Every corner, and every pixel used, is placed on the canvas.            *)
LEMMA PlacedInside ==
  ASSUME Views, canvas = Spanned, NEW i \in Cameras, NEW p \in Corners \cup Used
  PROVE  PlaceOn(i, p) \in Canvas
<1>1. p[1] \in 0 .. CamW - 1 /\ p[2] \in 0 .. CamH - 1
  BY PictureSize DEF Corners, Used
<1>2. Proper(view[i]) BY DEF Views, Proper
<1> DEFINE s == Apply(view[i], p[1], p[2], 1)
<1>3. PICK w \in Int : s[3] = w /\ w > 0 BY <1>1, <1>2, InFront
<1>4. p[1] \in Int /\ p[2] \in Int /\ 1 \in Int BY <1>1, PictureSize
<1>5. s \in Int \X Int \X Int BY <1>2, <1>4, ApplyTyped DEF Proper
<1>6. ASSUME NEW k \in {1, 2}
      PROVE  LET lo == Min(Span(k))
                 hi == Max(Span(k))
             IN /\ Nearest(Q * s[k] - lo * s[3], Q * s[3]) \in 0 .. Size(lo, hi) - 1
                /\ Size(lo, hi) \in Int
  <2>1. PICK lo \in Int, hi \in Int :
          /\ lo = Min(Span(k)) /\ hi = Max(Span(k))
          /\ \A c \in Corners :
              /\ Q * Apply(view[i], c[1], c[2], 1)[k] - lo * Apply(view[i], c[1], c[2], 1)[3] >= 0
              /\ hi * Apply(view[i], c[1], c[2], 1)[3] - Q * Apply(view[i], c[1], c[2], 1)[k] >= 0
    BY SpanEnds
  <2>2. Q \in Int /\ -Q \in Int /\ -hi \in Int BY Grid
  <2>3. Q * s[k] - lo * s[3] >= 0 BY <1>1, <1>2, <2>1, <2>2, KeepsAbove
  <2>4. ASSUME NEW c \in Corners
        PROVE  (-Q) * Apply(view[i], c[1], c[2], 1)[k] - (-hi) * Apply(view[i], c[1], c[2], 1)[3] >= 0
    <3>1. c[1] \in Int /\ c[2] \in Int BY PictureSize DEF Corners
    <3>2. Apply(view[i], c[1], c[2], 1) \in Int \X Int \X Int BY <1>2, <3>1, ApplyTyped DEF Proper
    <3>3. PICK x \in Int, z \in Int : Apply(view[i], c[1], c[2], 1)[k] = x /\ Apply(view[i], c[1], c[2], 1)[3] = z
      BY <3>2
    <3>4. hi * z - Q * x >= 0 BY <2>1, <3>3
    <3>5. (-Q) * x - (-hi) * z = hi * z - Q * x BY <2>2
    <3> QED BY <3>3, <3>4, <3>5
  <2>5. (-Q) * s[k] - (-hi) * s[3] >= 0 BY <1>1, <1>2, <2>2, <2>4, KeepsAbove
  <2>6. PICK u \in Int : s[k] = u BY <1>5
  <2> HIDE DEF s
  <2>7. hi * w - Q * u >= 0 BY <1>3, <2>2, <2>5, <2>6
  <2>8. Q * u - lo * w >= 0 BY <1>3, <2>3, <2>6
  <2>9. Nearest(Q * u - lo * w, Q * w) \in 0 .. Size(lo, hi) - 1 /\ Size(lo, hi) \in Int
    BY <1>3, <2>7, <2>8, Rounded
  <2> QED BY <1>3, <2>1, <2>6, <2>9
<1>7. PlaceOn(i, p) = <<Nearest(Q * s[1] - canvas.xmin * s[3], Q * s[3]),
                        Nearest(Q * s[2] - canvas.ymin * s[3], Q * s[3])>>
  BY DEF PlaceOn
<1> HIDE DEF s
<1>8. /\ canvas.xmin = Min(Span(1)) /\ canvas.w = Size(Min(Span(1)), Max(Span(1)))
      /\ canvas.ymin = Min(Span(2)) /\ canvas.h = Size(Min(Span(2)), Max(Span(2)))
  BY DEF Spanned
<1>9. /\ Nearest(Q * s[1] - canvas.xmin * s[3], Q * s[3]) \in 0 .. canvas.w - 1
      /\ Nearest(Q * s[2] - canvas.ymin * s[3], Q * s[3]) \in 0 .. canvas.h - 1
  <2> HIDE DEF PlaceOn
  <2> QED BY <1>6, <1>8
<1> QED BY <1>7, <1>9 DEF Canvas

LEMMA CanvasTyped ==
  ASSUME Views, canvas = Spanned
  PROVE  canvas.w \in Int /\ canvas.h \in Int /\ canvas.xmin \in Int /\ canvas.ymin \in Int
<1>1. /\ canvas.xmin = Min(Span(1)) /\ canvas.w = Size(Min(Span(1)), Max(Span(1)))
      /\ canvas.ymin = Min(Span(2)) /\ canvas.h = Size(Min(Span(2)), Max(Span(2)))
  BY DEF Spanned
<1>2. \A lo, hi \in Int : Size(lo, hi) \in Int
  <2> SUFFICES ASSUME NEW lo \in Int, NEW hi \in Int PROVE Size(lo, hi) \in Int OBVIOUS
  <2>1. PICK n \in Int, d \in Int : n = 2 * (hi - lo) + 3 * Q /\ d = 2 * Q /\ d > 0 BY Grid
  <2>2. n \div d \in Int BY <2>1, Cut
  <2> QED BY <2>1, <2>2 DEF Size
<1>3. Min(Span(1)) \in Int /\ Max(Span(1)) \in Int /\ Min(Span(2)) \in Int /\ Max(Span(2)) \in Int
  BY SpanEnds
<1> QED BY <1>1, <1>2, <1>3

(* What is put in the middle of something larger fits, with margins that   *)
(* differ by one at most.                                                  *)
LEMMA InTheMiddle ==
  ASSUME NEW s \in Int, NEW n \in Int, s >= n
  PROVE  /\ (s - n) \div 2 \in Nat /\ (s - n) \div 2 + n <= s
         /\ s - n - 2 * ((s - n) \div 2) \in {0, 1}
OBVIOUS

(* The square holds the canvas, in its middle.                             *)
LEMMA Middle ==
  ASSUME canvas.w \in Int, canvas.h \in Int
  PROVE  /\ OffX \in Nat /\ OffX + canvas.w <= Square /\ Square - canvas.w - 2 * OffX \in {0, 1}
         /\ OffY \in Nat /\ OffY + canvas.h <= Square /\ Square - canvas.h - 2 * OffY \in {0, 1}
         /\ Square \in Int
<1> DEFINE m == Max({canvas.w, canvas.h})
<1>1. m \in Int /\ m >= canvas.w /\ m >= canvas.h
  <2>1. IsFiniteSet({canvas.w} \cup {canvas.h}) BY FS_Singleton, FS_Union
  <2>2. {canvas.w, canvas.h} = {canvas.w} \cup {canvas.h} OBVIOUS
  <2>3. IsFiniteSet({canvas.w, canvas.h}) BY <2>1, <2>2
  <2>4. {canvas.w, canvas.h} \subseteq Int /\ {canvas.w, canvas.h} # {} OBVIOUS
  <2>5. m \in {canvas.w, canvas.h} /\ \A y \in {canvas.w, canvas.h} : y <= m
    BY <2>3, <2>4, FiniteExtremes
  <2> QED BY <2>5
<1>2. Square = ((m + 15) \div 16) * 16 BY DEF Square
<1> HIDE DEF m
<1>3. Square \in Int /\ Square >= m BY <1>1, <1>2
<1> PICK s \in Int, w \in Int, h \in Int :
      s = Square /\ w = canvas.w /\ h = canvas.h /\ s >= w /\ s >= h
  BY <1>1, <1>3
<1>4. OffX = (s - w) \div 2 /\ OffY = (s - h) \div 2 BY DEF OffX, OffY
<1> QED BY <1>4, InTheMiddle

Padded == [p \in (0 .. Square - 1) \X (0 .. Square - 1) |->
             LET q == <<p[1] - OffX, p[2] - OffY>>
             IN IF q \in Canvas THEN owner[q] ELSE Nobody]

Stitched ==
  /\ Views
  /\ stage \in {"remap", "stitch", "shown"} => canvas = Spanned
  /\ stage \in {"stitch", "shown"} => \A p \in Canvas : RightOwner(owner[p], 4, Inverses, p)
  /\ stage = "shown" => padded = Padded

LEMMA ProperIdentity == Identity \in Matrix /\ OnGrid(Identity)
<1>1. Identity \in Matrix BY DEF Identity, Matrix
<1>2. OnGrid(Identity)
  <2> SUFFICES ASSUME NEW c \in Corners
               PROVE  LET p == Apply(Identity, c[1], c[2], 1)
                      IN p[3] > 0 /\ (Q * p[1]) % p[3] = 0 /\ (Q * p[2]) % p[3] = 0
    BY DEF OnGrid
  <2>1. PICK x \in Int, y \in Int : c = <<x, y>> BY PictureSize DEF Corners
  <2>2. Apply(Identity, x, y, 1) = <<x, y, 1>> BY DEF Apply, Identity
  <2>3. \A n \in Int : n % 1 = 0 OBVIOUS
  <2>4. Q * x \in Int /\ Q * y \in Int BY Grid
  <2> QED BY <2>1, <2>2, <2>3, <2>4
<1> QED BY <1>1, <1>2

LEMMA QuotientInside ==
  ASSUME NEW u \in Int, NEW w \in Int, w > 0, NEW m \in Int, u >= 2 * w, u < m * w
  PROVE  u \div w \in 2 .. m - 1
<1>1. PICK q \in Int : q = u \div w /\ w * q <= u /\ u < w * q + w BY Cut
<1>2. w * q < w * m BY <1>1
<1>3. w * 1 < w * q
  <2>1. w * 1 = w OBVIOUS
  <2> QED BY <1>1, <2>1
<1>4. q < m /\ 1 < q BY <1>2, <1>3, Times
<1> QED BY <1>1, <1>4

(* The invariant of the stitching, and its steps.                          *)
LEMMA StitchStarts == StitchInit => Stitched
BY ProperIdentity DEF StitchInit, Stitched, Views

LEMMA InversesTyped ==
  ASSUME Views PROVE Inverses \in [Cameras -> Matrix]
BY InvertedTyped DEF Views, Inverses

LEMMA OwnersSet == Stitched /\ SetOwners => \A p \in Canvas : RightOwner(owner'[p], 4, Inverses, p)
<1> SUFFICES ASSUME Stitched, SetOwners, NEW p \in Canvas
             PROVE  RightOwner(owner'[p], 4, Inverses, p)
  OBVIOUS
<1>1. Views /\ canvas = Spanned BY DEF Stitched, SetOwners
<1>2. canvas.w \in Int /\ canvas.h \in Int /\ canvas.xmin \in Int /\ canvas.ymin \in Int
  BY <1>1, CanvasTyped
<1>3. p \in Int \X Int BY <1>2 DEF Canvas
<1>4. Inverses \in [Cameras -> Matrix] BY <1>1, InversesTyped
<1>5. owner'[p] = OwnerOf(Inverses, p) BY Zenon DEF SetOwners
<1> QED BY <1>2, <1>3, <1>4, <1>5, OwnerJudged

(* What is said of view and canvas lasts as long as they do.               *)
LEMMA Lasting ==
  /\ view' = view => Views' = Views /\ Spanned' = Spanned /\ Inverses' = Inverses
  /\ canvas' = canvas => Canvas' = Canvas
  /\ canvas' = canvas /\ view' = view =>
       \A cam, p : RightOwner(cam, 4, Inverses, p)' = RightOwner(cam, 4, Inverses, p)
<1>1. view' = view => Views' = Views BY DEF Views
<1>2. view' = view => Spanned' = Spanned BY DEF Spanned, Span
<1>3. view' = view => Inverses' = Inverses BY DEF Inverses
<1>4. canvas' = canvas => Canvas' = Canvas BY DEF Canvas
<1>5. ASSUME canvas' = canvas, view' = view, NEW cam, NEW p
      PROVE  RightOwner(cam, 4, Inverses, p)' = RightOwner(cam, 4, Inverses, p)
  BY <1>3, <1>5 DEF RightOwner, Remap
<1> QED BY <1>1, <1>2, <1>3, <1>4, <1>5

LEMMA StitchKeeps == Stitched /\ [StitchNext]_stitchVars => Stitched'
<1> SUFFICES ASSUME Stitched, [StitchNext]_stitchVars PROVE Stitched' OBVIOUS
<1> USE DEF Stitched
<1>1. CASE load_mat_fails
  BY <1>1, Lasting DEF load_mat_fails
<1>2. CASE load_mat
  <2>1. PICK A \in Homographies, B \in Homographies, C \in Homographies :
          view' = [i \in Cameras |-> <<A, Identity, B, C>>[i + 1]]
    BY <1>2 DEF load_mat
  <2>2. /\ view' = [i \in Cameras |-> view'[i]]
        /\ view'[0] = A /\ view'[1] = Identity /\ view'[2] = B /\ view'[3] = C
    BY <2>1 DEF Cameras
  <2>3. Identity \in Matrix /\ OnGrid(Identity) BY ProperIdentity
  <2>4. Views' BY <2>2, <2>3, Matrices, Grid DEF Views, Cameras, Matrix
  <2> QED BY <1>2, <2>4 DEF load_mat
<1>3. CASE SetCanvas
  <2>1. canvas' = Spanned BY <1>3 DEF SetCanvas, Spanned
  <2> QED BY <1>3, <2>1, Lasting DEF SetCanvas
<1>4. CASE SetOwners
  <2>1. view' = view /\ canvas' = canvas /\ stage = "remap" /\ stage' = "stitch" BY <1>4 DEF SetOwners
  <2>2. \A p \in Canvas : RightOwner(owner'[p], 4, Inverses, p) BY <1>4, OwnersSet
  <2>3. (\A p \in Canvas : RightOwner(owner[p], 4, Inverses, p))' BY <2>1, <2>2, Lasting
  <2> QED BY <2>1, <2>3, Lasting
<1>5. CASE Stitch
  <2>1. view' = view /\ canvas' = canvas /\ owner' = owner /\ stage = "stitch" /\ stage' = "shown"
    BY <1>5 DEF Stitch
  <2>2. padded' = Padded BY <1>5 DEF Stitch, Padded
  <2>3. Padded' = Padded BY <2>1 DEF Padded, Square, OffX, OffY, Canvas
  <2>4. (\A p \in Canvas : RightOwner(owner[p], 4, Inverses, p))' BY <2>1, Lasting
  <2> QED BY <2>1, <2>2, <2>3, <2>4, Lasting
<1>6. CASE NextRound
  <2>1. view' = view /\ canvas' = canvas /\ owner' = owner /\ stage = "shown" /\ stage' = "stitch"
    BY <1>6 DEF NextRound
  <2>2. (\A p \in Canvas : RightOwner(owner[p], 4, Inverses, p))' BY <2>1, Lasting
  <2> QED BY <2>1, <2>2, Lasting
<1>7. CASE UNCHANGED stitchVars
  <2>1. view' = view /\ canvas' = canvas /\ owner' = owner /\ stage' = stage /\ padded' = padded
    BY <1>7 DEF stitchVars
  <2>2. Padded' = Padded BY <2>1 DEF Padded, Square, OffX, OffY, Canvas
  <2>3. stage \in {"stitch", "shown"} => (\A p \in Canvas : RightOwner(owner[p], 4, Inverses, p))'
    BY <2>1, Lasting
  <2> QED BY <2>1, <2>2, <2>3, Lasting
<1> QED BY <1>1, <1>2, <1>3, <1>4, <1>5, <1>6, <1>7 DEF StitchNext, StitchEnd

LEMMA StitchInvariance == StitchSpec => []Stitched
BY StitchStarts, StitchKeeps, PTL DEF StitchSpec

(* What the invariant says of the canvas.                                  *)
LEMMA ShownWhole == Stitched => NothingCutOff
<1> SUFFICES ASSUME Stitched, stage = "shown"
             PROVE  /\ \A i \in Cameras, p \in Corners \cup Used : PlaceOn(i, p) \in Canvas
                    /\ \A p \in Canvas : <<p[1] + OffX, p[2] + OffY>> \in DOMAIN padded
                    /\ Square - canvas.w - 2 * OffX \in {0, 1}
                    /\ Square - canvas.h - 2 * OffY \in {0, 1}
  BY DEF NothingCutOff
<1>1. Views /\ canvas = Spanned /\ padded = Padded BY DEF Stitched
<1>2. canvas.w \in Int /\ canvas.h \in Int BY <1>1, CanvasTyped
<1>3. \A i \in Cameras, p \in Corners \cup Used : PlaceOn(i, p) \in Canvas
  BY <1>1, PlacedInside
<1>4. /\ OffX \in Nat /\ OffX + canvas.w <= Square /\ Square - canvas.w - 2 * OffX \in {0, 1}
      /\ OffY \in Nat /\ OffY + canvas.h <= Square /\ Square - canvas.h - 2 * OffY \in {0, 1}
      /\ Square \in Int
  BY <1>2, Middle
<1>5. DOMAIN padded = (0 .. Square - 1) \X (0 .. Square - 1) BY <1>1 DEF Padded
<1>6. \A p \in Canvas : <<p[1] + OffX, p[2] + OffY>> \in DOMAIN padded
  <2> HIDE DEF Square, OffX, OffY
  <2> QED BY <1>2, <1>4, <1>5 DEF Canvas
<1> QED BY <1>3, <1>4, <1>6

(* The canvas load_H_matrices computes (cpu_H_fuc.cpp:52-67) cuts nothing  *)
(* off: every corner and every pixel used of every camera is placed on it, *)
(* and the square of cpu_warp.cpp has room for all of it in its middle;    *)
(* for every size of picture and all integer homographies whose corners    *)
(* fall on the grid and are seen from the front.                           *)
THEOREM WholeCanvas == StitchSpec => []NothingCutOff
BY StitchInvariance, ShownWhole, PTL

(* What it says of the owners.                                             *)
LEMMA ShownNearest == Stitched => NearestOwner
<1> SUFFICES ASSUME Stitched, stage = "shown", NEW p \in Canvas
             PROVE  LET seen == [i \in Cameras |-> Remap(Inverses[i], p)]
                        cam == padded[<<p[1] + OffX, p[2] + OffY>>]
                    IN IF cam = Nobody THEN \A i \in Cameras : ~ Sees(seen[i])
                       ELSE LET s == seen[cam]
                            IN /\ s[1] \div s[3] \in 0 .. CamW - 2
                               /\ s[2] \div s[3] \in 0 .. CamH - 2
                               /\ \A i \in Cameras \ {cam} :
                                    Sees(seen[i]) =>
                                      /\ ~ Nearer(Distance(seen[i]), Distance(s))
                                      /\ i < cam => Nearer(Distance(s), Distance(seen[i]))
  BY DEF NearestOwner
<1>1. Views /\ canvas = Spanned /\ padded = Padded /\ RightOwner(owner[p], 4, Inverses, p)
  BY DEF Stitched
<1>2. canvas.w \in Int /\ canvas.h \in Int /\ canvas.xmin \in Int /\ canvas.ymin \in Int
  BY <1>1, CanvasTyped
<1>3. /\ OffX \in Nat /\ OffX + canvas.w <= Square
      /\ OffY \in Nat /\ OffY + canvas.h <= Square /\ Square \in Int
  BY <1>2, Middle
<1>4. PICK x \in Int, y \in Int : /\ p = <<x, y>> /\ x >= 0 /\ x < canvas.w
                                  /\ y >= 0 /\ y < canvas.h
  BY <1>2 DEF Canvas
<1> DEFINE q == <<x + OffX, y + OffY>>
<1>5. q \in (0 .. Square - 1) \X (0 .. Square - 1) /\ q[1] - OffX = x /\ q[2] - OffY = y
  <2> HIDE DEF Square, OffX, OffY
  <2> QED BY <1>2, <1>3, <1>4
<1>6. padded[q] = owner[p]
  <2> HIDE DEF q, Square, OffX, OffY
  <2>1. padded[q] = IF <<q[1] - OffX, q[2] - OffY>> \in Canvas
                    THEN owner[<<q[1] - OffX, q[2] - OffY>>] ELSE Nobody
    BY <1>1, <1>5 DEF Padded
  <2> QED BY <1>4, <1>5, <2>1
<1> DEFINE cam == owner[p]
           r(i) == Remap(Inverses[i], p)
<1>7. padded[<<p[1] + OffX, p[2] + OffY>>] = cam BY <1>4, <1>6
<1>8. Cameras = 0 .. 4 - 1 BY DEF Cameras
<1>9. cam = Nobody => \A i \in Cameras : ~ Sees(r(i)) BY <1>1, <1>8 DEF RightOwner
<1>10. cam # Nobody =>
         /\ cam \in Cameras /\ Sees(r(cam))
         /\ \A i \in Cameras \ {cam} :
              Sees(r(i)) => /\ ~ Nearer(Distance(r(i)), Distance(r(cam)))
                            /\ i < cam => Nearer(Distance(r(cam)), Distance(r(i)))
  BY <1>1, <1>8 DEF RightOwner
<1>11. cam \in Cameras /\ Sees(r(cam)) =>
         r(cam)[1] \div r(cam)[3] \in 0 .. CamW - 2 /\ r(cam)[2] \div r(cam)[3] \in 0 .. CamH - 2
  <2> SUFFICES ASSUME cam \in Cameras, Sees(r(cam))
               PROVE  r(cam)[1] \div r(cam)[3] \in 0 .. CamW - 2 /\ r(cam)[2] \div r(cam)[3] \in 0 .. CamH - 2
    OBVIOUS
  <2>1. Inverses[cam] \in Matrix BY <1>1, InversesTyped
  <2>2. p \in Int \X Int /\ Q \in Int BY <1>4, Grid
  <2>3. PICK u \in Int, v \in Int, w \in Int : r(cam) = <<u, v, w>> /\ w >= 0
    BY <1>2, <2>1, <2>2, RemapTyped
  <2> HIDE DEF r
  <2>4. w > 0 /\ u >= 2 * w /\ u < (CamW - 2) * w /\ v >= 2 * w /\ v < (CamH - 2) * w
    BY <2>3 DEF Sees
  <2>5. CamW - 2 \in Int /\ CamH - 2 \in Int BY PictureSize
  <2>6. u \div w \in 2 .. CamW - 3 /\ v \div w \in 2 .. CamH - 3
    BY <2>4, <2>5, QuotientInside, PictureSize
  <2> QED BY <2>3, <2>6, PictureSize
<1>12. DOMAIN [i \in Cameras |-> r(i)] = Cameras /\ \A i \in Cameras : [j \in Cameras |-> r(j)][i] = r(i)
  OBVIOUS
<1> HIDE DEF r, cam
<1>13. LET seen == [i \in Cameras |-> r(i)]
       IN IF cam = Nobody THEN \A i \in Cameras : ~ Sees(seen[i])
          ELSE LET s == seen[cam]
               IN /\ s[1] \div s[3] \in 0 .. CamW - 2
                  /\ s[2] \div s[3] \in 0 .. CamH - 2
                  /\ \A i \in Cameras \ {cam} :
                       Sees(seen[i]) =>
                         /\ ~ Nearer(Distance(seen[i]), Distance(s))
                         /\ i < cam => Nearer(Distance(s), Distance(seen[i]))
  BY <1>9, <1>10, <1>11, <1>12
<1> QED BY <1>7, <1>13 DEF r

(* Each pixel shown comes from the camera that sees it nearest to its own  *)
(* centre, the lower of two alike, from the inside of that picture, and is *)
(* black only where no camera sees it (cpu_H_fuc.cpp:73-96): for all such  *)
(* homographies, the comparison being the exact one.                       *)
THEOREM NearestCamera == StitchSpec => []NearestOwner
BY StitchInvariance, ShownNearest, PTL
-----------------------------------------------------------------------------
(* Squares: a coordinate of a point in a disc is bounded by the radius.    *)
LEMMA WithinSquare ==
  ASSUME NEW a \in Int, NEW b \in Int, NEW n \in Nat, a * a + b * b <= n * n
  PROVE  -n <= a /\ a <= n
<1>1. b * b >= 0 OBVIOUS
<1>2. a * a <= n * n BY <1>1
<1>3. CASE a > n
  <2>1. a * a > n * n BY <1>3
  <2> QED BY <1>2, <2>1
<1>4. CASE -a > n
  <2>1. (-a) * (-a) > n * n BY <1>4
  <2>2. (-a) * (-a) = a * a OBVIOUS
  <2> QED BY <1>2, <2>1, <2>2
<1> QED BY <1>3, <1>4

LEMMA WithinSquareStrictly ==
  ASSUME NEW a \in Int, NEW b \in Int, NEW n \in Nat, a * a + b * b < n * n
  PROVE  -n < a /\ a < n
<1>1. -n <= a /\ a <= n BY WithinSquare
<1>2. a # n /\ a # -n
  <2>1. b * b >= 0 OBVIOUS
  <2>2. a = n \/ a = -n => a * a = n * n OBVIOUS
  <2> QED BY <2>1, <2>2
<1> QED BY <1>1, <1>2

(* Cutting towards zero.                                                   *)
LEMMA Halves ==
  ASSUME NEW n \in Int
  PROVE  /\ Half(n) \in Int
         /\ n >= 0 => Half(n) >= 0 /\ 2 * Half(n) <= n /\ n <= 2 * Half(n) + 1
         /\ n < 0 => Half(n) <= 0 /\ n <= 2 * Half(n) /\ 2 * Half(n) <= n + 1
BY DEF Half
-----------------------------------------------------------------------------
(* The arguments of a call, on either plane.                               *)
Boxed(c) == /\ c.x \in Int /\ c.y \in Int /\ c.w \in Nat /\ c.h \in Nat
            /\ c.t \in {-1} \cup (Nat \ {0})

Round(c) == /\ c.x \in Int /\ c.y \in Int /\ c.r \in Nat
            /\ c.t \in {-1} \cup (Nat \ {0})

(* The four strips meet without a gap, are within the frame, and clipping  *)
(* takes away what is not in the plane and nothing else                    *)
(* (image_drawing.c:61-581).                                               *)
THEOREM RectangleWhole ==
  ASSUME NEW w \in Nat, NEW h \in Nat, NEW c, Boxed(c)
  PROVE  Rectangle(w, h, c) = IdealRectangle(c) \cap Plane(w, h)
<1> USE DEF Boxed
<1>1. CASE c.t = -1
  BY <1>1 DEF Rectangle, IdealRectangle, Clip, Box, Plane
<1>2. CASE c.t # -1
  <2> DEFINE t0 == c.t \div 2
             t1 == c.t - t0
             right == c.x + c.w
             bottom == c.y + c.h
             xs == 0 .. w - 1
             ys == 0 .. h - 1
             Ideal(x, y) == /\ x \in c.x - t0 .. right + t1 - 1
                            /\ y \in c.y - t0 .. bottom + t1 - 1
                            /\ ~ (/\ x \in c.x + t1 .. right - t0 - 1
                                  /\ y \in c.y + t1 .. bottom - t0 - 1)
             Painted(x, y) ==
               \/ /\ x \in c.x - t0 .. right + t1 - 1
                  /\ y \in c.y - t0 .. c.y + t1 - 1
               \/ /\ x \in c.x - t0 .. right + t1 - 1
                  /\ y \in bottom - t0 .. bottom + t1 - 1
               \/ /\ x \in c.x - t0 .. c.x + t1 - 1
                  /\ y \in c.y + t1 .. bottom - t0 - 1
               \/ /\ x \in right - t0 .. right + t1 - 1
                  /\ y \in c.y + t1 .. bottom - t0 - 1
  <2>1. t0 \in Nat /\ t1 \in Nat /\ t1 > 0 BY <1>2
  <2>2. \A x, y \in Int : Ideal(x, y) <=> Painted(x, y)
    <3> HIDE DEF t0, t1
    <3> QED BY <2>1
  <2>3. Rectangle(w, h, c) = {p \in xs \X ys : Painted(p[1], p[2])}
    BY <1>2 DEF Rectangle, Clip
  <2>4. IdealRectangle(c) \cap Plane(w, h) = {p \in xs \X ys : Ideal(p[1], p[2])}
    BY <1>2 DEF IdealRectangle, Box, Plane
  <2>5. \A p \in xs \X ys : p[1] \in Int /\ p[2] \in Int OBVIOUS
  <2> HIDE DEF Ideal, Painted
  <2> QED BY <2>2, <2>3, <2>4, <2>5
<1> QED BY <1>1, <1>2

(* One side of the loops' box, for a ring: it holds every coordinate in    *)
(* the plane that is within half a thickness of the circle, whichever of   *)
(* its two bounds a function has.                                          *)
LEMMA RingSide ==
  ASSUME NEW m \in Int, NEW r \in Nat, NEW t \in Nat \ {0}, NEW x \in Nat,
         NEW r0 \in {r - 1, r},
         -(2 * r + t) < 2 * (x - m), 2 * (x - m) < 2 * r + t
  PROVE  x \in Half(2 * (m - r0) - t) .. Half(2 * (m + r) + t - 1)
<1>1. r0 \in Int OBVIOUS
<1> DEFINE lo == 2 * (m - r0) - t
           hi == 2 * (m + r) + t - 1
<1>2. lo \in Int /\ hi \in Int BY <1>1
<1>3. 2 * x <= hi /\ hi >= 0 OBVIOUS
<1>4. 2 * x >= lo - 1
  <2>1. CASE r0 = r BY <2>1
  <2>2. CASE r0 = r - 1 BY <2>2
  <2> QED BY <2>1, <2>2
<1> HIDE DEF lo, hi
<1>5. Half(lo) \in Int /\ Half(lo) <= x
  <2>1. CASE lo >= 0 BY <1>2, <1>4, <2>1, Halves
  <2>2. CASE lo < 0 BY <1>2, <2>2, Halves
  <2> QED BY <1>2, <2>1, <2>2
<1>6. Half(hi) \in Int /\ x <= Half(hi) BY <1>2, <1>3, Halves
<1> QED BY <1>5, <1>6 DEF lo, hi

(* The box of a circle's loops, computed in floats and different from one  *)
(* number of channels to the next, loses no pixel of a ring, but for the   *)
(* hole that a pen wider than the circle leaves, and of a disc the four    *)
(* tips (image_drawing.c:612-882).                                         *)
THEOREM CircleWhole ==
  ASSUME NEW w \in Nat, NEW h \in Nat, NEW c, Round(c), NEW r0 \in {c.r - 1, c.r}
  PROVE  Circle(w, h, c, r0) = IdealCircle(c, Plane(w, h))
<1> USE DEF Round
<1> DEFINE P == Plane(w, h)
<1>1. \A p \in P : p[1] \in Nat /\ p[2] \in Nat BY DEF Plane
<1>2. CASE c.t = -1
  <2> DEFINE Disc(m) == m - (c.r - 1) .. m + c.r - 1
  <2>1. ASSUME NEW p \in P, distance_lessequal(p, c)
        PROVE  /\ p[1] \in Disc(c.x) <=> p[1] # c.x - c.r /\ p[1] # c.x + c.r
               /\ p[2] \in Disc(c.y) <=> p[2] # c.y - c.r /\ p[2] # c.y + c.r
    <3>1. PICK a \in Int, b \in Int : a = p[1] - c.x /\ b = p[2] - c.y
      BY <1>1
    <3>2. a * a + b * b <= c.r * c.r
      BY <2>1, <3>1 DEF distance_lessequal, SquareDistance
    <3>3. b * b + a * a <= c.r * c.r BY <3>2
    <3>4. -c.r <= a /\ a <= c.r /\ -c.r <= b /\ b <= c.r
      BY <3>2, <3>3, WithinSquare
    <3> QED BY <1>1, <3>1, <3>4
  <2>2. Circle(w, h, c, r0) =
          {p \in P : /\ p[1] \in Disc(c.x) /\ p[2] \in Disc(c.y)
                     /\ distance_lessequal(p, c)}
    BY <1>2 DEF Circle, Clip, Plane
  <2>3. IdealCircle(c, P) =
          {p \in P : /\ distance_lessequal(p, c)
                     /\ p[1] # c.x - c.r /\ p[1] # c.x + c.r
                     /\ p[2] # c.y - c.r /\ p[2] # c.y + c.r}
    BY <1>2 DEF IdealCircle
  <2> HIDE DEF P, Disc
  <2> QED BY <2>1, <2>2, <2>3 DEF P
<1>3. CASE c.t # -1
  <2> DEFINE Ring(m) == Half(2 * (m - r0) - c.t) .. Half(2 * (m + c.r) + c.t - 1)
  <2>1. c.t \in Nat \ {0} BY <1>3
  <2>2. ASSUME NEW p \in P, distance_inrange(p, c)
        PROVE  p[1] \in Ring(c.x) /\ p[2] \in Ring(c.y)
    <3>1. PICK a \in Int, b \in Int : a = p[1] - c.x /\ b = p[2] - c.y
      BY <1>1
    <3>2. PICK n \in Nat : n = 2 * c.r + c.t BY <2>1
    <3>3. 4 * (a * a + b * b) < n * n
      BY <2>2, <3>1, <3>2 DEF distance_inrange, SquareDistance
    <3>4. PICK d \in Int, e \in Int : d = 2 * a /\ e = 2 * b OBVIOUS
    <3>5. d * d = 4 * (a * a) /\ e * e = 4 * (b * b) BY <3>4
    <3>6. d * d + e * e < n * n /\ e * e + d * d < n * n BY <3>3, <3>5
    <3>7. -n < d /\ d < n /\ -n < e /\ e < n BY <3>6, WithinSquareStrictly
    <3>8. /\ -(2 * c.r + c.t) < 2 * (p[1] - c.x) /\ 2 * (p[1] - c.x) < 2 * c.r + c.t
          /\ -(2 * c.r + c.t) < 2 * (p[2] - c.y) /\ 2 * (p[2] - c.y) < 2 * c.r + c.t
      BY <3>1, <3>2, <3>4, <3>7
    <3> QED BY <1>1, <2>1, <3>8, RingSide
  <2>3. Circle(w, h, c, r0) =
          {p \in P : /\ p[1] \in Ring(c.x) /\ p[2] \in Ring(c.y)
                     /\ distance_inrange(p, c)}
    BY <1>3 DEF Circle, Clip, Plane
  <2>4. IdealCircle(c, P) = {p \in P : distance_inrange(p, c)}
    <3>1. ASSUME NEW p \in P
          PROVE  distance_inrange(p, c) <=>
                   LET q == 4 * SquareDistance(p, c)
                   IN /\ q < (2 * c.r + c.t) * (2 * c.r + c.t)
                      /\ 2 * c.r > c.t => q >= (2 * c.r - c.t) * (2 * c.r - c.t)
                      /\ ~ InHole(p, c)
      <4>1. PICK q \in Int : q = 4 * SquareDistance(p, c) /\ q >= 0
        <5>1. PICK a \in Int, b \in Int : a = p[1] - c.x /\ b = p[2] - c.y
          BY <1>1
        <5>2. a * a >= 0 /\ b * b >= 0 OBVIOUS
        <5>3. SquareDistance(p, c) = a * a + b * b BY <5>1 DEF SquareDistance
        <5> QED BY <5>2, <5>3
      <4>2. PICK k \in Int : k = 2 * c.r - c.t BY <2>1
      <4>3. distance_inrange(p, c) <=>
              q >= k * k /\ q < (2 * c.r + c.t) * (2 * c.r + c.t)
        BY <4>1, <4>2 DEF distance_inrange
      <4>4. InHole(p, c) <=> 2 * c.r < c.t /\ q < k * k
        BY <4>1, <4>2 DEF InHole
      <4>5. 2 * c.r = c.t => q >= k * k
        <5>1. 2 * c.r = c.t => k * k = 0 BY <4>2
        <5> QED BY <4>1, <5>1
      <4>6. k * k \in Int /\ (2 * c.r > c.t \/ 2 * c.r = c.t \/ 2 * c.r < c.t)
        BY <2>1
      <4>7. q >= k * k <=> /\ 2 * c.r > c.t => q >= k * k
                          /\ ~ (2 * c.r < c.t /\ q < k * k)
        BY <4>1, <4>5, <4>6
      <4> QED BY <4>1, <4>2, <4>3, <4>4, <4>7
    <3> QED BY <1>3, <3>1, Zenon DEF IdealCircle
  <2> HIDE DEF P, Ring
  <2> QED BY <2>2, <2>3, <2>4 DEF P
<1> QED BY <1>2, <1>3

(* How far beyond its longer end a line can reach, in one coordinate: e is *)
(* that far, u and v are the place and dx, dy the other end, seen from the *)
(* first.                                                                  *)
LEMMA BeyondTheEnd ==
  ASSUME NEW u \in Int, NEW v \in Int, NEW dx \in Int, NEW dy \in Int,
         NEW t \in Nat \ {0}, NEW m \in Nat, m >= dx,
         dx > 0 => m = dx,
         NEW e \in Nat \ {0}, u = m + e,
         NEW along \in Int, along = u * dx + v * dy,
         NEW across \in Int, across = u * dy - v * dx,
         NEW len \in Nat, len = dx * dx + dy * dy,
         0 <= along, along <= len, 2 * (across * across) < t * len
  PROVE  2 * e < t
<1>1. PICK s \in Int : s = across * dy OBVIOUS
<1>2. u * len = along * dx + s
  <2>1. along * dx = (u * dx + v * dy) * dx OBVIOUS
  <2>2. s = (u * dy - v * dx) * dy BY <1>1
  <2>3. (u * dx + v * dy) * dx + (u * dy - v * dx) * dy
        = u * (dx * dx + dy * dy)
    OBVIOUS
  <2> QED BY <2>1, <2>2, <2>3
<1>3. along * dx <= m * len
  <2>1. CASE dx > 0
    <3>1. (len - along) * dx >= 0 BY <2>1
    <3>2. (len - along) * dx = len * dx - along * dx OBVIOUS
    <3> QED BY <2>1, <3>1, <3>2
  <2>2. CASE dx <= 0
    <3>1. along * dx <= 0
      <4>1. along * (-dx) >= 0 BY <2>2
      <4> QED BY <4>1
    <3>2. m * len >= 0 OBVIOUS
    <3> QED BY <3>1, <3>2
  <2> QED BY <2>1, <2>2
<1>4. PICK d \in Nat : d = e * len OBVIOUS
<1>5. d <= s
  <2>1. u * len = m * len + e * len OBVIOUS
  <2> QED BY <1>2, <1>3, <1>4, <2>1
<1>6. d * d <= s * s
  <2>1. d * d <= d * s BY <1>5
  <2>2. d * s <= s * s BY <1>5
  <2> QED BY <2>1, <2>2
<1>7. s * s <= (across * across) * len
  <2>1. s * s = (across * across) * (dy * dy) BY <1>1
  <2>2. across * across >= 0 /\ dx * dx >= 0 /\ dy * dy >= 0 OBVIOUS
  <2>3. PICK a \in Nat, b \in Nat, f \in Nat :
          a = across * across /\ b = dy * dy /\ f = dx * dx
    BY <2>2
  <2>4. a * b <= a * (f + b) OBVIOUS
  <2> QED BY <2>1, <2>3, <2>4
<1>8. len > 0
  <2>1. across * across >= 0 OBVIOUS
  <2> QED BY <2>1
<1>9. 2 * (d * d) < (t * len) * len
  <2>1. PICK a \in Int, b \in Int : a = 2 * (across * across) /\ b = t * len
    OBVIOUS
  <2>2. a * len < b * len BY <1>8, <2>1
  <2>3. 2 * ((across * across) * len) = a * len BY <2>1
  <2> QED BY <1>6, <1>7, <2>1, <2>2, <2>3
<1>10. 2 * (e * e) < t
  <2>1. d * d = (e * e) * (len * len) BY <1>4
  <2>2. PICK a \in Int, l \in Nat : a = 2 * (e * e) /\ l = len * len OBVIOUS
  <2>3. l > 0 BY <1>8, <2>2
  <2>4. a * l < t * l
    <3>1. 2 * (d * d) = a * l BY <2>1, <2>2
    <3>2. (t * len) * len = t * l BY <2>2
    <3> QED BY <1>9, <3>1, <3>2
  <2>5. CASE a >= t
    <3>1. (a - t) * l >= 0 BY <2>5
    <3>2. (a - t) * l = a * l - t * l OBVIOUS
    <3> QED BY <2>4, <3>1, <3>2
  <2> QED BY <2>2, <2>5
<1>11. e <= e * e
  <2>1. (e - 1) * e >= 0 OBVIOUS
  <2>2. (e - 1) * e = e * e - e OBVIOUS
  <2> QED BY <2>1, <2>2
<1> QED BY <1>10, <1>11

(* distance_lessthan, seen from the first end.                             *)
Within(u, v, dx, dy, t) ==
  \E along, across \in Int, len \in Nat :
    /\ along = u * dx + v * dy
    /\ across = u * dy - v * dx
    /\ len = dx * dx + dy * dy
    /\ 0 <= along /\ along <= len /\ 2 * (across * across) < t * len

LEMMA ReachUp ==
  ASSUME NEW u \in Int, NEW v \in Int, NEW dx \in Int, NEW dy \in Int,
         NEW t \in Nat \ {0}, Within(u, v, dx, dy, t),
         NEW m \in Nat, m >= dx, dx > 0 => m = dx
  PROVE  2 * u <= 2 * m + t - 1
<1>1. CASE u <= m BY <1>1
<1>2. CASE u > m
  <2>1. PICK e \in Nat \ {0} : u = m + e BY <1>2
  <2>2. 2 * e < t BY <2>1, BeyondTheEnd DEF Within
  <2> QED BY <2>1, <2>2
<1> QED BY <1>1, <1>2

(* The same line seen from the other side, and with its coordinates        *)
(* exchanged.                                                              *)
LEMMA Mirrored ==
  ASSUME NEW u \in Int, NEW v \in Int, NEW dx \in Int, NEW dy \in Int,
         NEW t \in Nat \ {0}, Within(u, v, dx, dy, t)
  PROVE  Within(-u, -v, -dx, -dy, t) /\ Within(v, u, dy, dx, t)
<1>1. PICK along \in Int, across \in Int, len \in Nat :
        /\ along = u * dx + v * dy
        /\ across = u * dy - v * dx
        /\ len = dx * dx + dy * dy
        /\ 0 <= along /\ along <= len /\ 2 * (across * across) < t * len
  BY DEF Within
<1>2. Within(-u, -v, -dx, -dy, t)
  <2>1. /\ along = (-u) * (-dx) + (-v) * (-dy)
        /\ across = (-u) * (-dy) - (-v) * (-dx)
        /\ len = (-dx) * (-dx) + (-dy) * (-dy)
    BY <1>1
  <2> QED BY <1>1, <2>1, Zenon DEF Within
<1>3. Within(v, u, dy, dx, t)
  <2>1. PICK turned \in Int : turned = -across OBVIOUS
  <2>2. turned * turned = across * across BY <2>1
  <2>3. /\ along = v * dy + u * dx
        /\ turned = v * dx - u * dy
        /\ len = dy * dy + dx * dx
    BY <1>1, <2>1
  <2>4. 2 * (turned * turned) < t * len BY <1>1, <2>2, Zenon
  <2> QED BY <1>1, <2>3, <2>4, Zenon DEF Within
<1> QED BY <1>2, <1>3

(* One side of the loops' box holds what is between its bounds.            *)
LEMMA SideHolds ==
  ASSUME NEW lo \in Int, NEW hi \in Int, NEW x \in Nat, lo <= 2 * x, 2 * x <= hi
  PROVE  x \in Half(lo) .. Half(hi)
<1>1. Half(lo) \in Int /\ Half(lo) <= x
  <2>1. CASE lo >= 0 BY <2>1, Halves
  <2>2. CASE lo < 0 BY <2>2, Halves
  <2> QED BY <2>1, <2>2
<1>2. hi >= 0 OBVIOUS
<1>3. Half(hi) \in Int /\ x <= Half(hi) BY <1>2, Halves
<1> QED BY <1>1, <1>3

LEMMA LineSide ==
  ASSUME NEW a \in Int, NEW b \in Int, NEW t \in Nat \ {0}, NEW x \in Nat,
         NEW v \in Int, NEW dy \in Int, Within(x - a, v, b - a, dy, t)
  PROVE  x \in Half(2 * Smaller(a, b) - t) .. Half(2 * Larger(a, b) + t - 1)
<1>1. PICK u \in Int, dx \in Int : u = x - a /\ dx = b - a OBVIOUS
<1>2. PICK u2 \in Int, v2 \in Int, dx2 \in Int, dy2 \in Int :
        u2 = -u /\ v2 = -v /\ dx2 = -dx /\ dy2 = -dy
  OBVIOUS
<1>3. Within(u, v, dx, dy, t) BY <1>1
<1>4. Within(u2, v2, dx2, dy2, t) BY <1>2, <1>3, Mirrored
<1>5. PICK m \in Nat : m >= dx /\ (dx > 0 => m = dx) /\ a + m = Larger(a, b)
  BY <1>1 DEF Larger
<1>6. PICK n \in Nat : n >= dx2 /\ (dx2 > 0 => n = dx2) /\ a - n = Smaller(a, b)
  BY <1>1, <1>2 DEF Smaller
<1>7. 2 * u <= 2 * m + t - 1 BY <1>3, <1>5, ReachUp
<1>8. 2 * u2 <= 2 * n + t - 1 BY <1>4, <1>6, ReachUp
<1>9. PICK lo \in Int, hi \in Int : lo = 2 * (a - n) - t /\ hi = 2 * (a + m) + t - 1
  OBVIOUS
<1>10. lo <= 2 * x /\ 2 * x <= hi BY <1>1, <1>2, <1>7, <1>8, <1>9
<1>11. x \in Half(lo) .. Half(hi) BY <1>10, SideHolds
<1> QED BY <1>5, <1>6, <1>9, <1>11

(* The ends of a line.                                                     *)
Ended(c) == /\ c.x0 \in Int /\ c.y0 \in Int /\ c.x1 \in Int /\ c.y1 \in Int
            /\ c.t \in Nat \ {0}

(* The box of a line's loops reaches beyond its ends by half of what the   *)
(* line is thick, in floats cut to ints; whatever its slope, no pixel of   *)
(* the line is lost (image_drawing.c:912-1088).                            *)
THEOREM LineWhole ==
  ASSUME NEW w \in Nat, NEW h \in Nat, NEW c, Ended(c)
  PROVE  Line(w, h, c) = {p \in Plane(w, h) : distance_lessthan(p, c)}
<1> USE DEF Ended
<1> DEFINE Side(a, b) == Half(2 * Smaller(a, b) - c.t)
                         .. Half(2 * Larger(a, b) + c.t - 1)
           P == Plane(w, h)
<1>1. \A p \in P : p[1] \in Nat /\ p[2] \in Nat BY DEF Plane
<1>2. ASSUME NEW p \in P, distance_lessthan(p, c)
      PROVE  p[1] \in Side(c.x0, c.x1) /\ p[2] \in Side(c.y0, c.y1)
  <2>1. PICK x \in Nat, y \in Nat : x = p[1] /\ y = p[2] BY <1>1
  <2>2. PICK u \in Int, v \in Int, dx \in Int, dy \in Int :
          /\ u = x - c.x0 /\ v = y - c.y0
          /\ dx = c.x1 - c.x0 /\ dy = c.y1 - c.y0
    OBVIOUS
  <2>3. PICK along \in Int, across \in Int, len \in Int :
          /\ along = u * dx + v * dy
          /\ across = u * dy - v * dx
          /\ len = dx * dx + dy * dy
    OBVIOUS
  <2>4. dx * dx >= 0 /\ dy * dy >= 0 OBVIOUS
  <2>5. len \in Nat BY <2>3, <2>4
  <2>6. along \in 0 .. len /\ 2 * across * across < c.t * len
    BY <1>2, <2>1, <2>2, <2>3, Zenon DEF distance_lessthan
  <2>7. 2 * across * across = 2 * (across * across) OBVIOUS
  <2>8. 0 <= along /\ along <= len BY <2>6
  <2>9. Within(u, v, dx, dy, c.t)
    BY <2>3, <2>5, <2>6, <2>7, <2>8, Zenon DEF Within
  <2>10. Within(v, u, dy, dx, c.t) BY <2>9, Mirrored
  <2>11. x \in Side(c.x0, c.x1) BY <2>2, <2>9, LineSide
  <2>12. y \in Side(c.y0, c.y1) BY <2>2, <2>10, LineSide
  <2> QED BY <2>1, <2>11, <2>12
<1>3. Line(w, h, c) = {p \in P : /\ p[1] \in Side(c.x0, c.x1)
                                 /\ p[2] \in Side(c.y0, c.y1)
                                 /\ distance_lessthan(p, c)}
  BY DEF Line, Clip, Plane
<1> HIDE DEF P, Side
<1> QED BY <1>2, <1>3 DEF P

(* A detection inside the picture, and no thinner than the pen, gets a     *)
(* whole frame, and RGA never paints outside (worker_npu.cpp:15-25).       *)
THEOREM FrameWhole ==
  ASSUME NEW c, c.x \in Int, c.y \in Int, c.w \in Nat, c.h \in Nat,
         c.t \in Nat \ {0}
  PROVE  /\ rga_draw_rect(c) \subseteq Plane(W, H)
         /\ Framed(c, rga_draw_rect(c))
<1>1. W \in Nat /\ H \in Nat BY EvenPicture
<1>2. \A x, y, w, h \in Int :
        /\ imfill(x, y, w, h) \subseteq Plane(W, H)
        /\ w > 0 /\ h > 0 /\ x >= 0 /\ y >= 0 /\ x + w <= W /\ y + h <= H
           => imfill(x, y, w, h) = Box(x, x + w, y, y + h)
  BY <1>1 DEF imfill, Plane, Box
<1>7. PICK x \in Int, y \in Int : x = c.x /\ y = c.y OBVIOUS
<1>8. PICK w \in Int, h \in Int, t \in Int : w = c.w /\ h = c.h /\ t = c.t
  OBVIOUS
<1>9. PICK x1 \in Int, y1 \in Int : x1 = x + w - t /\ y1 = y + h - t
  OBVIOUS
<1>5. /\ x = c.x /\ y = c.y /\ w = c.w /\ h = c.h /\ t = c.t
      /\ x1 = c.x + c.w - c.t /\ y1 = c.y + c.h - c.t
  BY <1>7, <1>8, <1>9
<1>6. rga_draw_rect(c) = imfill(x, y, w, t) \cup imfill(x, y1, w, t)
                         \cup imfill(x, y, t, h) \cup imfill(x1, y, t, h)
  BY <1>5 DEF rga_draw_rect
<1>3. rga_draw_rect(c) \subseteq Plane(W, H)
  <2>1. /\ imfill(x, y, w, t) \subseteq Plane(W, H)
        /\ imfill(x, y1, w, t) \subseteq Plane(W, H)
        /\ imfill(x, y, t, h) \subseteq Plane(W, H)
        /\ imfill(x1, y, t, h) \subseteq Plane(W, H)
    BY <1>2
  <2> QED BY <1>6, <2>1
<1>4. ASSUME Box(c.x, c.x + c.w, c.y, c.y + c.h) \subseteq Plane(W, H),
             c.w >= c.t, c.h >= c.t
      PROVE  rga_draw_rect(c) =
               Box(c.x, c.x + c.w, c.y, c.y + c.h)
               \ Box(c.x + c.t, c.x + c.w - c.t, c.y + c.t, c.y + c.h - c.t)
  <2>1. c.x >= 0 /\ c.y >= 0 /\ c.x + c.w <= W /\ c.y + c.h <= H
    <3>1. <<c.x, c.y>> \in Box(c.x, c.x + c.w, c.y, c.y + c.h)
      BY <1>4 DEF Box
    <3>2. <<c.x + c.w - 1, c.y + c.h - 1>> \in Box(c.x, c.x + c.w, c.y, c.y + c.h)
      BY <1>4 DEF Box
    <3>3. <<c.x, c.y>> \in Plane(W, H)
          /\ <<c.x + c.w - 1, c.y + c.h - 1>> \in Plane(W, H)
      BY <1>4, <3>1, <3>2
    <3> QED BY <1>1, <3>3 DEF Plane
  <2>2. /\ t > 0 /\ w > 0 /\ h > 0 /\ x >= 0 /\ y >= 0
        /\ x + w <= W /\ y + h <= H /\ x + t <= W /\ y + t <= H
        /\ x1 >= 0 /\ y1 >= 0 /\ x1 + t = x + w /\ y1 + t = y + h
    BY <1>1, <1>4, <1>5, <2>1
  <2>3. /\ imfill(x, y, w, t) = Box(x, x + w, y, y + t)
        /\ imfill(x, y1, w, t) = Box(x, x + w, y1, y1 + t)
        /\ imfill(x, y, t, h) = Box(x, x + t, y, y + h)
        /\ imfill(x1, y, t, h) = Box(x1, x1 + t, y, y + h)
    <3>1. imfill(x, y, w, t) = Box(x, x + w, y, y + t) BY <1>2, <2>2
    <3>2. imfill(x, y1, w, t) = Box(x, x + w, y1, y1 + t)
      BY <1>1, <1>2, <2>2
    <3>3. imfill(x, y, t, h) = Box(x, x + t, y, y + h) BY <1>2, <2>2
    <3>4. imfill(x1, y, t, h) = Box(x1, x1 + t, y, y + h)
      BY <1>1, <1>2, <2>2
    <3> QED BY <3>1, <3>2, <3>3, <3>4
  <2>4. rga_draw_rect(c) = Box(x, x + w, y, y + h) \ Box(x + t, x1, y + t, y1)
    <3>1. x1 = x + w - t /\ y1 = y + h - t BY <1>5
    <3>2. w >= t /\ h >= t BY <1>4, <1>5
    <3> QED BY <1>6, <2>2, <2>3, <3>1, <3>2 DEF Box
  <2> QED BY <1>5, <2>4
<1> QED BY <1>3, <1>4 DEF Framed
-----------------------------------------------------------------------------
(* From the bytes a call writes to the pixels it paints.                   *)
PixelsOf(bytes, plane) == {b[2] : b \in {p \in bytes : p[1] = plane}}

LEMMA PaintedPixels ==
  ASSUME NEW plane, NEW other, plane # other, NEW S, NEW T, NEW pen, NEW pen2,
         1 \in DOMAIN pen
  PROVE  /\ PixelsOf(Paint(plane, S, pen), plane) = S
         /\ PixelsOf(Paint(plane, S, pen) \cup Paint(other, T, pen2), plane) = S
         /\ PixelsOf(Paint(other, T, pen2) \cup Paint(plane, S, pen), plane) = S
<1> DEFINE A == Paint(plane, S, pen)
           B == Paint(other, T, pen2)
<1>1. \A b \in A : b[1] = plane /\ b[2] \in S BY DEF Paint
<1>2. \A b \in B : b[1] # plane BY DEF Paint
<1>3. \A s \in S : \E b \in A : b[2] = s
  <2> SUFFICES ASSUME NEW s \in S PROVE \E b \in A : b[2] = s OBVIOUS
  <2>1. <<1, pen[1]>> \in Graph(pen) BY DEF Graph
  <2>2. <<plane, s, <<1, pen[1]>>>> \in A BY <2>1 DEF Paint
  <2> QED BY <2>2
<1> HIDE DEF A, B
<1> QED BY <1>1, <1>2, <1>3 DEF PixelsOf, A, B

LEMMA OnePlane ==
  ASSUME NEW plane, NEW S, NEW pen, 1 \in DOMAIN pen
  PROVE  PixelsOf(Paint(plane, S, pen), plane) = S
<1> DEFINE A == Paint(plane, S, pen)
<1>1. \A b \in A : b[1] = plane /\ b[2] \in S BY DEF Paint
<1>2. \A s \in S : \E b \in A : b[2] = s
  <2> SUFFICES ASSUME NEW s \in S PROVE \E b \in A : b[2] = s OBVIOUS
  <2>1. <<1, pen[1]>> \in Graph(pen) BY DEF Graph
  <2>2. <<plane, s, <<1, pen[1]>>>> \in A BY <2>1 DEF Paint
  <2> QED BY <2>2
<1> HIDE DEF A
<1> QED BY <1>1, <1>2 DEF PixelsOf, A

LEMMA Pens1 ==
  /\ \A f \in Formats : 1 \in DOMAIN convert_color(f)
  /\ \A pen : 1 \in DOMAIN LumaPen(pen) /\ 1 \in DOMAIN ChromaPen(pen)
BY DEF Formats, convert_color, LumaPen, ChromaPen

(* The call that is made for the plane of chroma.                          *)
LEMMA HalfBox ==
  ASSUME NEW f \in Formats, NEW x \in Int, NEW y \in Int, NEW w \in Nat,
         NEW h \in Nat, NEW t \in {-1} \cup (Nat \ {0}), NEW c,
         c = [op |-> "rectangle", format |-> f, x |-> x, y |-> y, w |-> w,
              h |-> h, t |-> t]
  PROVE  /\ Boxed(c) /\ c.op = "rectangle" /\ c.format = f
         /\ Boxed(Halved(c)) /\ Halved(c).op = "rectangle"
<1>1. Boxed(c) /\ c.op = "rectangle" /\ c.format = f BY DEF Boxed
<1>2. /\ Halved(c).op = c.op
      /\ Halved(c).x = Half(c.x) /\ Halved(c).y = Half(c.y)
      /\ Halved(c).w = Half(c.w) /\ Halved(c).h = Half(c.h)
      /\ Halved(c).t = Thinner(c.t)
  BY DEF Halved
<1>3. Half(x) \in Int /\ Half(y) \in Int /\ Half(w) \in Nat /\ Half(h) \in Nat
  BY Halves
<1>4. Thinner(t) \in {-1} \cup (Nat \ {0}) BY DEF Thinner, Larger
<1> QED BY <1>1, <1>2, <1>3, <1>4 DEF Boxed

LEMMA HalfRound ==
  ASSUME NEW f \in Formats, NEW x \in Int, NEW y \in Int, NEW r \in Nat,
         NEW t \in {-1} \cup (Nat \ {0}), NEW c,
         c = [op |-> "circle", format |-> f, x |-> x, y |-> y, r |-> r,
              t |-> t]
  PROVE  /\ Round(c) /\ c.op = "circle" /\ c.format = f
         /\ Round(Halved(c)) /\ Halved(c).op = "circle"
<1>1. Round(c) /\ c.op = "circle" /\ c.format = f BY DEF Round
<1>2. /\ Halved(c).op = c.op
      /\ Halved(c).x = Half(c.x) /\ Halved(c).y = Half(c.y)
      /\ Halved(c).r = Half(c.r) /\ Halved(c).t = Thinner(c.t)
  BY DEF Halved
<1>3. Half(x) \in Int /\ Half(y) \in Int /\ Half(r) \in Nat BY Halves
<1>4. Thinner(t) \in {-1} \cup (Nat \ {0}) BY DEF Thinner, Larger
<1> QED BY <1>1, <1>2, <1>3, <1>4 DEF Round

LEMMA HalfEnded ==
  ASSUME NEW f \in Formats, NEW x0 \in Int, NEW y0 \in Int, NEW x1 \in Int,
         NEW y1 \in Int, NEW t \in Nat \ {0}, NEW c,
         c = [op |-> "line", format |-> f, x0 |-> x0, y0 |-> y0, x1 |-> x1,
              y1 |-> y1, t |-> t]
  PROVE  /\ Ended(c) /\ c.op = "line" /\ c.format = f
         /\ Ended(Halved(c)) /\ Halved(c).op = "line"
<1>1. Ended(c) /\ c.op = "line" /\ c.format = f BY DEF Ended
<1>2. /\ Halved(c).op = c.op
      /\ Halved(c).x0 = Half(c.x0) /\ Halved(c).y0 = Half(c.y0)
      /\ Halved(c).x1 = Half(c.x1) /\ Halved(c).y1 = Half(c.y1)
      /\ Halved(c).t = Thinner(c.t)
  BY DEF Halved
<1>3. /\ Half(x0) \in Int /\ Half(y0) \in Int
      /\ Half(x1) \in Int /\ Half(y1) \in Int
  BY Halves
<1>4. Thinner(t) \in Nat \ {0} BY DEF Thinner, Larger
<1> QED BY <1>1, <1>2, <1>3, <1>4 DEF Ended

(* Shaped, for these kinds of call.                                        *)
LEMMA ShapeOf ==
  ASSUME NEW c, NEW region, NEW w, NEW h
  PROVE  /\ c.op = "rectangle" =>
              (Shaped(c, region, w, h) <=> region = IdealRectangle(c) \cap Plane(w, h))
         /\ c.op = "circle" =>
              (Shaped(c, region, w, h) <=> region = IdealCircle(c, Plane(w, h)))
         /\ c.op = "line" =>
              (Shaped(c, region, w, h) <=>
                 region = {p \in Plane(w, h) : distance_lessthan(p, c)})
         /\ c.op = "frame" =>
              (Shaped(c, region, w, h) <=> region \subseteq Plane(w, h) /\ Framed(c, region))
BY DEF Shaped

(* What ShapesWhole says of every call but text: of a call and the bytes   *)
(* it writes, and of the state.                                            *)
Solid(c, bytes) ==
  c.op \in {"rectangle", "circle", "line", "obb", "frame"} =>
    /\ c.format \in Interleaved => Shaped(c, PixelsOf(bytes, "image"), W, H)
    /\ c.format \in SemiPlanar =>
         /\ Shaped(c, PixelsOf(bytes, "Y"), W, H)
         /\ Shaped(IF c.op = "obb" THEN c ELSE Halved(c),
                   PixelsOf(bytes, "UV"), W \div 2, H \div 2)

SolidShapesWhole ==
  call.op \in {"rectangle", "circle", "line", "obb", "frame"} =>
    /\ call.format \in Interleaved => Shaped(call, Region("image"), W, H)
    /\ call.format \in SemiPlanar =>
         /\ Shaped(call, Region("Y"), W, H)
         /\ Shaped(IF call.op = "obb" THEN call ELSE Halved(call),
                   Region("UV"), W \div 2, H \div 2)

LEMMA Halfway == /\ W \in Nat /\ H \in Nat
                 /\ W \div 2 \in Nat /\ H \div 2 \in Nat
BY EvenPicture

LEMMA Judged == /\ Solid(call, painted) => SolidShapesWhole
                /\ Solid(call', painted') => SolidShapesWhole'
<1>1. \A plane : Region(plane) = PixelsOf(painted, plane)
  BY DEF Region, PixelsOf
<1>2. \A plane : Region(plane)' = PixelsOf(painted', plane)
  BY DEF Region, PixelsOf
<1> QED BY <1>1, <1>2, Zenon DEF Solid, SolidShapesWhole

LEMMA Formatted ==
  ASSUME NEW f \in Formats
  PROVE  /\ f \in Interleaved <=> f = "RGB888" \/ f = "RGBA8888"
         /\ f \in SemiPlanar => f # "RGB888" /\ f # "RGBA8888"
BY DEF Formats, Interleaved, SemiPlanar

LEMMA SolidRectangle ==
  ASSUME NEW f \in Formats, NEW x \in Int, NEW y \in Int, NEW w \in Nat,
         NEW h \in Nat, NEW t \in {-1} \cup (Nat \ {0}), NEW c, NEW bytes,
         c = [op |-> "rectangle", format |-> f, x |-> x, y |-> y, w |-> w,
              h |-> h, t |-> t],
         f = "RGB888" => bytes = draw_rectangle_c3(c, convert_color(f)),
         f = "RGBA8888" => bytes = draw_rectangle_c4(c, convert_color(f)),
         f \in SemiPlanar => bytes = draw_rectangle_yuv420sp(c, convert_color(f))
  PROVE  Solid(c, bytes)
<1>1. /\ Boxed(c) /\ c.op = "rectangle" /\ c.format = f
      /\ Boxed(Halved(c)) /\ Halved(c).op = "rectangle"
  BY HalfBox
<1> DEFINE pen == convert_color(f)
           half == Halved(c)
<1>2. 1 \in DOMAIN pen /\ 1 \in DOMAIN LumaPen(pen) /\ 1 \in DOMAIN ChromaPen(pen)
  BY Pens1
<1> HIDE DEF pen, half
<1>3. ASSUME f \in Interleaved
      PROVE  Shaped(c, PixelsOf(bytes, "image"), W, H)
  <2>1. bytes = Paint("image", Rectangle(W, H, c), pen)
    BY <1>3, Formatted DEF draw_rectangle_c3, draw_rectangle_c4, pen
  <2>2. PixelsOf(bytes, "image") = Rectangle(W, H, c)
    BY <1>2, <2>1, OnePlane
  <2>3. Rectangle(W, H, c) = IdealRectangle(c) \cap Plane(W, H)
    BY <1>1, Halfway, RectangleWhole
  <2> QED BY <1>1, <2>2, <2>3, ShapeOf
<1>4. ASSUME f \in SemiPlanar
      PROVE  /\ Shaped(c, PixelsOf(bytes, "Y"), W, H)
             /\ Shaped(half, PixelsOf(bytes, "UV"), W \div 2, H \div 2)
  <2>1. bytes = Paint("Y", Rectangle(W, H, c), LumaPen(pen))
                \cup Paint("UV", Rectangle(W \div 2, H \div 2, half), ChromaPen(pen))
    BY <1>4 DEF draw_rectangle_yuv420sp, draw_rectangle_c1, draw_rectangle_c2,
                pen, half
  <2>2. /\ PixelsOf(bytes, "Y") = Rectangle(W, H, c)
        /\ PixelsOf(bytes, "UV") = Rectangle(W \div 2, H \div 2, half)
    BY <1>2, <2>1, PaintedPixels
  <2>3. Boxed(half) /\ half.op = "rectangle" BY <1>1 DEF half
  <2>4. Rectangle(W, H, c) = IdealRectangle(c) \cap Plane(W, H)
    BY <1>1, Halfway, RectangleWhole
  <2>5. Rectangle(W \div 2, H \div 2, half)
           = IdealRectangle(half) \cap Plane(W \div 2, H \div 2)
    BY <2>3, Halfway, RectangleWhole
  <2> QED BY <1>1, <2>2, <2>3, <2>4, <2>5, ShapeOf
<1> QED BY <1>1, <1>3, <1>4 DEF Solid, half

LEMMA SolidCircle ==
  ASSUME NEW f \in Formats, NEW x \in Int, NEW y \in Int, NEW r \in Nat,
         NEW t \in {-1} \cup (Nat \ {0}), NEW c, NEW bytes,
         c = [op |-> "circle", format |-> f, x |-> x, y |-> y, r |-> r,
              t |-> t],
         f = "RGB888" => bytes = draw_circle_c3(c, convert_color(f)),
         f = "RGBA8888" => bytes = draw_circle_c4(c, convert_color(f)),
         f \in SemiPlanar => bytes = draw_circle_yuv420sp(c, convert_color(f))
  PROVE  Solid(c, bytes)
<1>1. /\ Round(c) /\ c.op = "circle" /\ c.format = f
      /\ Round(Halved(c)) /\ Halved(c).op = "circle"
  BY HalfRound
<1> DEFINE pen == convert_color(f)
           half == Halved(c)
<1>2. 1 \in DOMAIN pen /\ 1 \in DOMAIN LumaPen(pen) /\ 1 \in DOMAIN ChromaPen(pen)
  BY Pens1
<1> HIDE DEF pen, half
<1>3. ASSUME f \in Interleaved
      PROVE  Shaped(c, PixelsOf(bytes, "image"), W, H)
  <2>1. PICK r0 \in {c.r - 1, c.r} :
          bytes = Paint("image", Circle(W, H, c, r0), pen)
    BY <1>3, Formatted DEF draw_circle_c3, draw_circle_c4, pen
  <2>2. PixelsOf(bytes, "image") = Circle(W, H, c, r0)
    BY <1>2, <2>1, OnePlane
  <2>3. Circle(W, H, c, r0) = IdealCircle(c, Plane(W, H))
    BY <1>1, Halfway, CircleWhole
  <2> QED BY <1>1, <2>2, <2>3, ShapeOf
<1>4. ASSUME f \in SemiPlanar
      PROVE  /\ Shaped(c, PixelsOf(bytes, "Y"), W, H)
             /\ Shaped(half, PixelsOf(bytes, "UV"), W \div 2, H \div 2)
  <2>1. bytes = Paint("Y", Circle(W, H, c, c.r - 1), LumaPen(pen))
                \cup Paint("UV", Circle(W \div 2, H \div 2, half, half.r),
                           ChromaPen(pen))
    BY <1>4 DEF draw_circle_yuv420sp, draw_circle_c1, draw_circle_c2, pen, half
  <2>2. /\ PixelsOf(bytes, "Y") = Circle(W, H, c, c.r - 1)
        /\ PixelsOf(bytes, "UV") = Circle(W \div 2, H \div 2, half, half.r)
    BY <1>2, <2>1, PaintedPixels
  <2>3. Round(half) /\ half.op = "circle" BY <1>1 DEF half
  <2>4. Circle(W, H, c, c.r - 1) = IdealCircle(c, Plane(W, H))
    BY <1>1, Halfway, CircleWhole
  <2>5. Circle(W \div 2, H \div 2, half, half.r)
           = IdealCircle(half, Plane(W \div 2, H \div 2))
    BY <2>3, Halfway, CircleWhole
  <2> QED BY <1>1, <2>2, <2>3, <2>4, <2>5, ShapeOf
<1> QED BY <1>1, <1>3, <1>4 DEF Solid, half

LEMMA SolidLine ==
  ASSUME NEW f \in Formats, NEW x0 \in Int, NEW y0 \in Int, NEW x1 \in Int,
         NEW y1 \in Int, NEW t \in Nat \ {0}, NEW c,
         c = [op |-> "line", format |-> f, x0 |-> x0, y0 |-> y0, x1 |-> x1,
              y1 |-> y1, t |-> t]
  PROVE  Solid(c, Lined(c))
<1>1. /\ Ended(c) /\ c.op = "line" /\ c.format = f
      /\ Ended(Halved(c)) /\ Halved(c).op = "line"
  BY HalfEnded
<1> DEFINE pen == convert_color(f)
           half == Halved(c)
           bytes == Lined(c)
<1>2. 1 \in DOMAIN pen /\ 1 \in DOMAIN LumaPen(pen) /\ 1 \in DOMAIN ChromaPen(pen)
  BY Pens1
<1>3. /\ f = "RGB888" => bytes = draw_line_c3(c, pen)
      /\ f = "RGBA8888" => bytes = draw_line_c4(c, pen)
      /\ f \in SemiPlanar => bytes = draw_line_yuv420sp(c, pen)
  <2>1. c.format = f BY <1>1
  <2>2. bytes = CASE f = "RGB888" -> draw_line_c3(c, pen)
                  [] f = "RGBA8888" -> draw_line_c4(c, pen)
                  [] f \in SemiPlanar -> draw_line_yuv420sp(c, pen)
                  [] OTHER -> {}
    BY <2>1, Zenon DEF Lined
  <2> HIDE DEF bytes, pen
  <2> QED BY <2>2 DEF SemiPlanar
<1> HIDE DEF pen, half, bytes
<1>4. ASSUME f \in Interleaved
      PROVE  Shaped(c, PixelsOf(bytes, "image"), W, H)
  <2>1. bytes = Paint("image", Line(W, H, c), pen)
    BY <1>3, <1>4, Formatted DEF draw_line_c3, draw_line_c4
  <2>2. PixelsOf(bytes, "image") = Line(W, H, c)
    BY <1>2, <2>1, OnePlane
  <2>3. Line(W, H, c) = {p \in Plane(W, H) : distance_lessthan(p, c)}
    BY <1>1, Halfway, LineWhole
  <2> QED BY <1>1, <2>2, <2>3, ShapeOf
<1>5. ASSUME f \in SemiPlanar
      PROVE  /\ Shaped(c, PixelsOf(bytes, "Y"), W, H)
             /\ Shaped(half, PixelsOf(bytes, "UV"), W \div 2, H \div 2)
  <2>1. bytes = Paint("Y", Line(W, H, c), LumaPen(pen))
                \cup Paint("UV", Line(W \div 2, H \div 2, half), ChromaPen(pen))
    BY <1>3, <1>5 DEF draw_line_yuv420sp, draw_line_c1, draw_line_c2, half
  <2>2. /\ PixelsOf(bytes, "Y") = Line(W, H, c)
        /\ PixelsOf(bytes, "UV") = Line(W \div 2, H \div 2, half)
    BY <1>2, <2>1, PaintedPixels
  <2>3. Ended(half) /\ half.op = "line" BY <1>1 DEF half
  <2>4. Line(W, H, c) = {p \in Plane(W, H) : distance_lessthan(p, c)}
    BY <1>1, Halfway, LineWhole
  <2>5. Line(W \div 2, H \div 2, half)
           = {p \in Plane(W \div 2, H \div 2) : distance_lessthan(p, half)}
    BY <2>3, Halfway, LineWhole
  <2> QED BY <1>1, <2>2, <2>3, <2>4, <2>5, ShapeOf
<1> QED BY <1>1, <1>4, <1>5 DEF Solid, half, bytes

(* A turned box is four lines, between points with whole coordinates.      *)
LEMMA Corner ==
  ASSUME NEW c, c.x \in Int, c.y \in Int, c.w \in Nat, c.h \in Nat,
         c.quarters \in 0 .. 3, NEW i \in 1 .. 4
  PROVE  /\ rbbox_to_corners(c)[i][1] \in Int
         /\ rbbox_to_corners(c)[i][2] \in Int
<1> DEFINE cos == <<1, 0, -1, 0>>[c.quarters + 1]
           sin == <<0, 1, 0, -1>>[c.quarters + 1]
           xs == <<-c.w, -c.w, c.w, c.w>>
           ys == <<-c.h, c.h, c.h, -c.h>>
           n == cos * xs[i] - sin * ys[i] + 2 * c.x + c.w
           m == sin * xs[i] + cos * ys[i] + 2 * c.y + c.h
<1>1. cos \in Int /\ sin \in Int
  <2>1. c.quarters + 1 \in 1 .. 4 OBVIOUS
  <2> QED BY <2>1
<1>2. xs[i] \in Int /\ ys[i] \in Int OBVIOUS
<1>3. n \in Int /\ m \in Int
  <2> HIDE DEF cos, sin, xs, ys
  <2> QED BY <1>1, <1>2
<1>4. rbbox_to_corners(c)[i] = <<Half(n), Half(m)>> BY DEF rbbox_to_corners
<1> HIDE DEF n, m
<1> QED BY <1>3, <1>4, Halves

LEMMA ObbSides ==
  ASSUME NEW c, c.x \in Int, c.y \in Int, c.w \in Nat, c.h \in Nat,
         c.quarters \in 0 .. 3, c.format \in Formats, c.t \in Nat \ {0},
         NEW i \in 1 .. 4
  PROVE  LET s == ObbSide(c, i)
         IN /\ s.op = "line" /\ s.format = c.format
            /\ Halved(s).op = "line"
            /\ Solid(s, Lined(s))
<1>1. PICK x0 \in Int, y0 \in Int : /\ x0 = rbbox_to_corners(c)[i][1]
                                   /\ y0 = rbbox_to_corners(c)[i][2]
  BY Corner
<1>2. (i % 4) + 1 \in 1 .. 4 OBVIOUS
<1>3. PICK x1 \in Int, y1 \in Int :
        /\ x1 = rbbox_to_corners(c)[(i % 4) + 1][1]
        /\ y1 = rbbox_to_corners(c)[(i % 4) + 1][2]
  BY <1>2, Corner
<1>4. PICK f \in Formats, t \in Nat \ {0} : f = c.format /\ t = c.t OBVIOUS
<1>5. ObbSide(c, i) = [op |-> "line", format |-> f, x0 |-> x0, y0 |-> y0,
                       x1 |-> x1, y1 |-> y1, t |-> t]
  BY <1>1, <1>3, <1>4, Zenon DEF ObbSide
<1> DEFINE s == [op |-> "line", format |-> f, x0 |-> x0, y0 |-> y0,
                 x1 |-> x1, y1 |-> y1, t |-> t]
<1>6. s.op = "line" /\ s.format = f /\ Halved(s).op = "line"
  BY HalfEnded
<1>7. Solid(s, Lined(s)) BY SolidLine
<1>8. ObbSide(c, i) = s BY <1>5
<1> HIDE DEF s
<1> QED BY <1>4, <1>6, <1>7, <1>8, Zenon

ObbBytes(c) == UNION {Lined(ObbSide(c, i)) : i \in 1 .. 4}

LEMMA SolidObb ==
  ASSUME NEW f \in Formats, NEW x \in Int, NEW y \in Int, NEW w \in Nat,
         NEW h \in Nat, NEW a \in 0 .. 3, NEW t \in Nat \ {0}, NEW c,
         c = [op |-> "obb", format |-> f, x |-> x, y |-> y, w |-> w, h |-> h,
              quarters |-> a, t |-> t]
  PROVE  Solid(c, ObbBytes(c))
<1> DEFINE Side(i) == ObbSide(c, i)
           Bytes(i) == Lined(Side(i))
           bytes == UNION {Bytes(i) : i \in 1 .. 4}
<1>1. /\ c.op = "obb" /\ c.format = f
      /\ c.x \in Int /\ c.y \in Int /\ c.w \in Nat /\ c.h \in Nat
      /\ c.quarters \in 0 .. 3 /\ c.format \in Formats /\ c.t \in Nat \ {0}
  OBVIOUS
<1>2. \A i \in 1 .. 4 : /\ Side(i).op = "line" /\ Side(i).format = f
                        /\ Halved(Side(i)).op = "line"
                        /\ Solid(Side(i), Bytes(i))
  BY <1>1, ObbSides
<1> HIDE DEF Side, Bytes
<1>3. \A plane : PixelsOf(bytes, plane)
                   = UNION {PixelsOf(Bytes(i), plane) : i \in 1 .. 4}
  BY DEF PixelsOf
<1> HIDE DEF bytes
<1>4. ASSUME f \in Interleaved
      PROVE  Shaped(c, PixelsOf(bytes, "image"), W, H)
  <2>1. \A i \in 1 .. 4 :
          PixelsOf(Bytes(i), "image")
          = {p \in Plane(W, H) : distance_lessthan(p, Side(i))}
    BY <1>2, <1>4, ShapeOf DEF Solid
  <2>2. PixelsOf(bytes, "image")
        = {p \in Plane(W, H) :
             \E s \in {Side(i) : i \in 1 .. 4} : distance_lessthan(p, s)}
    BY <1>3, <2>1
  <2> QED BY <1>1, <2>2, Zenon DEF Shaped, Side
<1>5. ASSUME f \in SemiPlanar
      PROVE  /\ Shaped(c, PixelsOf(bytes, "Y"), W, H)
             /\ Shaped(c, PixelsOf(bytes, "UV"), W \div 2, H \div 2)
  <2>1. \A i \in 1 .. 4 :
          /\ PixelsOf(Bytes(i), "Y")
             = {p \in Plane(W, H) : distance_lessthan(p, Side(i))}
          /\ PixelsOf(Bytes(i), "UV")
             = {p \in Plane(W \div 2, H \div 2) :
                  distance_lessthan(p, Halved(Side(i)))}
    BY <1>2, <1>5, ShapeOf DEF Solid
  <2>2. PixelsOf(bytes, "Y")
        = {p \in Plane(W, H) :
             \E s \in {Side(i) : i \in 1 .. 4} : distance_lessthan(p, s)}
    BY <1>3, <2>1
  <2>3. PixelsOf(bytes, "UV")
        = {p \in Plane(W \div 2, H \div 2) :
             \E s \in {Halved(Side(i)) : i \in 1 .. 4} : distance_lessthan(p, s)}
    BY <1>3, <2>1
  <2>4. W \div 2 # W BY EvenPicture
  <2>5. Shaped(c, PixelsOf(bytes, "Y"), W, H)
    BY <1>1, <2>2, Zenon DEF Shaped, Side
  <2>6. Shaped(c, PixelsOf(bytes, "UV"), W \div 2, H \div 2)
    BY <1>1, <2>3, <2>4, Zenon DEF Shaped, Side
  <2> QED BY <2>5, <2>6
<1> QED BY <1>1, <1>4, <1>5, Zenon DEF Solid, ObbBytes, bytes, Bytes, Side

LEMMA SolidFrame ==
  ASSUME NEW x \in Int, NEW y \in Int, NEW w \in Nat, NEW h \in Nat, NEW c,
         c = [op |-> "frame", format |-> "RGB888", x |-> x, y |-> y,
              w |-> w, h |-> h, t |-> 2]
  PROVE  Solid(c, Paint("image", rga_draw_rect(c), convert_color("RGB888")))
<1> DEFINE bytes == Paint("image", rga_draw_rect(c), convert_color("RGB888"))
<1>1. /\ c.x \in Int /\ c.y \in Int /\ c.w \in Nat /\ c.h \in Nat
      /\ c.t \in Nat \ {0} /\ c.op = "frame" /\ c.format = "RGB888"
  OBVIOUS
<1>2. 1 \in DOMAIN convert_color("RGB888") BY Pens1 DEF Formats
<1>3. PixelsOf(bytes, "image") = rga_draw_rect(c)
  BY <1>2, OnePlane
<1>4. rga_draw_rect(c) \subseteq Plane(W, H) /\ Framed(c, rga_draw_rect(c))
  BY <1>1, FrameWhole
<1>5. Shaped(c, PixelsOf(bytes, "image"), W, H)
  BY <1>1, <1>3, <1>4, ShapeOf
<1> QED BY <1>1, <1>5 DEF Solid, SemiPlanar

LEMMA Rectangles == draw_rectangle => Solid(call', painted')
<1> SUFFICES ASSUME draw_rectangle PROVE Solid(call', painted') OBVIOUS
<1>1. PICK f \in Formats, x \in Places, y \in Places, w \in Lengths,
           h \in Lengths, t \in Thicknesses :
        LET c == [op |-> "rectangle", format |-> f, x |-> x, y |-> y, w |-> w,
                  h |-> h, t |-> t]
            pen == convert_color(f)
        IN Call(c, CASE f = "RGB888" -> draw_rectangle_c3(c, pen)
                     [] f = "RGBA8888" -> draw_rectangle_c4(c, pen)
                     [] f \in SemiPlanar -> draw_rectangle_yuv420sp(c, pen)
                     [] OTHER -> {})
  BY Zenon DEF draw_rectangle
<1> DEFINE c == [op |-> "rectangle", format |-> f, x |-> x, y |-> y, w |-> w,
                 h |-> h, t |-> t]
           pen == convert_color(f)
<1>2. /\ call' = c
      /\ painted' = CASE f = "RGB888" -> draw_rectangle_c3(c, pen)
                       [] f = "RGBA8888" -> draw_rectangle_c4(c, pen)
                       [] f \in SemiPlanar -> draw_rectangle_yuv420sp(c, pen)
                       [] OTHER -> {}
  BY <1>1, Zenon DEF Call
<1>3. /\ f = "RGB888" => painted' = draw_rectangle_c3(c, pen)
      /\ f = "RGBA8888" => painted' = draw_rectangle_c4(c, pen)
      /\ f \in SemiPlanar => painted' = draw_rectangle_yuv420sp(c, pen)
  <2> HIDE DEF c, pen
  <2> QED BY <1>2 DEF SemiPlanar
<1>4. Solid(c, painted') BY <1>3, PlacesAndLengths, Pens, SolidRectangle
<1> QED BY <1>2, <1>4

LEMMA Circles == draw_circle => Solid(call', painted')
<1> SUFFICES ASSUME draw_circle PROVE Solid(call', painted') OBVIOUS
<1>1. PICK f \in Formats, x \in Places, y \in Places, r \in Lengths,
           t \in Thicknesses :
        LET c == [op |-> "circle", format |-> f, x |-> x, y |-> y, r |-> r,
                  t |-> t]
            pen == convert_color(f)
        IN Call(c, CASE f = "RGB888" -> draw_circle_c3(c, pen)
                     [] f = "RGBA8888" -> draw_circle_c4(c, pen)
                     [] f \in SemiPlanar -> draw_circle_yuv420sp(c, pen)
                     [] OTHER -> {})
  BY Zenon DEF draw_circle
<1> DEFINE c == [op |-> "circle", format |-> f, x |-> x, y |-> y, r |-> r,
                 t |-> t]
           pen == convert_color(f)
<1>2. /\ call' = c
      /\ painted' = CASE f = "RGB888" -> draw_circle_c3(c, pen)
                       [] f = "RGBA8888" -> draw_circle_c4(c, pen)
                       [] f \in SemiPlanar -> draw_circle_yuv420sp(c, pen)
                       [] OTHER -> {}
  BY <1>1, Zenon DEF Call
<1>3. /\ f = "RGB888" => painted' = draw_circle_c3(c, pen)
      /\ f = "RGBA8888" => painted' = draw_circle_c4(c, pen)
      /\ f \in SemiPlanar => painted' = draw_circle_yuv420sp(c, pen)
  <2> HIDE DEF c, pen
  <2> QED BY <1>2 DEF SemiPlanar
<1>4. Solid(c, painted') BY <1>3, PlacesAndLengths, Pens, SolidCircle
<1> QED BY <1>2, <1>4

LEMMA Lines == draw_line => Solid(call', painted')
<1> SUFFICES ASSUME draw_line PROVE Solid(call', painted') OBVIOUS
<1>1. PICK f \in Formats, x0 \in Places, y0 \in Places, x1 \in Places,
           y1 \in Places, t \in Thicknesses \ {-1} :
        LET c == [op |-> "line", format |-> f, x0 |-> x0, y0 |-> y0, x1 |-> x1,
                  y1 |-> y1, t |-> t]
        IN Call(c, Lined(c))
  BY Zenon DEF draw_line
<1> DEFINE c == [op |-> "line", format |-> f, x0 |-> x0, y0 |-> y0, x1 |-> x1,
                 y1 |-> y1, t |-> t]
<1>2. call' = c /\ painted' = Lined(c) BY <1>1, Zenon DEF Call
<1>3. /\ x0 \in Int /\ y0 \in Int /\ x1 \in Int /\ y1 \in Int
      /\ t \in Nat \ {0}
  BY PlacesAndLengths, Pens
<1>4. Solid(c, Lined(c)) BY <1>3, SolidLine
<1> QED BY <1>2, <1>4

LEMMA Obbs == draw_obb_rectangle => Solid(call', painted')
<1> SUFFICES ASSUME draw_obb_rectangle PROVE Solid(call', painted') OBVIOUS
<1>1. PICK f \in Formats, x \in Places, y \in Places, w \in Lengths,
           h \in Lengths, a \in 0 .. 3, t \in Thicknesses \ {-1} :
        LET c == [op |-> "obb", format |-> f, x |-> x, y |-> y, w |-> w,
                  h |-> h, quarters |-> a, t |-> t]
        IN Call(c, UNION {Lined(ObbSide(c, i)) : i \in 1 .. 4})
  BY Zenon DEF draw_obb_rectangle
<1> DEFINE c == [op |-> "obb", format |-> f, x |-> x, y |-> y, w |-> w,
                 h |-> h, quarters |-> a, t |-> t]
<1>2. call' = c /\ painted' = ObbBytes(c)
  BY <1>1, Zenon DEF Call, ObbBytes
<1>3. /\ x \in Int /\ y \in Int /\ w \in Nat /\ h \in Nat
      /\ t \in Nat \ {0}
  BY PlacesAndLengths, Pens
<1>4. Solid(c, ObbBytes(c)) BY <1>3, SolidObb
<1> QED BY <1>2, <1>4

LEMMA Frames == Frame => Solid(call', painted')
<1> SUFFICES ASSUME Frame PROVE Solid(call', painted') OBVIOUS
<1>1. PICK x0 \in Places, y0 \in Places, x1 \in Places, y1 \in Places :
        LET c == [op |-> "frame", format |-> "RGB888", x |-> x0, y |-> y0,
                  w |-> x1 - x0, h |-> y1 - y0, t |-> 2]
        IN /\ x0 <= x1 /\ y0 <= y1
           /\ Call(c, Paint("image", rga_draw_rect(c), convert_color("RGB888")))
  BY Zenon DEF Frame
<1> DEFINE c == [op |-> "frame", format |-> "RGB888", x |-> x0, y |-> y0,
                 w |-> x1 - x0, h |-> y1 - y0, t |-> 2]
<1>2. /\ x0 <= x1 /\ y0 <= y1
      /\ call' = c
      /\ painted' = Paint("image", rga_draw_rect(c), convert_color("RGB888"))
  BY <1>1, Zenon DEF Call
<1>3. x1 - x0 \in Nat /\ y1 - y0 \in Nat /\ x0 \in Int /\ y0 \in Int
  BY <1>2, PlacesAndLengths
<1>4. Solid(c, Paint("image", rga_draw_rect(c), convert_color("RGB888")))
  BY <1>3, SolidFrame
<1> QED BY <1>2, <1>4

LEMMA OtherCalls ==
  draw_text \/ draw_image \/ NextPicture => Solid(call', painted')
<1>1. ASSUME draw_text PROVE call'.op = "text"
  BY <1>1 DEF draw_text, Call
<1>2. ASSUME draw_image PROVE call'.op = "image"
  BY <1>2 DEF draw_image, Call
<1>3. ASSUME NextPicture PROVE call'.op = "none"
  BY <1>3 DEF NextPicture, Nothing
<1> QED BY <1>1, <1>2, <1>3 DEF Solid

(* Whatever is called, in whatever format and wherever: rectangles,        *)
(* circles, lines and turned boxes are whole on each plane, clipped at its *)
(* edges, and detections inside the picture get the whole of their frame   *)
(* (image_drawing.c:61-1117, 1551-1562, worker_npu.cpp:15-25).             *)
THEOREM SolidShapes == Spec => []SolidShapesWhole
<1> DEFINE CallSolid == Solid(call, painted)
<1>1. Init => CallSolid BY DEF Init, Nothing, Solid
<1>2. CallSolid /\ [Next]_vars => CallSolid'
  <2>1. UNCHANGED vars => (Solid(call, painted) => Solid(call', painted'))
    BY DEF vars
  <2>2. CallSolid' <=> Solid(call', painted') OBVIOUS
  <2> QED BY <2>1, <2>2, Rectangles, Circles, Lines, Obbs, Frames,
     OtherCalls DEF Next
<1>3. CallSolid => SolidShapesWhole BY Judged
<1> HIDE DEF CallSolid
<1> QED BY <1>1, <1>2, <1>3, PTL DEF Spec
-----------------------------------------------------------------------------
Lettered(c) == /\ c.x \in Int /\ c.y \in Int /\ c.size \in Nat /\ c.size > 0
               /\ c.text \in Seq(Characters)

(* The cursor of draw_text, letter by letter.                              *)
LEMMA CursorSteps ==
  ASSUME NEW c, Lettered(c)
  PROVE  /\ Cursors(c) \in [1 .. Len(c.text) + 1 -> Int \X Int]
         /\ Cursors(c)[1] = <<c.x, c.y>>
         /\ \A i \in 1 .. Len(c.text) :
              /\ c.text[i] = "newline" =>
                   Cursors(c)[i + 1] = <<c.x, Cursors(c)[i][2] + 2 * c.size>>
              /\ c.text[i] = "print" =>
                   Cursors(c)[i + 1] = <<Cursors(c)[i][1] + c.size, Cursors(c)[i][2]>>
              /\ c.text[i] \notin {"newline", "print"} => Cursors(c)[i + 1] = Cursors(c)[i]
<1> DEFINE n == Len(c.text)
           V == Int \X Int
           Step(at, k) == CASE k = "newline" -> <<c.x, at[2] + 2 * c.size>>
                            [] k = "print" -> <<at[1] + c.size, at[2]>>
                            [] OTHER -> at
           step == [v \in V \X Int |-> Step(v[1], c.text[v[2] - 1])]
           Body(f) == [i \in 1 .. n + 1 |-> IF i = 1 THEN <<c.x, c.y>>
                                            ELSE LET at == f[i - 1]
                                                 IN Step(at, c.text[i - 1])]
           cursor == CHOOSE f : f = Body(f)
<1>1. n \in Nat BY DEF Lettered
<1>2. ASSUME NEW at, NEW k
      PROVE  /\ k = "newline" => Step(at, k) = <<c.x, at[2] + 2 * c.size>>
             /\ k = "print" => Step(at, k) = <<at[1] + c.size, at[2]>>
             /\ k \notin {"newline", "print"} => Step(at, k) = at
  <2>1. "newline" # "print" OBVIOUS
  <2> QED BY <2>1, Zenon
<1>3. Cursors(c) = cursor BY Zenon DEF Cursors
<1> HIDE DEF Step
<1>4. ASSUME NEW at \in V, NEW k PROVE Step(at, k) \in V
  <2>1. c.x \in Int /\ 2 * c.size \in Int /\ c.size \in Int BY DEF Lettered
  <2> QED BY <1>2, <2>1
<1>5. step \in [V \X Int -> V] BY <1>4
<1>6. PICK f \in [1 .. n + 1 -> V] :
        \A i \in 1 .. n + 1 : f[i] = IF i = 1 THEN <<c.x, c.y>> ELSE step[<<f[i - 1], i>>]
  <2> DEFINE first == <<c.x, c.y>>
             last == n + 1
  <2>1. first \in V BY DEF Lettered
  <2>2. 1 <= last /\ last \in Int /\ 1 \in Int BY <1>1
  <2> HIDE DEF n, V, step, first, last
  <2>3. \E f \in [1 .. last -> V] : Unrolled(f, 1, last, first, step)
    BY <1>5, <2>1, <2>2, Recursion, Zenon
  <2> QED BY <2>3 DEF first, last, Unrolled
<1>7. f = Body(f)
  <2>1. ASSUME NEW i \in 1 .. n + 1 PROVE f[i] = Body(f)[i]
    <3>1. CASE i = 1 BY <1>6, <3>1
    <3>2. CASE i # 1
      <4>1. i - 1 \in 1 .. n + 1 BY <1>1, <3>2
      <4>2. <<f[i - 1], i>> \in V \X Int BY <4>1
      <4>3. step[<<f[i - 1], i>>] = Step(f[i - 1], c.text[i - 1]) BY <4>2
      <4>4. f[i] = step[<<f[i - 1], i>>]
        <5> HIDE DEF step
        <5> QED BY <1>6, <3>2
      <4> HIDE DEF step
      <4> QED BY <3>2, <4>3, <4>4
    <3> QED BY <3>1, <3>2
  <2>2. f = [i \in 1 .. n + 1 |-> f[i]] OBVIOUS
  <2>3. Body(f) = [i \in 1 .. n + 1 |-> Body(f)[i]] OBVIOUS
  <2> HIDE DEF Body
  <2> QED BY <2>1, <2>2, <2>3
<1>8. cursor = Body(cursor)
  <2> HIDE DEF Body
  <2> QED BY <1>7, Zenon
<1> HIDE DEF cursor
<1>9. \A i \in 1 .. n + 1 : cursor[i] = IF i = 1 THEN <<c.x, c.y>> ELSE Step(cursor[i - 1], c.text[i - 1])
  BY <1>8
<1>10. cursor[1] = <<c.x, c.y>> BY <1>1, <1>9
<1>11. \A i \in 1 .. n : cursor[i + 1] = Step(cursor[i], c.text[i])
  <2> SUFFICES ASSUME NEW i \in 1 .. n PROVE cursor[i + 1] = Step(cursor[i], c.text[i]) OBVIOUS
  <2>1. i + 1 \in 1 .. n + 1 /\ i + 1 # 1 /\ i + 1 - 1 = i BY <1>1
  <2> QED BY <1>9, <2>1
<1>12. cursor \in [1 .. n + 1 -> V]
  <2> DEFINE S == {m \in Nat : m + 1 \in 1 .. n + 1 => cursor[m + 1] \in V}
  <2>1. 0 \in S
    <3>1. cursor[1] \in V BY <1>10 DEF Lettered
    <3> QED BY <3>1
  <2>2. \A m \in Nat : m \in S => m + 1 \in S
    <3> SUFFICES ASSUME NEW m \in S, (m + 1) + 1 \in 1 .. n + 1 PROVE cursor[(m + 1) + 1] \in V
      OBVIOUS
    <3>1. m + 1 \in 1 .. n /\ m + 1 \in 1 .. n + 1 BY <1>1
    <3>2. cursor[m + 1] \in V BY <3>1
    <3> HIDE DEF S, V
    <3> QED BY <1>4, <1>11, <3>1, <3>2
  <2>3. Nat \subseteq S
    <3> HIDE DEF S
    <3> QED BY <2>1, <2>2, Induction
  <2>4. \A i \in 1 .. n + 1 : cursor[i] \in V
    <3> SUFFICES ASSUME NEW i \in 1 .. n + 1 PROVE cursor[i] \in V OBVIOUS
    <3>1. i - 1 \in Nat /\ (i - 1) + 1 = i BY <1>1
    <3>2. i - 1 \in S
      <4> HIDE DEF S
      <4> QED BY <2>3, <3>1
    <3> QED BY <3>1, <3>2
  <2>5. cursor = [i \in 1 .. n + 1 |-> cursor[i]] BY <1>8
  <2> HIDE DEF S, V
  <2> QED BY <2>4, <2>5
<1>13. \A i \in 1 .. n :
              /\ c.text[i] = "newline" => cursor[i + 1] = <<c.x, cursor[i][2] + 2 * c.size>>
              /\ c.text[i] = "print" => cursor[i + 1] = <<cursor[i][1] + c.size, cursor[i][2]>>
              /\ c.text[i] \notin {"newline", "print"} => cursor[i + 1] = cursor[i]
  BY <1>2, <1>11
<1> QED BY <1>3, <1>10, <1>12, <1>13

(* The widths and the height that get_text_drawing_size goes through.      *)
LEMMA SizeSteps ==
  ASSUME NEW c, Lettered(c)
  PROVE  \E s \in [0 .. Len(c.text) -> Nat \X Nat \X Nat] :
           /\ s[0] = <<0, 0, 0>>
           /\ \A i \in 0 .. Len(c.text) - 1 :
                /\ c.text[i + 1] = "newline" =>
                     s[i + 1] = <<Larger(s[i][1], s[i][2]), 0, s[i][3] + 2 * c.size>>
                /\ c.text[i + 1] = "print" => s[i + 1] = <<s[i][1], s[i][2] + c.size, s[i][3]>>
                /\ c.text[i + 1] \notin {"newline", "print"} => s[i + 1] = s[i]
           /\ get_text_drawing_size(c) =
                <<Larger(s[Len(c.text)][1], s[Len(c.text)][2]), s[Len(c.text)][3] + 2 * c.size>>
<1> DEFINE n == Len(c.text)
           V == Nat \X Nat \X Nat
           Step(s, k) == CASE k = "newline" -> <<Larger(s[1], s[2]), 0, s[3] + 2 * c.size>>
                           [] k = "print" -> <<s[1], s[2] + c.size, s[3]>>
                           [] OTHER -> s
           step == [v \in V \X Int |-> Step(v[1], c.text[v[2]])]
           Body(f) == [i \in 0 .. n |-> IF i = 0 THEN <<0, 0, 0>>
                                        ELSE LET s == f[i - 1]
                                             IN Step(s, c.text[i])]
           size == CHOOSE f : f = Body(f)
<1>1. n \in Nat BY DEF Lettered
<1>2. ASSUME NEW s, NEW k
      PROVE  /\ k = "newline" => Step(s, k) = <<Larger(s[1], s[2]), 0, s[3] + 2 * c.size>>
             /\ k = "print" => Step(s, k) = <<s[1], s[2] + c.size, s[3]>>
             /\ k \notin {"newline", "print"} => Step(s, k) = s
  <2>1. "newline" # "print" OBVIOUS
  <2> QED BY <2>1, Zenon
<1>3. get_text_drawing_size(c) = <<Larger(size[n][1], size[n][2]), size[n][3] + 2 * c.size>>
  BY Zenon DEF get_text_drawing_size
<1> HIDE DEF Step
<1>4. ASSUME NEW s \in V, NEW k PROVE Step(s, k) \in V
  <2>1. 2 * c.size \in Nat /\ c.size \in Nat BY DEF Lettered
  <2>2. Larger(s[1], s[2]) \in Nat BY DEF Larger
  <2>3. s[1] \in Nat /\ s[2] + c.size \in Nat /\ s[3] \in Nat /\ s[3] + 2 * c.size \in Nat BY <2>1
  <2> HIDE DEF V
  <2>4. <<Larger(s[1], s[2]), 0, s[3] + 2 * c.size>> \in V BY <2>2, <2>3 DEF V
  <2>5. <<s[1], s[2] + c.size, s[3]>> \in V BY <2>3 DEF V
  <2> QED BY <1>2, <2>4, <2>5
<1>5. step \in [V \X Int -> V] BY <1>4
<1>6. PICK f \in [0 .. n -> V] :
        \A i \in 0 .. n : f[i] = IF i = 0 THEN <<0, 0, 0>> ELSE step[<<f[i - 1], i>>]
  <2> DEFINE first == <<0, 0, 0>>
             last == n
  <2>1. first \in V OBVIOUS
  <2>2. 0 <= last /\ last \in Int /\ 0 \in Int BY <1>1
  <2> HIDE DEF n, V, step, first, last
  <2>3. \E f \in [0 .. last -> V] : Unrolled(f, 0, last, first, step)
    BY <1>5, <2>1, <2>2, Recursion, Zenon
  <2> QED BY <2>3 DEF first, last, Unrolled
<1>7. f = Body(f)
  <2>1. ASSUME NEW i \in 0 .. n PROVE f[i] = Body(f)[i]
    <3>1. CASE i = 0 BY <1>6, <3>1
    <3>2. CASE i # 0
      <4>1. i - 1 \in 0 .. n BY <1>1, <3>2
      <4>2. f[i - 1] \in V BY <4>1
      <4>3. step[<<f[i - 1], i>>] = Step(f[i - 1], c.text[i])
        <5> HIDE DEF V
        <5>1. <<f[i - 1], i>> \in V \X Int BY <4>2
        <5> QED BY <5>1
      <4>4. f[i] = step[<<f[i - 1], i>>]
        <5> HIDE DEF step
        <5> QED BY <1>6, <3>2
      <4> HIDE DEF step
      <4> QED BY <3>2, <4>3, <4>4
    <3> QED BY <3>1, <3>2
  <2>2. f = [i \in 0 .. n |-> f[i]] OBVIOUS
  <2>3. Body(f) = [i \in 0 .. n |-> Body(f)[i]] OBVIOUS
  <2> HIDE DEF Body
  <2> QED BY <2>1, <2>2, <2>3
<1>8. size = Body(size)
  <2> HIDE DEF Body
  <2> QED BY <1>7, Zenon
<1> HIDE DEF size
<1>9. \A i \in 0 .. n : size[i] = IF i = 0 THEN <<0, 0, 0>> ELSE Step(size[i - 1], c.text[i])
  BY <1>8
<1>10. size[0] = <<0, 0, 0>> BY <1>1, <1>9
<1>11. \A i \in 0 .. n - 1 : size[i + 1] = Step(size[i], c.text[i + 1])
  <2> SUFFICES ASSUME NEW i \in 0 .. n - 1 PROVE size[i + 1] = Step(size[i], c.text[i + 1]) OBVIOUS
  <2>1. i + 1 \in 0 .. n /\ i + 1 # 0 /\ i + 1 - 1 = i BY <1>1
  <2> QED BY <1>9, <2>1
<1>12. size \in [0 .. n -> V]
  <2> DEFINE S == {m \in Nat : m \in 0 .. n => size[m] \in V}
  <2>1. 0 \in S
    <3>1. size[0] \in V BY <1>10
    <3> QED BY <3>1
  <2>2. \A m \in Nat : m \in S => m + 1 \in S
    <3> SUFFICES ASSUME NEW m \in S, m + 1 \in 0 .. n PROVE size[m + 1] \in V
      OBVIOUS
    <3>1. m \in 0 .. n - 1 /\ m \in 0 .. n BY <1>1
    <3>2. size[m] \in V BY <3>1
    <3> HIDE DEF S, V
    <3> QED BY <1>4, <1>11, <3>1, <3>2
  <2>3. Nat \subseteq S
    <3> HIDE DEF S
    <3> QED BY <2>1, <2>2, Induction
  <2>4. \A i \in 0 .. n : size[i] \in V
    <3> SUFFICES ASSUME NEW i \in 0 .. n PROVE size[i] \in V OBVIOUS
    <3>1. i \in S
      <4> HIDE DEF S
      <4> QED BY <2>3
    <3> QED BY <3>1
  <2>5. size = [i \in 0 .. n |-> size[i]] BY <1>8
  <2> HIDE DEF S, V
  <2> QED BY <2>4, <2>5
<1>13. \A i \in 0 .. n - 1 :
          /\ c.text[i + 1] = "newline" =>
               size[i + 1] = <<Larger(size[i][1], size[i][2]), 0, size[i][3] + 2 * c.size>>
          /\ c.text[i + 1] = "print" =>
               size[i + 1] = <<size[i][1], size[i][2] + c.size, size[i][3]>>
          /\ c.text[i + 1] \notin {"newline", "print"} => size[i + 1] = size[i]
  BY <1>2, <1>11
<1> QED BY <1>3, <1>10, <1>12, <1>13

(* The cell of each character that prints lies in the size of the text.    *)
LEMMA CellsFit ==
  ASSUME NEW c, Lettered(c)
  PROVE  /\ get_text_drawing_size(c) \in Nat \X Nat
         /\ \A j \in 1 .. Len(c.text) : c.text[j] = "print" =>
              /\ Cursors(c)[j] \in Int \X Int
              /\ Cursors(c)[j][1] >= c.x
              /\ Cursors(c)[j][1] + c.size <= c.x + get_text_drawing_size(c)[1]
              /\ Cursors(c)[j][2] >= c.y
              /\ Cursors(c)[j][2] + 2 * c.size <= c.y + get_text_drawing_size(c)[2]
<1> DEFINE n == Len(c.text)
           cur == Cursors(c)
           kind(i) == c.text[i]
<1>1. PICK s \in [0 .. n -> Nat \X Nat \X Nat] :
           /\ s[0] = <<0, 0, 0>>
           /\ \A i \in 0 .. n - 1 :
                /\ kind(i + 1) = "newline" =>
                     s[i + 1] = <<Larger(s[i][1], s[i][2]), 0, s[i][3] + 2 * c.size>>
                /\ kind(i + 1) = "print" => s[i + 1] = <<s[i][1], s[i][2] + c.size, s[i][3]>>
                /\ kind(i + 1) \notin {"newline", "print"} => s[i + 1] = s[i]
           /\ get_text_drawing_size(c) = <<Larger(s[n][1], s[n][2]), s[n][3] + 2 * c.size>>
  BY SizeSteps
<1>2. /\ cur \in [1 .. n + 1 -> Int \X Int]
      /\ cur[1] = <<c.x, c.y>>
      /\ \A i \in 1 .. n :
           /\ kind(i) = "newline" => cur[i + 1] = <<c.x, cur[i][2] + 2 * c.size>>
           /\ kind(i) = "print" => cur[i + 1] = <<cur[i][1] + c.size, cur[i][2]>>
           /\ kind(i) \notin {"newline", "print"} => cur[i + 1] = cur[i]
  BY CursorSteps
<1>3. n \in Nat BY DEF Lettered
<1> HIDE DEF cur, n, kind
<1>x. PICK x \in Int, y \in Int, g \in Int : x = c.x /\ y = c.y /\ g = c.size /\ g > 0 BY DEF Lettered
<1> DEFINE A(i) == s[i][1]
           B(i) == s[i][2]
           D(i) == s[i][3]
           X(j) == cur[j][1]
           Y(j) == cur[j][2]
<1>a. \A i \in 0 .. n : A(i) \in Nat /\ B(i) \in Nat /\ D(i) \in Nat
  <2> SUFFICES ASSUME NEW i \in 0 .. n PROVE A(i) \in Nat /\ B(i) \in Nat /\ D(i) \in Nat OBVIOUS
  <2>1. s[i] \in Nat \X Nat \X Nat BY <1>1
  <2> QED BY <2>1
<1>b. \A j \in 1 .. n + 1 : cur[j] \in Int \X Int /\ X(j) \in Int /\ Y(j) \in Int
  <2> SUFFICES ASSUME NEW j \in 1 .. n + 1 PROVE cur[j] \in Int \X Int /\ X(j) \in Int /\ Y(j) \in Int OBVIOUS
  <2>1. cur[j] \in Int \X Int BY <1>2
  <2> QED BY <2>1
<1>c. A(0) = 0 /\ B(0) = 0 /\ D(0) = 0 /\ X(1) = x /\ Y(1) = y BY <1>1, <1>2, <1>x
<1>d. \A i \in 0 .. n - 1 :
        \/ /\ kind(i + 1) = "newline"
           /\ A(i + 1) >= A(i) /\ A(i + 1) >= B(i) /\ B(i + 1) = 0 /\ D(i + 1) = D(i) + 2 * g
           /\ X((i + 1) + 1) = x /\ Y((i + 1) + 1) = Y(i + 1) + 2 * g
        \/ /\ kind(i + 1) = "print"
           /\ A(i + 1) = A(i) /\ B(i + 1) = B(i) + g /\ D(i + 1) = D(i)
           /\ X((i + 1) + 1) = X(i + 1) + g /\ Y((i + 1) + 1) = Y(i + 1)
        \/ /\ kind(i + 1) # "print"
           /\ A(i + 1) = A(i) /\ B(i + 1) = B(i) /\ D(i + 1) = D(i)
           /\ X((i + 1) + 1) = X(i + 1) /\ Y((i + 1) + 1) = Y(i + 1)
  <2> SUFFICES ASSUME NEW i \in 0 .. n - 1
               PROVE
        \/ /\ kind(i + 1) = "newline"
           /\ A(i + 1) >= A(i) /\ A(i + 1) >= B(i) /\ B(i + 1) = 0 /\ D(i + 1) = D(i) + 2 * g
           /\ X((i + 1) + 1) = x /\ Y((i + 1) + 1) = Y(i + 1) + 2 * g
        \/ /\ kind(i + 1) = "print"
           /\ A(i + 1) = A(i) /\ B(i + 1) = B(i) + g /\ D(i + 1) = D(i)
           /\ X((i + 1) + 1) = X(i + 1) + g /\ Y((i + 1) + 1) = Y(i + 1)
        \/ /\ kind(i + 1) # "print"
           /\ A(i + 1) = A(i) /\ B(i + 1) = B(i) /\ D(i + 1) = D(i)
           /\ X((i + 1) + 1) = X(i + 1) /\ Y((i + 1) + 1) = Y(i + 1)
    OBVIOUS
  <2>1. i \in 0 .. n /\ i + 1 \in 1 .. n BY <1>3
  <2>2. A(i) \in Nat /\ B(i) \in Nat BY <1>a, <2>1, Zenon
  <2>3. PICK m \in Nat : m = Larger(A(i), B(i)) /\ m >= A(i) /\ m >= B(i)
    <3> HIDE DEF A, B
    <3> QED BY <2>2 DEF Larger
  <2>4. CASE kind(i + 1) = "newline"
    <3>1. s[i + 1] = <<m, 0, D(i) + 2 * g>> BY <1>1, <1>x, <2>3, <2>4
    <3>2. cur[(i + 1) + 1] = <<x, Y(i + 1) + 2 * g>> BY <1>2, <1>x, <2>1, <2>4
    <3> QED BY <2>3, <2>4, <3>1, <3>2
  <2>5. CASE kind(i + 1) = "print"
    <3>1. s[i + 1] = <<A(i), B(i) + g, D(i)>> BY <1>1, <1>x, <2>5
    <3>2. cur[(i + 1) + 1] = <<X(i + 1) + g, Y(i + 1)>> BY <1>2, <1>x, <2>1, <2>5
    <3> QED BY <2>5, <3>1, <3>2
  <2>6. CASE kind(i + 1) \notin {"newline", "print"}
    <3>1. s[i + 1] = s[i] BY <1>1, <2>6
    <3>2. cur[(i + 1) + 1] = cur[i + 1] BY <1>2, <2>1, <2>6
    <3> QED BY <2>6, <3>1, <3>2
  <2> QED BY <2>4, <2>5, <2>6
<1> HIDE DEF A, B, D, X, Y
<1> DEFINE Covers(i, j) == /\ X(j) >= x /\ Y(j) >= y
                           /\ X(j) + g <= x + A(i) \/ X(j) + g <= x + B(i)
                           /\ Y(j) <= y + D(i)
           P(i) == /\ X(i + 1) = x + B(i) /\ Y(i + 1) = y + D(i)
                   /\ \A j \in 1 .. i : kind(j) = "print" => Covers(i, j)
           S == {i \in Nat : i \in 0 .. n => P(i)}
<1>4. 0 \in S
  <2>1. X(0 + 1) = x + B(0) /\ Y(0 + 1) = y + D(0) BY <1>c
  <2>2. \A j \in 1 .. 0 : kind(j) = "print" => Covers(0, j) OBVIOUS
  <2>3. P(0) BY <2>1, <2>2
  <2> HIDE DEF P
  <2> QED BY <2>3
<1>5. \A i \in Nat : i \in S => i + 1 \in S
  <2> HIDE DEF P
  <2> SUFFICES ASSUME NEW i \in Nat, i \in 0 .. n => P(i), i + 1 \in 0 .. n PROVE P(i + 1)
    OBVIOUS
  <2> USE DEF P
  <2>1. i \in 0 .. n /\ i \in 0 .. n - 1 /\ i + 1 \in 1 .. n + 1 /\ i + 1 \in 0 .. n BY <1>3
  <2>2. X(i + 1) = x + B(i) /\ Y(i + 1) = y + D(i) BY <2>1
  <2>3. \A j \in 1 .. i : kind(j) = "print" => Covers(i, j) BY <2>1
  <2>4. A(i) \in Nat /\ B(i) \in Nat /\ D(i) \in Nat BY <1>a, <2>1
  <2>5. A(i + 1) \in Nat /\ B(i + 1) \in Nat /\ D(i + 1) \in Nat BY <1>a, <2>1
  <2>d. \/ /\ kind(i + 1) = "newline"
           /\ A(i + 1) >= A(i) /\ A(i + 1) >= B(i) /\ B(i + 1) = 0 /\ D(i + 1) = D(i) + 2 * g
           /\ X((i + 1) + 1) = x /\ Y((i + 1) + 1) = Y(i + 1) + 2 * g
        \/ /\ kind(i + 1) = "print"
           /\ A(i + 1) = A(i) /\ B(i + 1) = B(i) + g /\ D(i + 1) = D(i)
           /\ X((i + 1) + 1) = X(i + 1) + g /\ Y((i + 1) + 1) = Y(i + 1)
        \/ /\ kind(i + 1) # "print"
           /\ A(i + 1) = A(i) /\ B(i + 1) = B(i) /\ D(i + 1) = D(i)
           /\ X((i + 1) + 1) = X(i + 1) /\ Y((i + 1) + 1) = Y(i + 1)
    BY <1>d, <2>1, Zenon
  <2>6. X((i + 1) + 1) = x + B(i + 1) /\ Y((i + 1) + 1) = y + D(i + 1)
    <3>1. PICK a \in Int, b \in Int, d \in Int, b2 \in Int, d2 \in Int :
            /\ b = B(i) /\ d = D(i) /\ b2 = B(i + 1) /\ d2 = D(i + 1)
            /\ \/ b2 = 0 /\ d2 = d + 2 * g
               \/ b2 = b + g /\ d2 = d
               \/ b2 = b /\ d2 = d
      BY <2>4, <2>5, <2>d
    <3>2. \/ X((i + 1) + 1) = x /\ Y((i + 1) + 1) = (y + d) + 2 * g /\ b2 = 0 /\ d2 = d + 2 * g
          \/ X((i + 1) + 1) = (x + b) + g /\ Y((i + 1) + 1) = y + d /\ b2 = b + g /\ d2 = d
          \/ X((i + 1) + 1) = x + b /\ Y((i + 1) + 1) = y + d /\ b2 = b /\ d2 = d
      BY <2>2, <2>d, <3>1, Zenon
    <3>3. /\ (y + d) + 2 * g = y + (d + 2 * g) /\ (x + b) + g = x + (b + g)
          /\ x + 0 = x
      OBVIOUS
    <3> QED BY <3>1, <3>2, <3>3, Zenon
  <2>7. /\ A(i + 1) >= A(i)
        /\ A(i + 1) >= B(i) \/ B(i + 1) >= B(i)
        /\ D(i + 1) >= D(i)
    <3> HIDE DEF Covers, P
    <3> QED BY <1>x, <2>4, <2>5, <2>d
  <2>8. ASSUME NEW j \in 1 .. i + 1, kind(j) = "print" PROVE Covers(i + 1, j)
    <3>1. j \in 1 .. n + 1 BY <1>3, <2>1
    <3>2. X(j) \in Int /\ Y(j) \in Int BY <1>b, <3>1
    <3>3. CASE j \in 1 .. i
      <4>1. Covers(i, j)
        <5> HIDE DEF Covers, P
        <5> QED BY <2>3, <2>8, <3>3
      <4>2. X(j) >= x /\ Y(j) >= y /\ Y(j) <= y + D(i) BY <4>1, Zenon
      <4>3. X(j) + g <= x + A(i) \/ X(j) + g <= x + B(i) BY <4>1, Zenon
      <4>4. Y(j) <= y + D(i + 1)
        <5> HIDE DEF Covers, P
        <5> QED BY <2>4, <2>5, <2>7, <3>2, <4>2
      <4>5. X(j) + g <= x + A(i + 1) \/ X(j) + g <= x + B(i + 1)
        <5> HIDE DEF Covers, P
        <5> QED BY <2>4, <2>5, <2>7, <3>2, <4>3
      <4> QED BY <4>2, <4>4, <4>5, Zenon
    <3>4. CASE j \notin 1 .. i
      <4>1. j = i + 1 BY <3>4
      <4>2. "newline" # "print" OBVIOUS
      <4>3. B(i + 1) = B(i) + g /\ D(i + 1) = D(i) BY <1>d, <2>1, <2>8, <4>1, <4>2
      <4> QED BY <2>2, <2>4, <3>2, <4>1, <4>3
    <3> QED BY <3>3, <3>4
  <2> HIDE DEF Covers
  <2> QED BY <2>6, <2>8
<1>6. P(n)
  <2>1. Nat \subseteq S
    <3> HIDE DEF S
    <3> QED BY <1>4, <1>5, Induction
  <2>2. n \in S BY <1>3, <2>1
  <2> HIDE DEF P
  <2> QED BY <1>3, <2>2
<1>7. n \in 0 .. n BY <1>3
<1>8. A(n) \in Nat /\ B(n) \in Nat /\ D(n) \in Nat BY <1>a, <1>7
<1>9. PICK m \in Nat : m = Larger(A(n), B(n)) /\ m >= A(n) /\ m >= B(n) BY <1>8 DEF Larger
<1>10. get_text_drawing_size(c) = <<m, D(n) + 2 * g>> BY <1>1, <1>x, <1>9 DEF A, B, D
<1>11. D(n) + 2 * g \in Nat BY <1>8, <1>x
<1>12. ASSUME NEW j \in 1 .. n, kind(j) = "print"
       PROVE  /\ X(j) >= x /\ X(j) + g <= x + m
              /\ Y(j) >= y /\ Y(j) + 2 * g <= y + (D(n) + 2 * g)
  <2>1. j \in 1 .. n + 1 BY <1>3
  <2>2. X(j) \in Int /\ Y(j) \in Int BY <1>b, <2>1
  <2>3. Covers(n, j) BY <1>6, <1>12
  <2> QED BY <1>8, <1>9, <2>2, <2>3
<1>13. \A j \in 1 .. n : kind(j) = "print" =>
         /\ cur[j] \in Int \X Int
         /\ cur[j][1] >= c.x /\ cur[j][1] + c.size <= c.x + m
         /\ cur[j][2] >= c.y /\ cur[j][2] + 2 * c.size <= c.y + (D(n) + 2 * g)
  <2> SUFFICES ASSUME NEW j \in 1 .. n, kind(j) = "print"
               PROVE  /\ cur[j] \in Int \X Int
                      /\ cur[j][1] >= c.x /\ cur[j][1] + c.size <= c.x + m
                      /\ cur[j][2] >= c.y /\ cur[j][2] + 2 * c.size <= c.y + (D(n) + 2 * g)
    BY Zenon
  <2>1. j \in 1 .. n + 1 BY <1>3
  <2>2. cur[j] \in Int \X Int BY <1>b, <2>1, Zenon
  <2>3. /\ X(j) >= x /\ X(j) + g <= x + m
        /\ Y(j) >= y /\ Y(j) + 2 * g <= y + (D(n) + 2 * g)
    BY <1>12, Zenon
  <2> QED BY <1>x, <2>2, <2>3, Zenon DEF X, Y
<1>14. get_text_drawing_size(c) \in Nat \X Nat BY <1>10, <1>11
<1>15. get_text_drawing_size(c)[1] = m /\ get_text_drawing_size(c)[2] = D(n) + 2 * g BY <1>10
<1> QED BY <1>13, <1>14, <1>15, Zenon DEF n, cur, kind

(* A text keeps to the size that get_text_drawing_size computes for it,    *)
(* and to the plane (image_drawing.c:1119-1373).                           *)
LEMMA TextInside ==
  ASSUME NEW w \in Nat, NEW h \in Nat, NEW c, Lettered(c)
  PROVE  Text(w, h, c) \subseteq IdealText(c) \cap Plane(w, h)
<1> DEFINE size == get_text_drawing_size(c)
           cur == Cursors(c)
           Cell(j) == Clip(w, h, cur[j][1] .. cur[j][1] + c.size - 1,
                           cur[j][2] .. cur[j][2] + 2 * c.size - 1)
           Printed == {k \in DOMAIN c.text : c.text[k] = "print"}
<1>1. Text(w, h, c) = UNION {Cell(j) : j \in Printed} BY Zenon DEF Text
<1>2. DOMAIN c.text = 1 .. Len(c.text) BY DEF Lettered
<1>3. IdealText(c) = Box(c.x, c.x + size[1], c.y, c.y + size[2]) BY DEF IdealText
<1>4. ASSUME NEW j \in Printed
      PROVE  Cell(j) \subseteq Box(c.x, c.x + size[1], c.y, c.y + size[2]) \cap Plane(w, h)
  <2>1. /\ size \in Nat \X Nat
        /\ cur[j] \in Int \X Int
        /\ cur[j][1] >= c.x /\ cur[j][1] + c.size <= c.x + size[1]
        /\ cur[j][2] >= c.y /\ cur[j][2] + 2 * c.size <= c.y + size[2]
    BY <1>2, CellsFit
  <2> HIDE DEF size, cur
  <2>2. PICK a \in Int, b \in Int, m \in Int, n \in Int :
          a = cur[j][1] /\ b = cur[j][2] /\ m = size[1] /\ n = size[2]
    BY <2>1
  <2>3. c.x \in Int /\ c.y \in Int /\ c.size \in Nat BY DEF Lettered
  <2>4. a >= c.x /\ a + c.size <= c.x + m /\ b >= c.y /\ b + 2 * c.size <= c.y + n
    BY <2>1, <2>2, Zenon
  <2>5. /\ a .. a + c.size - 1 \subseteq c.x .. c.x + m - 1
        /\ b .. b + 2 * c.size - 1 \subseteq c.y .. c.y + n - 1
    <3>1. PICK x \in Int, y \in Int, g \in Int : x = c.x /\ y = c.y /\ g = c.size BY <2>3
    <3>2. a >= x /\ a + g <= x + m /\ b >= y /\ b + 2 * g <= y + n BY <2>4, <3>1, Zenon
    <3>3. /\ a .. a + g - 1 \subseteq x .. x + m - 1
          /\ b .. b + 2 * g - 1 \subseteq y .. y + n - 1
      BY <3>2
    <3> QED BY <3>1, <3>3, Zenon
  <2>6. Cell(j) = ((a .. a + c.size - 1) \cap 0 .. w - 1) \X ((b .. b + 2 * c.size - 1) \cap 0 .. h - 1)
    BY <2>2, Zenon DEF Clip
  <2>7. Box(c.x, c.x + m, c.y, c.y + n) \cap Plane(w, h)
          = ((c.x .. c.x + m - 1) \cap 0 .. w - 1) \X ((c.y .. c.y + n - 1) \cap 0 .. h - 1)
    <3>1. PICK x \in Int, y \in Int : x = c.x /\ y = c.y BY <2>3
    <3>2. /\ Box(x, x + m, y, y + n) = (x .. x + m - 1) \X (y .. y + n - 1)
          /\ Plane(w, h) = (0 .. w - 1) \X (0 .. h - 1)
      BY DEF Box, Plane
    <3>3. \A A, B, C, D : (A \X B) \cap (C \X D) = (A \cap C) \X (B \cap D) OBVIOUS
    <3> QED BY <3>1, <3>2, <3>3, Zenon
  <2> HIDE DEF Cell
  <2> DEFINE A == a .. a + c.size - 1
             B == b .. b + 2 * c.size - 1
             C == c.x .. c.x + m - 1
             D == c.y .. c.y + n - 1
             I == 0 .. w - 1
             J == 0 .. h - 1
  <2>8. A \subseteq C /\ B \subseteq D BY <2>5
  <2>9. Cell(j) = (A \cap I) \X (B \cap J) BY <2>6
  <2>10. Box(c.x, c.x + m, c.y, c.y + n) \cap Plane(w, h) = (C \cap I) \X (D \cap J) BY <2>7
  <2> HIDE DEF A, B, C, D, I, J
  <2>11. Cell(j) \subseteq Box(c.x, c.x + m, c.y, c.y + n) \cap Plane(w, h)
    BY <2>8, <2>9, <2>10
  <2> QED BY <2>2, <2>11, Zenon
<1> HIDE DEF Cell, Printed, size
<1> QED BY <1>1, <1>3, <1>4

(* Scaling a glyph to any cell reads within the glyph's table: the         *)
(* fractions are below 19 and 39 (image_drawing.c:1201-1236).              *)
LEMMA GlyphInside ==
  ASSUME NEW f \in Nat, f > 0
  PROVE  resize_bilinear_c1(f) \subseteq 0 .. GlyphWidth * GlyphHeight - 1
<1>1. ASSUME NEW i \in 0 .. 2 * f - 1, NEW j \in 0 .. f - 1,
             NEW x, NEW y, x = (19 * j) \div f, y = (39 * i) \div (2 * f)
      PROVE  x \in 0 .. 18 /\ y \in 0 .. 38
  <2>1. ASSUME NEW a \in Nat, NEW b \in Nat, b > 0, NEW k \in Nat, a < k * b
        PROVE  a \div b \in Int /\ 0 <= a \div b /\ a \div b < k
    <3>1. PICK q \in Int : q = a \div b /\ b * q <= a /\ a < b * q + b BY <2>1, Cut
    <3>2. b * q < b * k
      <4>1. k * b = b * k OBVIOUS
      <4> QED BY <2>1, <3>1, <4>1
    <3>3. b * (-1) < b * q
      <4>1. b * (-1) = -b OBVIOUS
      <4> QED BY <2>1, <3>1, <4>1
    <3>4. q < k /\ -1 < q BY <2>1, <3>2, <3>3, Times
    <3> QED BY <3>1, <3>4
  <2>2. 19 * j \in Nat /\ 39 * i \in Nat /\ 2 * f \in Nat /\ 2 * f > 0 OBVIOUS
  <2>3. 19 * j < 19 * f /\ 39 * i < 39 * (2 * f) OBVIOUS
  <2>4. x \in Int /\ 0 <= x /\ x < 19 BY <1>1, <2>1, <2>2, <2>3
  <2>5. y \in Int /\ 0 <= y /\ y < 39 BY <1>1, <2>1, <2>2, <2>3
  <2> QED BY <2>4, <2>5
<1>2. ASSUME NEW x \in 0 .. 18, NEW y \in 0 .. 38
      PROVE  LET index == y * 20 + x
             IN {index, index + 1, index + 20, index + 20 + 1} \subseteq 0 .. 799
  OBVIOUS
<1> DEFINE X(j) == (19 * j) \div f
           Y(i) == (39 * i) \div (2 * f)
           Read(x, y) == {y * 20 + x, (y * 20 + x) + 1, (y * 20 + x) + 20, (y * 20 + x) + 20 + 1}
<1>3. \A e \in resize_bilinear_c1(f) :
        \E i \in 0 .. 2 * f - 1, j \in 0 .. f - 1 : e \in Read(X(j), Y(i))
  BY DEF resize_bilinear_c1, GlyphWidth, GlyphHeight
<1>4. ASSUME NEW i \in 0 .. 2 * f - 1, NEW j \in 0 .. f - 1
      PROVE  Read(X(j), Y(i)) \subseteq 0 .. 799
  <2>1. X(j) \in 0 .. 18 /\ Y(i) \in 0 .. 38 BY <1>1
  <2> HIDE DEF X, Y
  <2> QED BY <1>2, <2>1
<1> HIDE DEF Read, X, Y
<1>5. ASSUME NEW e \in resize_bilinear_c1(f) PROVE e \in 0 .. 799
  <2>1. PICK i \in 0 .. 2 * f - 1, j \in 0 .. f - 1 : e \in Read(X(j), Y(i)) BY <1>3, Zenon
  <2>2. Read(X(j), Y(i)) \subseteq 0 .. 799 BY <1>4
  <2> QED BY <2>1, <2>2
<1> QED BY <1>5 DEF GlyphWidth, GlyphHeight

(* The text drawn on the chroma plane is a text too.                       *)
LEMMA HalfWriting ==
  ASSUME NEW f \in Formats, NEW text \in Seq(Characters), NEW x \in Int, NEW y \in Int,
         NEW size \in Nat \ {0}, NEW c,
         c = [op |-> "text", format |-> f, text |-> text, x |-> x, y |-> y, size |-> size]
  PROVE  /\ Lettered(c) /\ c.op = "text" /\ c.format = f /\ c.size = size
         /\ Lettered(Halved(c)) /\ Halved(c).op = "text"
<1>1. Lettered(c) /\ c.op = "text" /\ c.format = f /\ c.size = size BY DEF Lettered
<1>2. /\ Halved(c).op = c.op
      /\ Halved(c).x = Half(c.x) /\ Halved(c).y = Half(c.y)
      /\ Halved(c).size = Larger(c.size \div 2, 1)
      /\ Halved(c).text = c.text
  BY DEF Halved
<1>3. Half(x) \in Int /\ Half(y) \in Int BY Halves
<1>4. Larger(size \div 2, 1) \in Nat /\ Larger(size \div 2, 1) > 0 BY DEF Larger
<1> QED BY <1>1, <1>2, <1>3, <1>4 DEF Lettered

Written(c, bytes) ==
  c.op = "text" =>
    /\ c.format \in Interleaved => Shaped(c, PixelsOf(bytes, "image"), W, H)
    /\ c.format \in SemiPlanar =>
         /\ Shaped(c, PixelsOf(bytes, "Y"), W, H)
         /\ Shaped(Halved(c), PixelsOf(bytes, "UV"), W \div 2, H \div 2)
    /\ resize_bilinear_c1(c.size) \subseteq 0 .. GlyphWidth * GlyphHeight - 1

(* What Shaped asks of texts and images.                                   *)
LEMMA TextShape ==
  ASSUME NEW c, NEW region, NEW w, NEW h
  PROVE  /\ c.op = "text" =>
              (Shaped(c, region, w, h) <=> region \subseteq IdealText(c) \cap Plane(w, h))
         /\ c.op = "image" => Shaped(c, region, w, h)
BY DEF Shaped

(* Each draw_text_* keeps within the text and the picture, on all planes.  *)
LEMMA SolidText ==
  ASSUME NEW f \in Formats, NEW text \in Seq(Characters), NEW x \in Int, NEW y \in Int,
         NEW size \in Nat \ {0}, NEW c, NEW bytes,
         c = [op |-> "text", format |-> f, text |-> text, x |-> x, y |-> y, size |-> size],
         f = "RGB888" => bytes = draw_text_c3(c, convert_color(f)),
         f = "RGBA8888" => bytes = draw_text_c4(c, convert_color(f)),
         f \in SemiPlanar => bytes = draw_text_yuv420sp(c, convert_color(f))
  PROVE  Written(c, bytes)
<1>1. /\ Lettered(c) /\ c.op = "text" /\ c.format = f /\ c.size = size
      /\ Lettered(Halved(c)) /\ Halved(c).op = "text"
  BY HalfWriting
<1> DEFINE pen == convert_color(f)
           half == Halved(c)
<1>2. 1 \in DOMAIN pen /\ 1 \in DOMAIN LumaPen(pen) /\ 1 \in DOMAIN ChromaPen(pen)
  BY Pens1
<1> HIDE DEF pen, half
<1>3. ASSUME f \in Interleaved
      PROVE  Shaped(c, PixelsOf(bytes, "image"), W, H)
  <2>1. bytes = Paint("image", Text(W, H, c), pen)
    BY <1>3, Formatted DEF draw_text_c3, draw_text_c4, pen
  <2>2. PixelsOf(bytes, "image") = Text(W, H, c) BY <1>2, <2>1, OnePlane
  <2>3. Text(W, H, c) \subseteq IdealText(c) \cap Plane(W, H) BY <1>1, Halfway, TextInside
  <2> QED BY <1>1, <2>2, <2>3, TextShape
<1>4. ASSUME f \in SemiPlanar
      PROVE  /\ Shaped(c, PixelsOf(bytes, "Y"), W, H)
             /\ Shaped(half, PixelsOf(bytes, "UV"), W \div 2, H \div 2)
  <2>1. bytes = Paint("Y", Text(W, H, c), LumaPen(pen))
                \cup Paint("UV", Text(W \div 2, H \div 2, half), ChromaPen(pen))
    BY <1>4 DEF draw_text_yuv420sp, draw_text_c1, draw_text_c2, pen, half
  <2>2. /\ PixelsOf(bytes, "Y") = Text(W, H, c)
        /\ PixelsOf(bytes, "UV") = Text(W \div 2, H \div 2, half)
    <3>1. "Y" # "UV" OBVIOUS
    <3> DEFINE S == Text(W, H, c)
               T == Text(W \div 2, H \div 2, half)
               p == LumaPen(pen)
               q == ChromaPen(pen)
    <3>2. 1 \in DOMAIN p /\ 1 \in DOMAIN q BY <1>2
    <3>3. bytes = Paint("Y", S, p) \cup Paint("UV", T, q) BY <2>1
    <3> HIDE DEF S, T, p, q
    <3>4. PixelsOf(bytes, "Y") = S BY <3>1, <3>2, <3>3, PaintedPixels
    <3>5. PixelsOf(bytes, "UV") = T BY <3>1, <3>2, <3>3, PaintedPixels
    <3> QED BY <3>4, <3>5 DEF S, T
  <2>3. Lettered(half) /\ half.op = "text" BY <1>1 DEF half
  <2>4. Text(W, H, c) \subseteq IdealText(c) \cap Plane(W, H) BY <1>1, Halfway, TextInside
  <2>5. Text(W \div 2, H \div 2, half) \subseteq IdealText(half) \cap Plane(W \div 2, H \div 2)
    BY <2>3, Halfway, TextInside
  <2> QED BY <1>1, <2>2, <2>3, <2>4, <2>5, TextShape
<1>5. resize_bilinear_c1(c.size) \subseteq 0 .. GlyphWidth * GlyphHeight - 1
  BY <1>1, GlyphInside
<1> QED BY <1>1, <1>3, <1>4, <1>5, Zenon DEF Written, half

LEMMA Texting == draw_text => Written(call', painted') /\ call'.op = "text"
<1> SUFFICES ASSUME draw_text PROVE Written(call', painted') /\ call'.op = "text" OBVIOUS
<1>1. PICK f \in Formats, text \in Texts, x \in Places, y \in Places, size \in FontSizes :
        LET c == [op |-> "text", format |-> f, text |-> text, x |-> x, y |-> y,
                  size |-> size]
            pen == convert_color(f)
        IN Call(c, CASE f = "RGB888" -> draw_text_c3(c, pen)
                     [] f = "RGBA8888" -> draw_text_c4(c, pen)
                     [] f \in SemiPlanar -> draw_text_yuv420sp(c, pen)
                     [] OTHER -> {})
  BY Zenon DEF draw_text
<1> DEFINE c == [op |-> "text", format |-> f, text |-> text, x |-> x, y |-> y,
                 size |-> size]
           pen == convert_color(f)
<1>2. /\ call' = c
      /\ painted' = CASE f = "RGB888" -> draw_text_c3(c, pen)
                       [] f = "RGBA8888" -> draw_text_c4(c, pen)
                       [] f \in SemiPlanar -> draw_text_yuv420sp(c, pen)
                       [] OTHER -> {}
  BY <1>1, Zenon DEF Call
<1>3. /\ f = "RGB888" => painted' = draw_text_c3(c, pen)
      /\ f = "RGBA8888" => painted' = draw_text_c4(c, pen)
      /\ f \in SemiPlanar => painted' = draw_text_yuv420sp(c, pen)
  <2> HIDE DEF c, pen
  <2> QED BY <1>2 DEF SemiPlanar
<1>4. /\ text \in Seq(Characters) /\ x \in Int /\ y \in Int /\ size \in Nat \ {0}
  BY PlacesAndLengths, Writing
<1>5. Written(c, painted') BY <1>3, <1>4, SolidText
<1> QED BY <1>2, <1>5

(* The calls there are, and the states between them.                       *)
Shapes == {"rectangle", "circle", "line", "obb", "frame"}

Known(c) == \/ c = Nothing
            \/ /\ "op" \in DOMAIN c
               /\ c.op \in Shapes \cup {"text", "image"}

(* Every call that is made is one of those of the model.                   *)
LEMMA Calls ==
  Next => Known(call') /\ (call'.op \notin {"text"} \/ draw_text)
<1>1. ASSUME draw_rectangle PROVE "op" \in DOMAIN call' /\ call'.op = "rectangle"
  BY <1>1 DEF draw_rectangle, Call
<1>2. ASSUME draw_circle PROVE "op" \in DOMAIN call' /\ call'.op = "circle"
  BY <1>2 DEF draw_circle, Call
<1>3. ASSUME draw_line PROVE "op" \in DOMAIN call' /\ call'.op = "line"
  BY <1>3 DEF draw_line, Call
<1>4. ASSUME draw_obb_rectangle PROVE "op" \in DOMAIN call' /\ call'.op = "obb"
  BY <1>4 DEF draw_obb_rectangle, Call
<1>5. ASSUME draw_text PROVE "op" \in DOMAIN call' /\ call'.op = "text"
  BY <1>5 DEF draw_text, Call
<1>6. ASSUME draw_image PROVE "op" \in DOMAIN call' /\ call'.op = "image"
  BY <1>6 DEF draw_image, Call
<1>7. ASSUME Frame PROVE "op" \in DOMAIN call' /\ call'.op = "frame"
  BY <1>7 DEF Frame, Call
<1>8. ASSUME NextPicture PROVE call' = Nothing /\ call'.op = "none"
  BY <1>8 DEF NextPicture, Nothing
<1> QED BY <1>1, <1>2, <1>3, <1>4, <1>5, <1>6, <1>7, <1>8 DEF Next, Known, Shapes

LEMMA WholeThen ==
  ASSUME Solid(call, painted), Written(call, painted), Known(call)
  PROVE  ShapesWhole
<1>1. \A plane : Region(plane) = PixelsOf(painted, plane) BY DEF Region, PixelsOf
<1>2. CASE call = Nothing
  <2>1. call.op = "none" BY <1>2 DEF Nothing
  <2> QED BY <1>2, <2>1 DEF ShapesWhole
<1>3. CASE call.op \in Shapes
  <2>1. call.op # "text" BY <1>3 DEF Shapes
  <2> QED BY <1>1, <1>3, <2>1, Zenon DEF ShapesWhole, Solid, Shapes
<1>4. CASE call.op = "text"
  <2>1. call.op # "obb" BY <1>4
  <2> QED BY <1>1, <1>4, <2>1, Zenon DEF ShapesWhole, Written
<1>5. CASE call.op = "image" /\ "op" \in DOMAIN call
  <2>1. call.op # "obb" /\ call.op # "text" BY <1>5
  <2>2. Halved(call).op = "image" BY <1>5 DEF Halved
  <2> QED BY <1>5, <2>1, <2>2, TextShape, Zenon DEF ShapesWhole
<1> QED BY <1>2, <1>3, <1>4, <1>5 DEF Known

(* Every shape is whole, on every plane: what is painted is the shape      *)
(* asked for, clipped to the plane, whatever the coordinates, lengths,     *)
(* thickness, format and size of the picture; text stays in the box that   *)
(* get_text_drawing_size gives, and glyphs read within their table         *)
(* (image_drawing.c).  Nothing is said of images, and a frame is whole if  *)
(* the detection lies in the picture and is no thinner than the pen.       *)
THEOREM EveryShapeWhole == Spec => []ShapesWhole
<1> DEFINE Sound == Solid(call, painted) /\ Written(call, painted) /\ Known(call)
<1>1. Init => Sound BY DEF Init, Nothing, Solid, Written, Known
<1>2. Sound /\ [Next]_vars => Sound'
  <2>1. ASSUME Sound, UNCHANGED vars PROVE Sound'
    BY <2>1, Zenon DEF vars
  <2>2. ASSUME Next PROVE Sound'
    <3>1. Solid(call', painted')
      BY <2>2, Rectangles, Circles, Lines, Obbs, Frames, OtherCalls DEF Next
    <3>2. Known(call') BY <2>2, Calls
    <3>3. Written(call', painted')
      <4>1. CASE draw_text BY <4>1, Texting
      <4>2. CASE ~draw_text
        <5>1. call'.op # "text" BY <2>2, <4>2, Calls
        <5> QED BY <5>1 DEF Written
      <4> QED BY <4>1, <4>2
    <3> QED BY <3>1, <3>2, <3>3, Zenon
  <2> QED BY <2>1, <2>2
<1>3. Sound => ShapesWhole BY WholeThen
<1> HIDE DEF Sound
<1> QED BY <1>1, <1>2, <1>3, PTL DEF Spec
-----------------------------------------------------------------------------
(* Even coordinates, and blocks of chroma.                                 *)
LEMMA Evens ==
  ASSUME NEW n \in Int, n % 2 = 0
  PROVE  \E m \in Int : n = 2 * m /\ Half(n) = m /\ n \div 2 = m
<1> DEFINE m == n \div 2
<1>1. m \in Int /\ n = 2 * m OBVIOUS
<1>2. Half(n) = m BY <1>1 DEF Half
<1> QED BY <1>1, <1>2

Block(p) == <<p[1] \div 2, p[2] \div 2>>

(* A chroma plane that agrees with the luma plane, 2x2 block by block, is  *)
(* what the luma plane is halved to.                                       *)
LEMMA Blocks ==
  ASSUME NEW Y, NEW U, Y \subseteq Int \X Int, U \subseteq Int \X Int,
         \A a, b \in Int : <<a, b>> \in Y <=> <<a \div 2, b \div 2>> \in U
  PROVE  U = {<<p[1] \div 2, p[2] \div 2>> : p \in Y}
<1>1. ASSUME NEW u \in U PROVE \E p \in Y : u = <<p[1] \div 2, p[2] \div 2>>
  <2>1. PICK a \in Int, b \in Int : u = <<a, b>> OBVIOUS
  <2>2. (2 * a) \div 2 = a /\ (2 * b) \div 2 = b /\ 2 * a \in Int /\ 2 * b \in Int OBVIOUS
  <2>3. <<2 * a, 2 * b>> \in Y BY <2>1, <2>2
  <2> QED BY <2>1, <2>2, <2>3
<1>2. ASSUME NEW p \in Y PROVE <<p[1] \div 2, p[2] \div 2>> \in U
  <2>1. PICK a \in Int, b \in Int : p = <<a, b>> OBVIOUS
  <2> QED BY <2>1
<1> QED BY <1>1, <1>2

LEMMA Strips ==
  ASSUME NEW a \in Int, NEW lo \in Int, NEW hi \in Int
  PROVE  a \div 2 \in lo .. hi - 1 <=> a \in 2 * lo .. 2 * hi - 1
OBVIOUS

(* A filled rectangle, or a frame as thick as a multiple of four.          *)
LEMMA RectangleFollows ==
  ASSUME NEW f \in Formats, NEW x \in Int, NEW y \in Int, NEW w \in Nat,
         NEW h \in Nat, NEW t \in {-1} \cup (Nat \ {0}), NEW c,
         c = [op |-> "rectangle", format |-> f, x |-> x, y |-> y, w |-> w,
              h |-> h, t |-> t],
         x % 2 = 0, y % 2 = 0, w % 2 = 0, h % 2 = 0, t = -1 \/ t % 4 = 0
  PROVE  Rectangle(W \div 2, H \div 2, Halved(c))
         = {<<p[1] \div 2, p[2] \div 2>> : p \in Rectangle(W, H, c)}
<1> DEFINE half == Halved(c)
           Y == IdealRectangle(c) \cap Plane(W, H)
           U == IdealRectangle(half) \cap Plane(W \div 2, H \div 2)
<1>1. Boxed(c) /\ Boxed(half) BY HalfBox
<1>2. Rectangle(W, H, c) = Y /\ Rectangle(W \div 2, H \div 2, half) = U
  BY <1>1, Halfway, RectangleWhole
<1>3. /\ half.x = Half(x) /\ half.y = Half(y) /\ half.w = Half(w) /\ half.h = Half(h)
      /\ half.t = Thinner(t)
  BY DEF Halved
<1>4. PICK u \in Int, v \in Int, m \in Int, n \in Int, g \in Int, k \in Int :
        /\ x = 2 * u /\ Half(x) = u /\ y = 2 * v /\ Half(y) = v
        /\ w = 2 * m /\ Half(w) = m /\ h = 2 * n /\ Half(h) = n
        /\ W = 2 * g /\ W \div 2 = g /\ H = 2 * k /\ H \div 2 = k
  <2>1. W \in Int /\ W % 2 = 0 /\ H \in Int /\ H % 2 = 0 /\ w \in Int /\ h \in Int
    BY EvenPicture
  <2>2. PICK u \in Int : x = 2 * u /\ Half(x) = u BY Evens
  <2>3. PICK v \in Int : y = 2 * v /\ Half(y) = v BY Evens
  <2>4. PICK m \in Int : w = 2 * m /\ Half(w) = m BY <2>1, Evens
  <2>5. PICK n \in Int : h = 2 * n /\ Half(h) = n BY <2>1, Evens
  <2>6. PICK g \in Int : W = 2 * g /\ W \div 2 = g BY <2>1, Evens
  <2>7. PICK k \in Int : H = 2 * k /\ H \div 2 = k BY <2>1, Evens
  <2> QED BY <2>2, <2>3, <2>4, <2>5, <2>6, <2>7
<1>5. /\ half.x = u /\ half.y = v /\ half.w = m /\ half.h = n
      /\ c.x = 2 * u /\ c.y = 2 * v /\ c.w = 2 * m /\ c.h = 2 * n /\ c.t = t
  BY <1>3, <1>4
<1>6. Plane(W, H) = (0 .. 2 * g - 1) \X (0 .. 2 * k - 1)
      /\ Plane(W \div 2, H \div 2) = (0 .. g - 1) \X (0 .. k - 1)
  BY <1>4 DEF Plane
<1>7. Y \subseteq Int \X Int /\ U \subseteq Int \X Int
  BY <1>6
<1> HIDE DEF half
<1>8. \A a, b \in Int : <<a, b>> \in Y <=> <<a \div 2, b \div 2>> \in U
  <2> SUFFICES ASSUME NEW a \in Int, NEW b \in Int
               PROVE  <<a, b>> \in Y <=> <<a \div 2, b \div 2>> \in U
    OBVIOUS
  <2> PICK i \in Int, j \in Int : i = a \div 2 /\ j = b \div 2 OBVIOUS
  <2>1. /\ \A lo, hi \in Int : i \in lo .. hi - 1 <=> a \in 2 * lo .. 2 * hi - 1
        /\ \A lo, hi \in Int : j \in lo .. hi - 1 <=> b \in 2 * lo .. 2 * hi - 1
    BY Strips
  <2>2. /\ <<a, b>> \in Plane(W, H) <=> a \in 0 .. 2 * g - 1 /\ b \in 0 .. 2 * k - 1
        /\ <<i, j>> \in Plane(W \div 2, H \div 2) <=> i \in 0 .. g - 1 /\ j \in 0 .. k - 1
    BY <1>6
  <2>3. <<a, b>> \in Plane(W, H) <=> <<i, j>> \in Plane(W \div 2, H \div 2)
    <3>1. 0 = 2 * 0 OBVIOUS
    <3> QED BY <2>1, <2>2, <3>1
  <2>4. <<a, b>> \in IdealRectangle(c) <=> <<i, j>> \in IdealRectangle(half)
    <3>1. CASE t = -1
      <4>1. half.t = -1 /\ c.t = -1 BY <1>3, <1>5, <3>1 DEF Thinner
      <4>2. <<a, b>> \in IdealRectangle(c)
              <=> a \in 2 * u .. 2 * (u + m) - 1 /\ b \in 2 * v .. 2 * (v + n) - 1
        BY <1>5, <4>1 DEF IdealRectangle, Box
      <4>3. <<i, j>> \in IdealRectangle(half)
              <=> i \in u .. (u + m) - 1 /\ j \in v .. (v + n) - 1
        BY <1>5, <4>1 DEF IdealRectangle, Box
      <4> QED BY <2>1, <4>2, <4>3
    <3>2. CASE t # -1
      <4>1. PICK q \in Int : t = 4 * q /\ q >= 1
        <5>1. t % 4 = 0 /\ t \in Int /\ t > 0 BY <3>2
        <5>2. t = 4 * (t \div 4) /\ t \div 4 \in Int BY <5>1
        <5> QED BY <5>1, <5>2
      <4>2. half.t = 2 * q /\ c.t = 4 * q BY <1>3, <1>5, <3>2, <4>1 DEF Thinner, Larger
      <4>3. /\ (4 * q) \div 2 = 2 * q /\ 4 * q - 2 * q = 2 * q
            /\ (2 * q) \div 2 = q /\ 2 * q - q = q /\ 4 * q # -1 /\ 2 * q # -1
        BY <4>1
      <4>4. <<a, b>> \in IdealRectangle(c)
              <=> /\ a \in 2 * (u - q) .. 2 * (u + m + q) - 1
                  /\ b \in 2 * (v - q) .. 2 * (v + n + q) - 1
                  /\ ~ (/\ a \in 2 * (u + q) .. 2 * (u + m - q) - 1
                        /\ b \in 2 * (v + q) .. 2 * (v + n - q) - 1)
        <5>1. IdealRectangle(c)
                = Box(2 * u - 2 * q, 2 * u + 2 * m + 2 * q, 2 * v - 2 * q, 2 * v + 2 * n + 2 * q)
                  \ Box(2 * u + 2 * q, 2 * u + 2 * m - 2 * q, 2 * v + 2 * q, 2 * v + 2 * n - 2 * q)
          BY <1>5, <4>2, <4>3 DEF IdealRectangle
        <5> QED BY <5>1 DEF Box
      <4>5. <<i, j>> \in IdealRectangle(half)
              <=> /\ i \in (u - q) .. (u + m + q) - 1
                  /\ j \in (v - q) .. (v + n + q) - 1
                  /\ ~ (/\ i \in (u + q) .. (u + m - q) - 1
                        /\ j \in (v + q) .. (v + n - q) - 1)
        <5>1. IdealRectangle(half)
                = Box(u - q, u + m + q, v - q, v + n + q)
                  \ Box(u + q, u + m - q, v + q, v + n - q)
          BY <1>5, <4>2, <4>3 DEF IdealRectangle
        <5> QED BY <5>1 DEF Box
      <4> QED BY <2>1, <4>4, <4>5
    <3> QED BY <3>1, <3>2
  <2> QED BY <2>3, <2>4
<1> HIDE DEF Y, U
<1>9. U = {<<p[1] \div 2, p[2] \div 2>> : p \in Y} BY <1>7, <1>8, Blocks
<1> QED BY <1>2, <1>9 DEF half

(* A text of even size at an even place: the cursors of the half-size      *)
(* text are half way.                                                      *)
LEMMA CursorsFollow ==
  ASSUME NEW c, NEW d, Lettered(c), Lettered(d), c.text = d.text,
         c.x = 2 * d.x, c.y = 2 * d.y, c.size = 2 * d.size,
         NEW i \in 1 .. Len(c.text)
  PROVE  /\ Cursors(d)[i] \in Int \X Int
         /\ Cursors(c)[i] = <<2 * Cursors(d)[i][1], 2 * Cursors(d)[i][2]>>
<1> DEFINE n == Len(c.text)
           C(j) == Cursors(c)[j]
           D(j) == Cursors(d)[j]
           P(j) == D(j) \in Int \X Int /\ C(j) = <<2 * D(j)[1], 2 * D(j)[2]>>
           S == {j \in Nat : j + 1 \in 1 .. n + 1 => P(j + 1)}
<1>1. n \in Nat /\ n = Len(d.text) BY DEF Lettered
<1>2. /\ C(1) = <<c.x, c.y>>
      /\ \A j \in 1 .. n :
              /\ c.text[j] = "newline" => C(j + 1) = <<c.x, C(j)[2] + 2 * c.size>>
              /\ c.text[j] = "print" => C(j + 1) = <<C(j)[1] + c.size, C(j)[2]>>
              /\ c.text[j] \notin {"newline", "print"} => C(j + 1) = C(j)
  BY CursorSteps
<1>3. /\ D(1) = <<d.x, d.y>>
      /\ \A j \in 1 .. n :
              /\ c.text[j] = "newline" => D(j + 1) = <<d.x, D(j)[2] + 2 * d.size>>
              /\ c.text[j] = "print" => D(j + 1) = <<D(j)[1] + d.size, D(j)[2]>>
              /\ c.text[j] \notin {"newline", "print"} => D(j + 1) = D(j)
  BY <1>1, CursorSteps
<1> HIDE DEF n, C, D
<1> PICK x \in Int, y \in Int, g \in Int : x = d.x /\ y = d.y /\ g = d.size BY DEF Lettered
<1>x. ASSUME NEW k, NEW u \in Int, NEW v \in Int, D(k) = <<u, v>>, C(k) = <<2 * u, 2 * v>>
      PROVE  P(k)
  BY <1>x
<1>4. 0 \in S
  <2>1. P(1) BY <1>2, <1>3
  <2> HIDE DEF P
  <2> QED BY <2>1
<1>5. \A j \in Nat : j \in S => j + 1 \in S
  <2> HIDE DEF P
  <2> SUFFICES ASSUME NEW j \in Nat, j + 1 \in 1 .. n + 1 => P(j + 1), (j + 1) + 1 \in 1 .. n + 1
               PROVE  P((j + 1) + 1)
    OBVIOUS
  <2>1. j + 1 \in 1 .. n + 1 /\ j + 1 \in 1 .. n BY <1>1
  <2>2. D(j + 1) \in Int \X Int /\ C(j + 1) = <<2 * D(j + 1)[1], 2 * D(j + 1)[2]>>
    BY <2>1 DEF P
  <2>3. PICK a \in Int, b \in Int : D(j + 1) = <<a, b>> BY <2>2
  <2>4. C(j + 1) = <<2 * a, 2 * b>> BY <2>2, <2>3
  <2>8. /\ D(j + 1)[1] = a /\ D(j + 1)[2] = b /\ C(j + 1)[1] = 2 * a /\ C(j + 1)[2] = 2 * b
    <3>1. ASSUME NEW u, NEW v, NEW p, p = <<u, v>> PROVE p[1] = u /\ p[2] = v BY <3>1
    <3>2. D(j + 1)[1] = a /\ D(j + 1)[2] = b BY <2>3, <3>1
    <3> DEFINE a2 == 2 * a
               b2 == 2 * b
    <3> HIDE DEF a2, b2
    <3>3. C(j + 1) = <<a2, b2>> BY <2>4 DEF a2, b2
    <3>4. C(j + 1)[1] = a2 /\ C(j + 1)[2] = b2 BY <3>1, <3>3
    <3> QED BY <3>2, <3>4 DEF a2, b2
  <2>9. c.x = 2 * x /\ c.size = 2 * g OBVIOUS
  <2>5. CASE c.text[j + 1] = "newline"
    <3>1. D((j + 1) + 1) = <<x, b + 2 * g>> BY <1>3, <2>1, <2>3, <2>5
    <3>2. C((j + 1) + 1) = <<2 * x, 2 * b + 2 * (2 * g)>> BY <1>2, <2>1, <2>4, <2>8, <2>9, <2>5, Zenon
    <3>3. 2 * b + 2 * (2 * g) = 2 * (b + 2 * g) OBVIOUS
    <3> QED BY <1>x, <3>1, <3>2, <3>3
  <2>6. CASE c.text[j + 1] = "print"
    <3>1. D((j + 1) + 1) = <<a + g, b>> BY <1>3, <2>1, <2>3, <2>6
    <3>2. C((j + 1) + 1) = <<2 * a + 2 * g, 2 * b>> BY <1>2, <2>1, <2>4, <2>8, <2>9, <2>6, Zenon
    <3>3. 2 * a + 2 * g = 2 * (a + g) OBVIOUS
    <3> QED BY <1>x, <3>1, <3>2, <3>3
  <2>7. CASE c.text[j + 1] \notin {"newline", "print"}
    <3>1. D((j + 1) + 1) = <<a, b>> BY <1>3, <2>1, <2>3, <2>7
    <3>2. C((j + 1) + 1) = <<2 * a, 2 * b>> BY <1>2, <2>1, <2>4, <2>7, Zenon
    <3> QED BY <1>x, <3>1, <3>2
  <2> QED BY <2>5, <2>6, <2>7
<1>6. P(i)
  <2>1. Nat \subseteq S
    <3> HIDE DEF S
    <3> QED BY <1>4, <1>5, Induction
  <2>2. i \in 1 .. n BY DEF n
  <2>3. i - 1 \in Nat /\ (i - 1) + 1 = i /\ i \in 1 .. n + 1 BY <1>1, <2>2
  <2>4. i - 1 \in S BY <2>1, <2>3
  <2> HIDE DEF P
  <2> QED BY <2>3, <2>4
<1> QED BY <1>6 DEF C, D

(* A letter on the chroma plane is half the letter on the luma plane.      *)
LEMMA CellFollows ==
  ASSUME NEW a \in Int, NEW b \in Int, NEW u \in Int, NEW v \in Int,
         NEW g \in Int, NEW w \in Int, NEW h \in Int
  PROVE  <<a, b>> \in Clip(2 * w, 2 * h, 2 * u .. 2 * u + 2 * g - 1,
                           2 * v .. 2 * v + 2 * (2 * g) - 1)
         <=> <<a \div 2, b \div 2>> \in Clip(w, h, u .. u + g - 1, v .. v + 2 * g - 1)
<1> PICK i \in Int, j \in Int : i = a \div 2 /\ j = b \div 2 OBVIOUS
<1>1. /\ \A lo, hi \in Int : i \in lo .. hi - 1 <=> a \in 2 * lo .. 2 * hi - 1
      /\ \A lo, hi \in Int : j \in lo .. hi - 1 <=> b \in 2 * lo .. 2 * hi - 1
  BY Strips
<1>2. /\ 2 * u + 2 * g = 2 * (u + g) /\ 2 * v + 2 * (2 * g) = 2 * (v + 2 * g)
      /\ 2 * 0 = 0 /\ u + g \in Int /\ v + 2 * g \in Int
  OBVIOUS
<1>3. /\ i \in 0 .. w - 1 <=> a \in 0 .. 2 * w - 1
      /\ j \in 0 .. h - 1 <=> b \in 0 .. 2 * h - 1
      /\ i \in u .. u + g - 1 <=> a \in 2 * u .. 2 * u + 2 * g - 1
      /\ j \in v .. v + 2 * g - 1 <=> b \in 2 * v .. 2 * v + 2 * (2 * g) - 1
  BY <1>1, <1>2
<1> QED BY <1>3 DEF Clip

(* On even places and sizes the chroma of a text lies under its luma       *)
(* (image_drawing.c, draw_text_yuv420sp).                                  *)
LEMMA TextFollows ==
  ASSUME NEW f \in Formats, NEW text \in Seq(Characters), NEW x \in Int, NEW y \in Int,
         NEW size \in Nat \ {0}, NEW c,
         c = [op |-> "text", format |-> f, text |-> text, x |-> x, y |-> y, size |-> size],
         x % 2 = 0, y % 2 = 0, size % 2 = 0
  PROVE  Text(W \div 2, H \div 2, Halved(c))
         = {<<p[1] \div 2, p[2] \div 2>> : p \in Text(W, H, c)}
<1> DEFINE d == Halved(c)
           Y == Text(W, H, c)
           U == Text(W \div 2, H \div 2, d)
<1>1. Lettered(c) /\ Lettered(d) BY HalfWriting
<1>2. PICK u \in Int, v \in Int, g \in Int, m \in Int, n \in Int :
        /\ x = 2 * u /\ Half(x) = u /\ y = 2 * v /\ Half(y) = v
        /\ size = 2 * g /\ size \div 2 = g
        /\ W = 2 * m /\ W \div 2 = m /\ H = 2 * n /\ H \div 2 = n
  <2>1. W \in Int /\ W % 2 = 0 /\ H \in Int /\ H % 2 = 0 /\ size \in Int
    BY EvenPicture
  <2>2. PICK u \in Int : x = 2 * u /\ Half(x) = u BY Evens
  <2>3. PICK v \in Int : y = 2 * v /\ Half(y) = v BY Evens
  <2>4. PICK g \in Int : size = 2 * g /\ size \div 2 = g BY <2>1, Evens
  <2>5. PICK m \in Int : W = 2 * m /\ W \div 2 = m BY <2>1, Evens
  <2>6. PICK n \in Int : H = 2 * n /\ H \div 2 = n BY <2>1, Evens
  <2> QED BY <2>2, <2>3, <2>4, <2>5, <2>6
<1>3. /\ d.x = u /\ d.y = v /\ d.size = g /\ d.text = text
      /\ c.x = 2 * u /\ c.y = 2 * v /\ c.size = 2 * g /\ c.text = text
  <2>1. d.x = Half(x) /\ d.y = Half(y) /\ d.size = Larger(size \div 2, 1) /\ d.text = text
    BY DEF Halved
  <2>2. g >= 1
    <3>1. size > 0 OBVIOUS
    <3> QED BY <1>2, <3>1
  <2>3. Larger(g, 1) = g BY <2>2 DEF Larger
  <2> QED BY <1>2, <2>1, <2>3
<1>4. \A j \in DOMAIN text :
        /\ Cursors(d)[j] \in Int \X Int
        /\ Cursors(c)[j] = <<2 * Cursors(d)[j][1], 2 * Cursors(d)[j][2]>>
  <2>1. DOMAIN text = 1 .. Len(c.text) BY <1>3
  <2>2. c.text = d.text /\ c.x = 2 * d.x /\ c.y = 2 * d.y /\ c.size = 2 * d.size BY <1>3
  <2> HIDE DEF d
  <2> QED BY <1>1, <2>1, <2>2, CursorsFollow
<1> DEFINE Printed == {k \in DOMAIN text : text[k] = "print"}
           Big(j) == Clip(W, H, Cursors(c)[j][1] .. Cursors(c)[j][1] + c.size - 1,
                          Cursors(c)[j][2] .. Cursors(c)[j][2] + 2 * c.size - 1)
           Small(j) == Clip(W \div 2, H \div 2,
                            Cursors(d)[j][1] .. Cursors(d)[j][1] + d.size - 1,
                            Cursors(d)[j][2] .. Cursors(d)[j][2] + 2 * d.size - 1)
<1>5. Y = UNION {Big(j) : j \in Printed}
  <2>1. c.text = text BY <1>3
  <2> QED BY <2>1, Zenon DEF Text
<1>6. U = UNION {Small(j) : j \in Printed}
  <2>1. d.text = text BY <1>3
  <2> HIDE DEF d
  <2> QED BY <2>1, Zenon DEF Text
<1> HIDE DEF d
<1>7. ASSUME NEW j \in Printed
      PROVE  /\ Big(j) \subseteq Int \X Int /\ Small(j) \subseteq Int \X Int
             /\ \A a, b \in Int : <<a, b>> \in Big(j) <=> <<a \div 2, b \div 2>> \in Small(j)
  <2>1. PICK p \in Int, q \in Int : Cursors(d)[j] = <<p, q>> BY <1>4
  <2>2. Cursors(c)[j] = <<2 * p, 2 * q>> BY <1>4, <2>1
  <2>3. Big(j) = Clip(2 * m, 2 * n, 2 * p .. 2 * p + 2 * g - 1, 2 * q .. 2 * q + 2 * (2 * g) - 1)
    <3> DEFINE p2 == 2 * p
               q2 == 2 * q
    <3>1. Cursors(c)[j] = <<p2, q2>> BY <2>2
    <3> HIDE DEF p2, q2
    <3>2. Cursors(c)[j][1] = p2 /\ Cursors(c)[j][2] = q2 BY <3>1
    <3> QED BY <1>2, <1>3, <3>2, Zenon DEF p2, q2
  <2>4. Small(j) = Clip(m, n, p .. p + g - 1, q .. q + 2 * g - 1)
    <3>1. Cursors(d)[j][1] = p /\ Cursors(d)[j][2] = q BY <2>1
    <3> QED BY <1>2, <1>3, <3>1, Zenon
  <2>5. \A w, h, A, B : Clip(w, h, A, B) = (A \cap 0 .. w - 1) \X (B \cap 0 .. h - 1)
    BY DEF Clip
  <2>6. /\ Clip(2 * m, 2 * n, 2 * p .. 2 * p + 2 * g - 1, 2 * q .. 2 * q + 2 * (2 * g) - 1) \subseteq Int \X Int
        /\ Clip(m, n, p .. p + g - 1, q .. q + 2 * g - 1) \subseteq Int \X Int
    BY DEF Clip
  <2> HIDE DEF Big, Small
  <2>7. Big(j) \subseteq Int \X Int /\ Small(j) \subseteq Int \X Int BY <2>3, <2>4, <2>6, Zenon
  <2>8. \A a, b \in Int : <<a, b>> \in Big(j) <=> <<a \div 2, b \div 2>> \in Small(j)
    <3> DEFINE Even == Clip(2 * m, 2 * n, 2 * p .. 2 * p + 2 * g - 1, 2 * q .. 2 * q + 2 * (2 * g) - 1)
               Halved2 == Clip(m, n, p .. p + g - 1, q .. q + 2 * g - 1)
    <3>1. \A a, b \in Int : <<a, b>> \in Even <=> <<a \div 2, b \div 2>> \in Halved2
      BY CellFollows
    <3>2. Big(j) = Even /\ Small(j) = Halved2 BY <2>3, <2>4
    <3> HIDE DEF Even, Halved2
    <3> QED BY <3>1, <3>2
  <2> QED BY <2>7, <2>8
<1> HIDE DEF Big, Small, Printed
<1>8. Y \subseteq Int \X Int /\ U \subseteq Int \X Int BY <1>5, <1>6, <1>7
<1>9. ASSUME NEW a \in Int, NEW b \in Int
      PROVE  <<a, b>> \in Y <=> <<a \div 2, b \div 2>> \in U
  <2>1. <<a, b>> \in Y <=> \E j \in Printed : <<a, b>> \in Big(j) BY <1>5
  <2>2. <<a \div 2, b \div 2>> \in U <=> \E j \in Printed : <<a \div 2, b \div 2>> \in Small(j)
    BY <1>6
  <2>3. \A j \in Printed : <<a, b>> \in Big(j) <=> <<a \div 2, b \div 2>> \in Small(j)
    BY <1>7
  <2> QED BY <2>1, <2>2, <2>3, Zenon
<1> HIDE DEF Y, U
<1>10. U = {<<p[1] \div 2, p[2] \div 2>> : p \in Y} BY <1>8, <1>9, Blocks
<1> QED BY <1>10 DEF Y, U, d

(* What ChromaFollows says, of a call and the bytes it writes.             *)
Following(c, bytes) ==
  /\ c.op \in {"rectangle", "text"}
  /\ c.format \in SemiPlanar
  /\ AllEven(c)
  /\ c.op = "rectangle" => c.t = -1 \/ c.t % 4 = 0
  => PixelsOf(bytes, "UV") = {<<p[1] \div 2, p[2] \div 2>> : p \in PixelsOf(bytes, "Y")}

(* What is painted on two planes is found on both.                         *)
LEMMA TwoPlanes ==
  ASSUME NEW S, NEW T, NEW pen,
         NEW bytes, bytes = Paint("Y", S, LumaPen(pen)) \cup Paint("UV", T, ChromaPen(pen))
  PROVE  PixelsOf(bytes, "Y") = S /\ PixelsOf(bytes, "UV") = T
<1> DEFINE p == LumaPen(pen)
           q == ChromaPen(pen)
<1>1. 1 \in DOMAIN p /\ 1 \in DOMAIN q BY Pens1
<1>2. "Y" # "UV" OBVIOUS
<1>3. bytes = Paint("Y", S, p) \cup Paint("UV", T, q) OBVIOUS
<1> HIDE DEF p, q
<1>4. PixelsOf(bytes, "Y") = S BY <1>1, <1>2, <1>3, PaintedPixels
<1>5. PixelsOf(bytes, "UV") = T BY <1>1, <1>2, <1>3, PaintedPixels
<1> QED BY <1>4, <1>5

LEMMA RectangleChroma == draw_rectangle => Following(call', painted')
<1> SUFFICES ASSUME draw_rectangle PROVE Following(call', painted') OBVIOUS
<1>1. PICK f \in Formats, x \in Places, y \in Places, w \in Lengths,
           h \in Lengths, t \in Thicknesses :
        LET c == [op |-> "rectangle", format |-> f, x |-> x, y |-> y, w |-> w,
                  h |-> h, t |-> t]
            pen == convert_color(f)
        IN Call(c, CASE f = "RGB888" -> draw_rectangle_c3(c, pen)
                     [] f = "RGBA8888" -> draw_rectangle_c4(c, pen)
                     [] f \in SemiPlanar -> draw_rectangle_yuv420sp(c, pen)
                     [] OTHER -> {})
  BY Zenon DEF draw_rectangle
<1> DEFINE c == [op |-> "rectangle", format |-> f, x |-> x, y |-> y, w |-> w,
                 h |-> h, t |-> t]
           pen == convert_color(f)
<1>2. /\ call' = c
      /\ painted' = CASE f = "RGB888" -> draw_rectangle_c3(c, pen)
                       [] f = "RGBA8888" -> draw_rectangle_c4(c, pen)
                       [] f \in SemiPlanar -> draw_rectangle_yuv420sp(c, pen)
                       [] OTHER -> {}
  BY <1>1, Zenon DEF Call
<1>3. f \in SemiPlanar => painted' = draw_rectangle_yuv420sp(c, pen)
  <2> HIDE DEF c, pen
  <2> QED BY <1>2 DEF SemiPlanar
<1>4. /\ x \in Int /\ y \in Int /\ w \in Nat /\ h \in Nat
      /\ t \in {-1} \cup (Nat \ {0})
  BY PlacesAndLengths, Pens
<1>5. ASSUME f \in SemiPlanar, AllEven(c), t = -1 \/ t % 4 = 0
      PROVE  PixelsOf(painted', "UV") = {<<p[1] \div 2, p[2] \div 2>> : p \in PixelsOf(painted', "Y")}
  <2>1. x % 2 = 0 /\ y % 2 = 0 /\ w % 2 = 0 /\ h % 2 = 0
    <3>1. \A n \in {"x", "y", "w", "h"} : c[n] % 2 = 0 BY <1>5 DEF AllEven
    <3> QED BY <3>1
  <2>2. Rectangle(W \div 2, H \div 2, Halved(c))
         = {<<p[1] \div 2, p[2] \div 2>> : p \in Rectangle(W, H, c)}
    BY <1>4, <1>5, <2>1, RectangleFollows
  <2>3. painted' = Paint("Y", Rectangle(W, H, c), LumaPen(pen))
                \cup Paint("UV", Rectangle(W \div 2, H \div 2, Halved(c)), ChromaPen(pen))
    BY <1>3, <1>5, Zenon DEF draw_rectangle_yuv420sp, draw_rectangle_c1, draw_rectangle_c2
  <2> HIDE DEF c, pen
  <2>4. /\ PixelsOf(painted', "Y") = Rectangle(W, H, c)
        /\ PixelsOf(painted', "UV") = Rectangle(W \div 2, H \div 2, Halved(c))
    BY <2>3, TwoPlanes
  <2> QED BY <2>2, <2>4, Zenon
<1>6. c.op = "rectangle" /\ c.format = f /\ c.t = t OBVIOUS
<1> HIDE DEF c
<1> QED BY <1>2, <1>5, <1>6 DEF Following

LEMMA TextChroma == draw_text => Following(call', painted')
<1> SUFFICES ASSUME draw_text PROVE Following(call', painted') OBVIOUS
<1>1. PICK f \in Formats, text \in Texts, x \in Places, y \in Places, size \in FontSizes :
        LET c == [op |-> "text", format |-> f, text |-> text, x |-> x, y |-> y,
                  size |-> size]
            pen == convert_color(f)
        IN Call(c, CASE f = "RGB888" -> draw_text_c3(c, pen)
                     [] f = "RGBA8888" -> draw_text_c4(c, pen)
                     [] f \in SemiPlanar -> draw_text_yuv420sp(c, pen)
                     [] OTHER -> {})
  BY Zenon DEF draw_text
<1> DEFINE c == [op |-> "text", format |-> f, text |-> text, x |-> x, y |-> y,
                 size |-> size]
           pen == convert_color(f)
<1>2. /\ call' = c
      /\ painted' = CASE f = "RGB888" -> draw_text_c3(c, pen)
                       [] f = "RGBA8888" -> draw_text_c4(c, pen)
                       [] f \in SemiPlanar -> draw_text_yuv420sp(c, pen)
                       [] OTHER -> {}
  BY <1>1, Zenon DEF Call
<1>3. f \in SemiPlanar => painted' = draw_text_yuv420sp(c, pen)
  <2> HIDE DEF c, pen
  <2> QED BY <1>2 DEF SemiPlanar
<1>4. /\ text \in Seq(Characters) /\ x \in Int /\ y \in Int /\ size \in Nat \ {0}
  BY PlacesAndLengths, Writing
<1>5. ASSUME f \in SemiPlanar, AllEven(c)
      PROVE  PixelsOf(painted', "UV") = {<<p[1] \div 2, p[2] \div 2>> : p \in PixelsOf(painted', "Y")}
  <2>1. x % 2 = 0 /\ y % 2 = 0 /\ size % 2 = 0
    <3>1. \A n \in {"x", "y", "size"} : c[n] % 2 = 0 BY <1>5 DEF AllEven
    <3> QED BY <3>1
  <2>2. Text(W \div 2, H \div 2, Halved(c))
         = {<<p[1] \div 2, p[2] \div 2>> : p \in Text(W, H, c)}
    BY <1>4, <2>1, TextFollows
  <2>3. painted' = Paint("Y", Text(W, H, c), LumaPen(pen))
                \cup Paint("UV", Text(W \div 2, H \div 2, Halved(c)), ChromaPen(pen))
    BY <1>3, <1>5, Zenon DEF draw_text_yuv420sp, draw_text_c1, draw_text_c2
  <2> HIDE DEF c, pen
  <2>4. /\ PixelsOf(painted', "Y") = Text(W, H, c)
        /\ PixelsOf(painted', "UV") = Text(W \div 2, H \div 2, Halved(c))
    BY <2>3, TwoPlanes
  <2> QED BY <2>2, <2>4, Zenon
<1>6. c.op = "text" /\ c.format = f OBVIOUS
<1> HIDE DEF c
<1> QED BY <1>2, <1>5, <1>6 DEF Following

(* On the semi-planar formats, what is drawn at even places with even      *)
(* sizes colours exactly the 2x2 blocks it lights: for every rectangle,    *)
(* filled or of a thickness divisible by four, and every text              *)
(* (image_drawing.c, draw_rectangle_yuv420sp and draw_text_yuv420sp).      *)
THEOREM ChromaUnderLuma == Spec => []ChromaFollows
<1> DEFINE Follows == Following(call, painted)
<1>1. Init => Follows BY DEF Init, Nothing, Following
<1>2. Follows /\ [Next]_vars => Follows'
  <2>1. ASSUME Follows, UNCHANGED vars PROVE Follows'
    BY <2>1, Zenon DEF vars
  <2>2. ASSUME draw_circle \/ draw_line \/ draw_obb_rectangle \/ draw_image \/ Frame \/ NextPicture
        PROVE  Follows'
    <3>1. call'.op \notin {"rectangle", "text"}
      <4>1. ASSUME draw_circle PROVE call'.op = "circle" BY <4>1 DEF draw_circle, Call
      <4>2. ASSUME draw_line PROVE call'.op = "line" BY <4>2 DEF draw_line, Call
      <4>3. ASSUME draw_obb_rectangle PROVE call'.op = "obb"
        BY <4>3 DEF draw_obb_rectangle, Call
      <4>4. ASSUME draw_image PROVE call'.op = "image" BY <4>4 DEF draw_image, Call
      <4>5. ASSUME Frame PROVE call'.op = "frame" BY <4>5 DEF Frame, Call
      <4>6. ASSUME NextPicture PROVE call'.op = "none" BY <4>6 DEF NextPicture, Nothing
      <4> QED BY <2>2, <4>1, <4>2, <4>3, <4>4, <4>5, <4>6
    <3> QED BY <3>1 DEF Following
  <2> QED BY <2>1, <2>2, RectangleChroma, TextChroma DEF Next
<1>3. Follows => ChromaFollows
  <2>1. \A plane : Region(plane) = PixelsOf(painted, plane) BY DEF Region, PixelsOf
  <2> QED BY <2>1, Zenon DEF Following, ChromaFollows
<1> HIDE DEF Follows
<1> QED BY <1>1, <1>2, <1>3, PTL DEF Spec
=============================================================================
