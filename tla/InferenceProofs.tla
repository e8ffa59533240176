--------------------------- MODULE InferenceProofs ---------------------------
(***************************************************************************)
(* Proofs about Inference for pictures and model inputs of every size and  *)
(* every set of failing calls.  The arithmetic comes first, in lemmas      *)
(* about numbers; the invariant follows the call from step to step.        *)
(***************************************************************************)
EXTENDS Inference, TLAPS

-----------------------------------------------------------------------------
(* Arithmetic.                                                             *)

(* Division with remainder.                                                *)
LEMMA Division ==
  ASSUME NEW n \in Nat, NEW d \in Nat \ {0}
  PROVE  /\ n \div d \in Nat
         /\ n % d \in 0 .. d - 1
         /\ n = d * (n \div d) + (n % d)
  BY SMT

(* A positive factor may be cancelled.                                     *)
LEMMA Cancel ==
  ASSUME NEW a \in Int, NEW b \in Int, NEW c \in Nat \ {0}
  PROVE  /\ a * c <= b * c => a <= b
         /\ a * c < b * c => a < b
  BY SMT

LEMMA Monotone ==
  ASSUME NEW a \in Int, NEW b \in Int, NEW c \in Nat, a <= b
  PROVE  a * c <= b * c
  BY SMT

(* A quotient that is cut, with or without the float falling short, is at  *)
(* most the quotient and at least the quotient less one.                   *)
LEMMA CutBounds ==
  ASSUME NEW n \in Nat, NEW d \in Nat \ {0}, NEW exact \in BOOLEAN,
         NEW c \in Cut(n, d, exact)
  PROVE  c \in Nat /\ c * d <= n /\ n <= (c + 1) * d
<1> DEFINE q == n \div d
<1>1. q \in Nat /\ n % d \in 0 .. d - 1 /\ n = d * q + (n % d)
  BY Division
<1>2. d * q <= n /\ n < d * q + d
  BY <1>1, SMT
<1>3. CASE c = q
  <2>1. (q + 1) * d = d * q + d /\ q * d = d * q
    BY <1>1, SMT
  <2> QED BY <1>1, <1>2, <1>3, <2>1, SMT
<1>4. CASE c = q - 1 /\ n > 0 /\ n % d = 0
  <2>1. n = d * q
    BY <1>1, <1>4, SMT
  <2>2. q > 0
    BY <1>1, <1>4, <2>1, SMT
  <2>3. (c + 1) * d = d * q /\ c * d = d * q - d
    BY <1>1, <1>4, SMT
  <2> QED BY <1>1, <1>4, <2>1, <2>2, <2>3, SMT
<1> HIDE DEF q
<1>5. c = q \/ (c = q - 1 /\ n > 0 /\ n % d = 0)
  BY DEF Cut, q
<1> QED BY <1>3, <1>4, <1>5

LEMMA ExactBoolean ==
  ASSUME NEW num, NEW den
  PROVE  ExactFloat(num, den) \in BOOLEAN
  BY DEF ExactFloat

LEMMA TimesBounds ==
  ASSUME NEW a \in Nat, NEW num \in Nat, NEW den \in Nat \ {0},
         NEW c \in Times(a, num, den)
  PROVE  c \in Nat /\ c * den <= a * num /\ a * num <= (c + 1) * den
<1>1. a * num \in Nat
  BY SMT
<1> QED BY <1>1, CutBounds, ExactBoolean DEF Times

LEMMA OverBounds ==
  ASSUME NEW a \in Nat, NEW num \in Nat \ {0}, NEW den \in Nat,
         NEW s \in Over(a, num, den)
  PROVE  s \in Nat /\ s * num <= a * den /\ a * den <= (s + 1) * num
<1>1. a * den \in Nat
  BY SMT
<1> QED BY <1>1, CutBounds, ExactBoolean DEF Over

(* Scaling stays inside: pixel k of m is taken from below n.               *)
LEMMA TakenInside ==
  ASSUME NEW n \in Nat \ {0, 1}, NEW m \in Nat, NEW k \in 0 .. m - 1,
         NEW c \in Taken(k, n, m)
  PROVE  {c, Beside(c, n)} \subseteq 0 .. n - 1
<1>1. m \in Nat \ {0} /\ k \in Nat
  BY SMT
<1>2. c \in Nat /\ c * m <= k * n
  BY <1>1, TimesBounds DEF Taken
<1>3. k * n < n * m
  <2>1. k * n < m * n
    BY <1>1, SMT
  <2> QED BY <2>1, SMT
<1>4. c * m < n * m
  BY <1>1, <1>2, <1>3, SMT
<1>5. c < n
  BY <1>1, <1>2, <1>4, Cancel
<1> QED BY <1>2, <1>5, SMT DEF Beside

(* A side of m pixels of the model's input shows n pixels of the picture,  *)
(* at a scale of num / den but for at most four pixels of the input.       *)
Fit(m, n, num, den) == m * den <= n * num /\ n * num <= (m + 4) * den

(* BoxesLeadBack, for one row or column: k of m is taken from c and        *)
(* reported as s.                                                          *)
LEMMA NearLemma ==
  ASSUME NEW n \in Nat \ {0}, NEW m \in Nat, NEW num \in Nat \ {0}, NEW den \in Nat \ {0},
         Fit(m, n, num, den),
         NEW k \in 0 .. m - 1, NEW c \in Times(k, n, m), NEW s \in Over(k, num, den)
  PROVE  s \in 0 .. n - 1 /\ s <= c + 1 /\ (c - s - 1) * num < 4 * den
<1>1. m \in Nat \ {0} /\ k \in Nat
  BY SMT
<1>2. c \in Nat /\ c * m <= k * n /\ k * n <= (c + 1) * m
  BY <1>1, TimesBounds
<1>3. s \in Nat /\ s * num <= k * den /\ k * den <= (s + 1) * num
  BY <1>1, OverBounds
<1>4. m * den <= n * num /\ n * num <= (m + 4) * den
  BY DEF Fit
<1>5. k * den < m * den
  BY <1>1, SMT
<1>6. s < n
  <2>1. s * num < n * num
    BY <1>1, <1>3, <1>4, <1>5, SMT
  <2> QED BY <1>3, <2>1, Cancel
<1>7. (k * n) * num = k * (n * num) /\ (k * den) * m = k * (m * den)
  BY <1>1, SMT
<1>8. s <= c + 1
  <2>1. (s * num) * m <= (k * den) * m
    BY <1>1, <1>3, Monotone
  <2>2. k * (m * den) <= k * (n * num)
    BY <1>1, <1>4, SMT
  <2>3. (k * n) * num <= ((c + 1) * m) * num
    <3>1. k * n \in Int /\ (c + 1) * m \in Int
      BY <1>1, <1>2, SMT
    <3> QED BY <1>2, <3>1, Monotone
  <2>4. (s * num) * m = s * (num * m) /\ ((c + 1) * m) * num = (c + 1) * (num * m)
    BY <1>1, <1>2, <1>3, SMT
  <2>5. s * (num * m) <= (c + 1) * (num * m)
    BY <1>1, <1>2, <1>3, <1>7, <2>1, <2>2, <2>3, <2>4, SMT
  <2>6. num * m \in Nat \ {0}
    BY <1>1, SMT
  <2> QED BY <1>2, <1>3, <2>5, <2>6, Cancel
<1>9. c * num < (k + 4) * den
  <2>1. (c * m) * num <= (k * n) * num
    <3>1. c * m \in Int /\ k * n \in Int
      BY <1>1, <1>2, SMT
    <3> QED BY <1>2, <3>1, Monotone
  <2>2. k * (n * num) <= k * ((m + 4) * den)
    BY <1>1, <1>4, SMT
  <2>3. k * ((m + 4) * den) = (k * m) * den + 4 * (k * den)
    BY <1>1, SMT
  <2>4. 4 * (k * den) < 4 * (m * den)
    BY <1>1, <1>5, SMT
  <2>5. ((k + 4) * den) * m = (k * m) * den + 4 * (m * den)
    BY <1>1, SMT
  <2>6. (c * m) * num = (c * num) * m
    BY <1>1, <1>2, SMT
  <2>7. (c * num) * m < ((k + 4) * den) * m
    BY <1>1, <1>2, <1>7, <2>1, <2>2, <2>3, <2>4, <2>5, <2>6, SMT
  <2>8. c * num \in Int /\ (k + 4) * den \in Int
    BY <1>1, <1>2, SMT
  <2> QED BY <1>1, <2>7, <2>8, Cancel
<1>10. (c - s - 1) * num < 4 * den
  <2>1. (c - s - 1) * num = c * num - (s + 1) * num /\ (k + 4) * den = k * den + 4 * den
    BY <1>1, <1>2, <1>3, SMT
  <2> QED BY <1>1, <1>2, <1>3, <1>9, <2>1, SMT
<1> QED BY <1>3, <1>6, <1>8, <1>10, SMT

(* The side that is scaled and made shorter fits, and is no longer than    *)
(* the model's input.                                                      *)
LEMMA ScaledSide ==
  ASSUME NEW n \in Nat \ {0}, NEW num \in Nat \ {0}, NEW den \in Nat \ {0},
         NEW full \in Nat, num * n <= full * den,
         NEW h \in Times(n, num, den), NEW step \in {2, 4}
  PROVE  /\ Multiple(h, step) \in 0 .. full
         /\ Fit(Multiple(h, step), n, num, den)
<1> DEFINE m == Multiple(h, step)
<1>1. h \in Nat /\ h * den <= n * num /\ n * num <= (h + 1) * den
  BY TimesBounds
<1>2. m \in Nat /\ m <= h /\ h + 1 <= m + 4
  BY <1>1, SMT DEF Multiple
<1> HIDE DEF m
<1>3. m * den <= h * den /\ (h + 1) * den <= (m + 4) * den
  BY <1>1, <1>2, SMT
<1>4. m <= full
  <2>1. num * n = n * num
    BY SMT
  <2>2. m * den <= full * den
    BY <1>1, <1>2, <1>3, <2>1, SMT
  <2> QED BY <1>2, <2>2, Cancel
<1>5. m * den <= n * num /\ n * num <= (m + 4) * den
  BY <1>1, <1>2, <1>3, SMT
<1>6. m \in 0 .. full /\ Fit(m, n, num, den)
  BY <1>2, <1>4, <1>5 DEF Fit
<1> QED BY <1>6 DEF m

LEMMA WholeSide ==
  ASSUME NEW n \in Nat, NEW m \in Nat
  PROVE  Fit(m, n, m, n)
BY SMT DEF Fit

(* A centred side lies inside.                                             *)
LEMMA CentredInside ==
  ASSUME NEW full \in Nat, NEW m \in 0 .. full
  PROVE  Centred(m, full) \in 0 .. full - m
BY SMT DEF Centred, Multiple
-----------------------------------------------------------------------------
(* The inductive invariant.                                                *)

Converting == {"rga", "cpu"}

Running == {"rknn_inputs_set", "rknn_run", "rknn_outputs_get", "post_process"}

(* What the letterbox promises from then on.                               *)
Boxed ==
  stage \in Converting \cup Running =>
    /\ letter_box.num # 0 /\ letter_box.den # 0
    /\ letter_box.x_pad = dst_box.left /\ letter_box.y_pad = dst_box.top
    /\ Fit(BoxWidth, src.width, letter_box.num, letter_box.den)
    /\ Fit(BoxHeight, src.height, letter_box.num, letter_box.den)

Painted ==
  stage \in Running => drawn # "nobody" /\ (Padded => filled)

(* What is held at each stage.                                             *)
Holding ==
  /\ stage \notin {"out", "done"} => failed = "none"
  /\ stage = "out" => failed \in {"none", "rknn_outputs_get"}
  /\ stage \in {"letterbox", "out"} \cup Converting \cup (Running \ {"post_process"}) =>
       held = {"dst_img"}
  /\ stage = "malloc" => held = {}
  /\ stage = "post_process" => held = {"dst_img", "outputs"}
  /\ LeftBehind

IInv == TypeOK /\ Boxed /\ Painted /\ Holding

(* Sizes are positive.                                                     *)
LEMMA Sides ==
  ASSUME TypeOK
  PROVE  /\ src.width \in Nat \ {0, 1} /\ src.height \in Nat \ {0, 1}
         /\ dst.width \in Nat \ {0} /\ dst.height \in Nat \ {0}
<1>1. src.width \in Nat \ {0, 1} /\ src.height \in Nat \ {0, 1}
  BY InferenceAssumption DEF TypeOK, Pictures
<1>2. PICK s \in ModelSizes : dst = [width |-> s[1], height |-> s[2]]
  BY DEF TypeOK, Inputs
<1>3. s[1] \in Nat \ {0} /\ s[2] \in Nat \ {0}
  BY InferenceAssumption
<1> QED BY <1>1, <1>2, <1>3

LEMMA InitInv == Init => IInv
<1> SUFFICES ASSUME Init PROVE IInv
  OBVIOUS
<1>1. PICK s \in ModelSizes : dst = [width |-> s[1], height |-> s[2]]
  BY DEF Init, Inputs
<1>2. dst.width \in Nat \ {0} /\ dst.height \in Nat \ {0}
  BY <1>1, InferenceAssumption
<1>3. dst_box = [left |-> 0, top |-> 0, right |-> dst.width - 1, bottom |-> dst.height - 1]
  BY DEF Init, Whole
<1>4. dst_box \in [left : 0 .. dst.width, right : -1 .. dst.width - 1,
                   top : 0 .. dst.height, bottom : -1 .. dst.height - 1]
  BY <1>2, <1>3, SMT
<1>5. BoxWidth >= 0 /\ BoxHeight >= 0
  BY <1>2, <1>3, SMT DEF BoxWidth, BoxHeight
<1>6. letter_box \in [num : Nat, den : Nat, x_pad : 0 .. dst.width, y_pad : 0 .. dst.height]
  BY <1>2, SMT DEF Init
<1>7. TypeOK
  BY <1>4, <1>5, <1>6 DEF Init, TypeOK, Calls
<1>8. Boxed /\ Painted /\ Holding
  BY DEF Init, Boxed, Painted, Holding, LeftBehind, Converting, Running
<1> QED BY <1>7, <1>8 DEF IInv

(* The letterbox of pictures that are as wide as the input.                *)
LEMMA WideStep ==
  ASSUME IInv, LetterboxWide
  PROVE  IInv'
<1>1. /\ src.width \in Nat \ {0, 1} /\ src.height \in Nat \ {0, 1}
      /\ dst.width \in Nat \ {0} /\ dst.height \in Nat \ {0}
  BY Sides DEF IInv
<1>2. dst.width * src.height <= dst.height * src.width
  BY <1>1, SMT DEF LetterboxWide, Wide
<1>3. PICK h \in Times(src.height, dst.width, src.width) :
        /\ dst_box' = [Whole EXCEPT !.top = Centred(Multiple(h, 2), dst.height),
                         !.bottom = Centred(Multiple(h, 2), dst.height) + Multiple(h, 2) - 1]
        /\ letter_box' = [num |-> dst.width, den |-> src.width,
                          x_pad |-> 0, y_pad |-> Centred(Multiple(h, 2), dst.height)]
  BY DEF LetterboxWide
<1> DEFINE n == Multiple(h, 2)
           top == Centred(n, dst.height)
<1>4. n \in 0 .. dst.height /\ Fit(n, src.height, dst.width, src.width)
  BY <1>1, <1>2, ScaledSide
<1>5. top \in 0 .. dst.height - n
  BY <1>1, <1>4, CentredInside
<1>6. Fit(dst.width, src.width, dst.width, src.width)
  BY <1>1, WholeSide
<1>7. /\ dst_box' = [left |-> 0, top |-> top, right |-> dst.width - 1, bottom |-> top + n - 1]
      /\ letter_box' = [num |-> dst.width, den |-> src.width, x_pad |-> 0, y_pad |-> top]
  BY <1>3 DEF Whole
<1> HIDE DEF n, top
<1>8. src' = src /\ dst' = dst
  BY DEF LetterboxWide, size
<1>9. dst_box' \in [left : 0 .. dst.width, right : -1 .. dst.width - 1,
                    top : 0 .. dst.height, bottom : -1 .. dst.height - 1]
  BY <1>1, <1>4, <1>5, <1>7, SMT
<1>10. letter_box' \in [num : Nat, den : Nat, x_pad : 0 .. dst.width, y_pad : 0 .. dst.height]
  BY <1>1, <1>4, <1>5, <1>7, SMT
<1>11. BoxWidth' = dst.width /\ BoxHeight' = n
  BY <1>1, <1>4, <1>5, <1>7, SMT DEF BoxWidth, BoxHeight
<1>12. BoxWidth' >= 0 /\ BoxHeight' >= 0
  BY <1>1, <1>4, <1>11, SMT
<1>13. stage = "letterbox" /\ stage' \in Converting
  BY DEF LetterboxWide, Converter, Converting
<1>14. TypeOK'
  BY <1>8, <1>9, <1>10, <1>12, <1>13 DEF IInv, TypeOK, LetterboxWide, Converting
<1>15. Boxed'
  BY <1>1, <1>4, <1>6, <1>7, <1>8, <1>11 DEF Boxed
<1>16. Painted'
  BY <1>13 DEF Painted, Running, Converting
<1>17. Holding'
  BY <1>13 DEF IInv, Holding, LeftBehind, LetterboxWide, Converting, Running
<1> QED BY <1>14, <1>15, <1>16, <1>17 DEF IInv

(* The letterbox of the others.                                            *)
LEMMA HighStep ==
  ASSUME IInv, LetterboxHigh
  PROVE  IInv'
<1>1. /\ src.width \in Nat \ {0, 1} /\ src.height \in Nat \ {0, 1}
      /\ dst.width \in Nat \ {0} /\ dst.height \in Nat \ {0}
  BY Sides DEF IInv
<1>2. dst.height * src.width <= dst.width * src.height
  BY <1>1, SMT DEF LetterboxHigh, Wide
<1>3. PICK w \in Times(src.width, dst.height, src.height) :
        /\ dst_box' = [Whole EXCEPT !.left = Centred(Multiple(w, 4), dst.width),
                         !.right = Centred(Multiple(w, 4), dst.width) + Multiple(w, 4) - 1]
        /\ letter_box' = [num |-> dst.height, den |-> src.height,
                          x_pad |-> Centred(Multiple(w, 4), dst.width), y_pad |-> 0]
  BY DEF LetterboxHigh
<1> DEFINE n == Multiple(w, 4)
           left == Centred(n, dst.width)
<1>4. n \in 0 .. dst.width /\ Fit(n, src.width, dst.height, src.height)
  BY <1>1, <1>2, ScaledSide
<1>5. left \in 0 .. dst.width - n
  BY <1>1, <1>4, CentredInside
<1>6. Fit(dst.height, src.height, dst.height, src.height)
  BY <1>1, WholeSide
<1>7. /\ dst_box' = [left |-> left, top |-> 0, right |-> left + n - 1, bottom |-> dst.height - 1]
      /\ letter_box' = [num |-> dst.height, den |-> src.height, x_pad |-> left, y_pad |-> 0]
  BY <1>3 DEF Whole
<1> HIDE DEF n, left
<1>8. src' = src /\ dst' = dst
  BY DEF LetterboxHigh, size
<1>9. dst_box' \in [left : 0 .. dst.width, right : -1 .. dst.width - 1,
                    top : 0 .. dst.height, bottom : -1 .. dst.height - 1]
  BY <1>1, <1>4, <1>5, <1>7, SMT
<1>10. letter_box' \in [num : Nat, den : Nat, x_pad : 0 .. dst.width, y_pad : 0 .. dst.height]
  BY <1>1, <1>4, <1>5, <1>7, SMT
<1>11. BoxWidth' = n /\ BoxHeight' = dst.height
  BY <1>1, <1>4, <1>5, <1>7, SMT DEF BoxWidth, BoxHeight
<1>12. BoxWidth' >= 0 /\ BoxHeight' >= 0
  BY <1>1, <1>4, <1>11, SMT
<1>13. stage = "letterbox" /\ stage' \in Converting
  BY DEF LetterboxHigh, Converter, Converting
<1>14. TypeOK'
  BY <1>8, <1>9, <1>10, <1>12, <1>13 DEF IInv, TypeOK, LetterboxHigh, Converting
<1>15. Boxed'
  BY <1>1, <1>4, <1>6, <1>7, <1>8, <1>11 DEF Boxed
<1>16. Painted'
  BY <1>13 DEF Painted, Running, Converting
<1>17. Holding'
  BY <1>13 DEF IInv, Holding, LeftBehind, LetterboxHigh, Converting, Running
<1> QED BY <1>14, <1>15, <1>16, <1>17 DEF IInv

(* The steps that leave the sizes, the letterbox and the box alone.        *)
Kept == UNCHANGED <<size, letter_box, dst_box>>

LEMMA KeptBoxes ==
  ASSUME Kept
  PROVE  /\ src' = src /\ dst' = dst /\ letter_box' = letter_box /\ dst_box' = dst_box
         /\ BoxWidth' = BoxWidth /\ BoxHeight' = BoxHeight /\ (Padded' <=> Padded)
BY DEF Kept, size, BoxWidth, BoxHeight, Padded

(* Failures that return.                                                   *)
LEMMA GiveStep ==
  ASSUME IInv, NEW call \in Calls \cup {"convert"}, Give(call),
         held = IF call \in {"convert", "rknn_inputs_set", "rknn_run"}
                THEN {"dst_img"} ELSE {}
  PROVE  IInv'
<1>1. Kept
  BY DEF Give, Kept
<1>2. TypeOK'
  BY <1>1, KeptBoxes DEF IInv, TypeOK, Give
<1>3. Boxed' /\ Painted'
  BY DEF Boxed, Painted, Give, Converting, Running
<1>4. Holding'
  BY DEF Holding, LeftBehind, Give, Converting, Running
<1> QED BY <1>2, <1>3, <1>4 DEF IInv

(* Steps of the conversion, which paint.                                   *)
LEMMA ConvertStep ==
  ASSUME IInv, Rga \/ RgaFail \/ Cpu
  PROVE  IInv'
<1>1. Kept
  BY DEF Rga, RgaFail, Cpu, Kept
<1>2. stage \in Converting /\ stage' \in {"cpu", "rknn_inputs_set"}
  BY DEF Rga, RgaFail, Cpu, Converting
<1>3. filled' = (filled \/ Padded) /\ held' = held /\ failed' = failed
  BY DEF Rga, RgaFail, Cpu
<1>4. filled' \in BOOLEAN /\ drawn' \in {"nobody", "rga", "cpu"}
  BY <1>3 DEF Rga, RgaFail, Cpu, IInv, TypeOK
<1>5. TypeOK'
  BY <1>1, <1>2, <1>3, <1>4, KeptBoxes DEF IInv, TypeOK, Calls
<1>6. Boxed'
  BY <1>1, <1>2, KeptBoxes DEF IInv, Boxed
<1>7. Painted'
  <2>1. CASE RgaFail
    BY <2>1 DEF RgaFail, Painted, Running
  <2>2. CASE Rga \/ Cpu
    BY <1>1, <1>3, <2>2, KeptBoxes DEF Rga, Cpu, Painted
  <2> QED BY <2>1, <2>2
<1>8. Holding'
  BY <1>2, <1>3 DEF IInv, Holding, LeftBehind, Converting, Running
<1> QED BY <1>5, <1>6, <1>7, <1>8 DEF IInv

(* The steps before and after.                                             *)
LEMMA OtherStep ==
  ASSUME IInv, Malloc \/ InputsSet \/ Run \/ OutputsGet \/ OutputsGetFail \/ PostProcess \/ Out
  PROVE  IInv'
<1> USE DEF InputsSet, Run, Succeed
<1>1. Kept /\ filled' = filled /\ drawn' = drawn
  BY DEF Malloc, OutputsGet, OutputsGetFail, PostProcess, Out, Kept
<1>2. /\ stage' \in {"letterbox", "rknn_run", "rknn_outputs_get", "post_process", "out", "done"}
      /\ stage' \in Running => stage \in Running
      /\ stage' \notin Converting
  BY DEF Malloc, OutputsGet, OutputsGetFail, PostProcess, Out, Running, Converting
<1>3. held' \subseteq {"dst_img", "outputs"} /\ failed' \in Calls \cup {"none", "convert"}
  BY DEF Malloc, OutputsGet, OutputsGetFail, PostProcess, Out, IInv, TypeOK, Calls
<1>4. TypeOK'
  BY <1>1, <1>2, <1>3, KeptBoxes DEF IInv, TypeOK, Calls
<1>5. Boxed'
  BY <1>1, <1>2, KeptBoxes DEF IInv, Boxed
<1>6. Painted'
  BY <1>1, <1>2, KeptBoxes DEF IInv, Painted
<1>7. Holding'
  <2>1. CASE Malloc
    BY <2>1 DEF Malloc, IInv, Holding, LeftBehind, Converting, Running
  <2>2. CASE InputsSet \/ Run
    BY <2>2 DEF IInv, Holding, LeftBehind, Converting, Running
  <2>3. CASE OutputsGet
    BY <2>3 DEF OutputsGet, IInv, Holding, LeftBehind, Converting, Running
  <2>4. CASE OutputsGetFail
    BY <2>4 DEF OutputsGetFail, IInv, Holding, LeftBehind, Converting, Running
  <2>5. CASE PostProcess
    BY <2>5 DEF PostProcess, IInv, Holding, LeftBehind, Converting, Running
  <2>6. CASE Out
    BY <2>6 DEF Out, IInv, Holding, LeftBehind, Converting, Running
  <2> QED BY <2>1, <2>2, <2>3, <2>4, <2>5, <2>6
<1> QED BY <1>4, <1>5, <1>6, <1>7 DEF IInv

LEMMA NextInv == IInv /\ [Next]_vars => IInv'
<1> SUFFICES ASSUME IInv, [Next]_vars PROVE IInv'
  OBVIOUS
<1>1. CASE LetterboxWide
  BY <1>1, WideStep
<1>2. CASE LetterboxHigh
  BY <1>2, HighStep
<1>3. CASE MallocFail
  <2>1. held = {} /\ Give("malloc") /\ "malloc" \in Calls
    BY <1>3 DEF MallocFail, IInv, Holding, Calls
  <2> QED BY <2>1, GiveStep
<1>4. CASE CpuFail
  <2>1. held = {"dst_img"} /\ Give("convert")
    BY <1>4 DEF CpuFail, IInv, Holding, Converting
  <2> QED BY <2>1, GiveStep
<1>5. CASE RknnFail
  <2>1. PICK call \in {"rknn_inputs_set", "rknn_run"} : stage = call /\ Give(call)
    BY <1>5 DEF RknnFail
  <2>2. held = {"dst_img"} /\ call \in Calls
    BY <2>1 DEF IInv, Holding, Running, Calls
  <2> QED BY <2>1, <2>2, GiveStep
<1>6. CASE Rga \/ RgaFail \/ Cpu
  BY <1>6, ConvertStep
<1>7. CASE Malloc \/ InputsSet \/ Run \/ OutputsGet \/ OutputsGetFail \/ PostProcess \/ Out
  BY <1>7, OtherStep
<1>8. CASE UNCHANGED vars
  <2>1. Kept
    BY <1>8 DEF vars, Kept, size
  <2>2. TypeOK'
    BY <1>8, <2>1, KeptBoxes DEF vars, IInv, TypeOK
  <2>3. Boxed' /\ Painted'
    BY <1>8, <2>1, KeptBoxes DEF vars, IInv, Boxed, Painted
  <2>4. Holding'
    BY <1>8 DEF vars, IInv, Holding, LeftBehind
  <2> QED BY <2>2, <2>3, <2>4 DEF IInv
<1> QED BY <1>1, <1>2, <1>3, <1>4, <1>5, <1>6, <1>7, <1>8 DEF Next, Returned

(* The inductive invariant holds in every reachable state.                 *)
THEOREM InferenceInvariance == Spec => []IInv
BY InitInv, NextInv, PTL DEF Spec
-----------------------------------------------------------------------------
(* What follows.                                                           *)

(* Types; that the box lies in the model's input is the part that matters. *)
THEOREM InferenceTypeCorrect == Spec => []TypeOK
<1>1. IInv => TypeOK
  BY DEF IInv
<1> QED BY <1>1, InferenceInvariance, PTL

(* crop_and_scale_image_c reads within the picture.                        *)
THEOREM ScalingReadsInside == Spec => []ReadsInside
<1>1. IInv => ReadsInside
  <2> SUFFICES ASSUME IInv PROVE ReadsInside
    OBVIOUS
  <2>1. src.width \in Nat \ {0, 1} /\ src.height \in Nat \ {0, 1}
    BY Sides DEF IInv
  <2>2. BoxWidth \in Nat /\ BoxHeight \in Nat
    <3>1. BoxWidth \in Int /\ BoxHeight \in Int
      BY Sides, SMT DEF IInv, TypeOK, BoxWidth, BoxHeight
    <3> QED BY <3>1, SMT DEF IInv, TypeOK
  <2> QED BY <2>1, <2>2, TakenInside DEF ReadsInside
<1> QED BY <1>1, InferenceInvariance, PTL

(* The network runs on a buffer of which every pixel has been written.     *)
THEOREM NothingUnwritten == Spec => []Written
<1>1. IInv => Written
  <2> SUFFICES ASSUME IInv, stage \in {"rknn_inputs_set", "rknn_run"}, ~ filled,
                      NEW x \in 0 .. dst.width - 1, NEW y \in 0 .. dst.height - 1
               PROVE  /\ drawn # "nobody"
                      /\ x \in dst_box.left .. dst_box.right
                      /\ y \in dst_box.top .. dst_box.bottom
    BY DEF Written
  <2>1. drawn # "nobody" /\ ~ Padded
    BY DEF IInv, Painted, Running
  <2>2. /\ dst_box.left \in 0 .. dst.width /\ dst_box.right \in -1 .. dst.width - 1
        /\ dst_box.top \in 0 .. dst.height /\ dst_box.bottom \in -1 .. dst.height - 1
    BY DEF IInv, TypeOK
  <2>3. /\ dst_box.right - dst_box.left + 1 = dst.width
        /\ dst_box.bottom - dst_box.top + 1 = dst.height
    BY <2>1 DEF Padded
  <2>4. dst.width \in Nat /\ dst.height \in Nat
    BY Sides DEF IInv
  <2>5. x \in dst_box.left .. dst_box.right /\ y \in dst_box.top .. dst_box.bottom
    BY <2>2, <2>3, <2>4, SMT
  <2> QED BY <2>1, <2>5
<1> QED BY <1>1, InferenceInvariance, PTL

(* Boxes lead back to where they came from.                                *)
THEOREM LeadBack == Spec => []BoxesLeadBack
<1>1. IInv => BoxesLeadBack
  <2> SUFFICES ASSUME IInv, stage = "post_process" PROVE BoxesLeadBack
    BY DEF BoxesLeadBack
  <2> DEFINE num == letter_box.num
             den == letter_box.den
  <2>1. /\ src.width \in Nat \ {0} /\ src.height \in Nat \ {0}
        /\ dst.width \in Nat /\ dst.height \in Nat
    BY Sides DEF IInv
  <2>2. num \in Nat \ {0} /\ den \in Nat \ {0}
    BY DEF IInv, TypeOK, Boxed, Running
  <2>3. /\ letter_box.x_pad = dst_box.left /\ letter_box.y_pad = dst_box.top
        /\ Fit(BoxWidth, src.width, num, den) /\ Fit(BoxHeight, src.height, num, den)
    BY DEF IInv, Boxed, Running
  <2>4. /\ dst_box.left \in 0 .. dst.width /\ dst_box.right \in -1 .. dst.width - 1
        /\ dst_box.top \in 0 .. dst.height /\ dst_box.bottom \in -1 .. dst.height - 1
        /\ BoxWidth >= 0 /\ BoxHeight >= 0
    BY DEF IInv, TypeOK
  <2>5. BoxWidth \in Nat /\ BoxHeight \in Nat
    BY <2>1, <2>4, SMT DEF BoxWidth, BoxHeight
  <2>6. ASSUME NEW x \in dst_box.left .. dst_box.right,
               NEW s \in Reported(x, letter_box.x_pad, dst.width),
               NEW c \in Taken(x - dst_box.left, src.width, BoxWidth)
        PROVE  Near(s, c, src.width)
    <3>1. /\ x - dst_box.left \in 0 .. BoxWidth - 1
          /\ Clip(x - dst_box.left, dst.width) = x - dst_box.left
      BY <2>1, <2>4, SMT DEF BoxWidth, Clip
    <3>2. s \in Over(x - dst_box.left, num, den) /\ c \in Times(x - dst_box.left, src.width, BoxWidth)
      BY <2>3, <3>1 DEF Reported, Taken
    <3> HIDE DEF num, den
    <3>3. s \in 0 .. src.width - 1 /\ s <= c + 1 /\ (c - s - 1) * num < 4 * den
      BY <2>1, <2>2, <2>3, <2>5, <3>1, <3>2, NearLemma
    <3> QED BY <3>3 DEF Near, num, den
  <2>7. ASSUME NEW y \in dst_box.top .. dst_box.bottom,
               NEW s \in Reported(y, letter_box.y_pad, dst.height),
               NEW c \in Taken(y - dst_box.top, src.height, BoxHeight)
        PROVE  Near(s, c, src.height)
    <3>1. /\ y - dst_box.top \in 0 .. BoxHeight - 1
          /\ Clip(y - dst_box.top, dst.height) = y - dst_box.top
      BY <2>1, <2>4, SMT DEF BoxHeight, Clip
    <3>2. s \in Over(y - dst_box.top, num, den) /\ c \in Times(y - dst_box.top, src.height, BoxHeight)
      BY <2>3, <3>1 DEF Reported, Taken
    <3> HIDE DEF num, den
    <3>3. s \in 0 .. src.height - 1 /\ s <= c + 1 /\ (c - s - 1) * num < 4 * den
      BY <2>1, <2>2, <2>3, <2>5, <3>1, <3>2, NearLemma
    <3> QED BY <3>3 DEF Near, num, den
  <2> QED BY <2>6, <2>7 DEF BoxesLeadBack
<1> QED BY <1>1, InferenceInvariance, PTL

(* What each failure leaks, and that nothing else does.                    *)
THEOREM NothingElseLeaks == Spec => []LeftBehind
<1>1. IInv => LeftBehind
  BY DEF IInv, Holding
<1> QED BY <1>1, InferenceInvariance, PTL
=============================================================================
