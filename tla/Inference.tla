------------------------------ MODULE Inference ------------------------------
(***************************************************************************)
(* One call of inference_yolov8_model (yolov8.cc): the input buffer, the   *)
(* letterbox that brings a picture to the model's size                     *)
(* (image_utils.c), by RGA or by the CPU, the calls of the RKNN runtime,   *)
(* and the way back from the detector's boxes to the picture               *)
(* (postprocess.cc).  What happens between the outputs and the boxes is    *)
(* in Detections.                                                          *)
(*                                                                         *)
(* The program's callers pass pictures of the model's size; the functions  *)
(* here are written for any, and modelled so.  The pictures are RGB.       *)
(*                                                                         *)
(* Pixels carry no content: of each pixel of the input the model has the   *)
(* source pixels it is made of, and whether it was written.                *)
(***************************************************************************)
EXTENDS Integers

CONSTANTS
  Widths, Heights,  \* of the pictures
  ModelSizes,       \* of the model's input, as <<width, height>>
  Formats,          \* of the pictures
  Faults            \* the calls that may fail

Calls == {"malloc", "improcess", "rknn_inputs_set", "rknn_run",
          "rknn_outputs_get"}

ASSUME InferenceAssumption ==
  /\ Widths \subseteq Nat \ {0, 1} /\ Heights \subseteq Nat \ {0, 1}
  /\ ModelSizes \subseteq (Nat \ {0}) \X (Nat \ {0})
  /\ Formats \subseteq {"RGB888", "RGBA8888", "GRAY8"}
  /\ Faults \subseteq Calls

VARIABLES
  stage,       \* what comes next
  src,         \* the picture: width, height, format
  dst,         \* dst_img: width, height
  letter_box,  \* scale, as num / den, and x_pad and y_pad
  dst_box,     \* the part of dst that shows the picture
  filled,      \* has dst been filled with bg_color?
  drawn,       \* who has written dst_box: "nobody", "rga" or "cpu"
  held,        \* what the call has obtained and not given back
  failed       \* the call that made it return an error, or "none"

size == <<src, dst>>
vars == <<stage, src, dst, letter_box, dst_box, filled, drawn, held, failed>>

Whole == [left |-> 0, top |-> 0, right |-> dst.width - 1, bottom |-> dst.height - 1]

Pictures == [width : Widths, height : Heights, format : Formats]

Inputs == {[width |-> s[1], height |-> s[2]] : s \in ModelSizes}

Init ==
  /\ stage = "malloc"
  /\ src \in Pictures
  /\ dst \in Inputs
  /\ letter_box = [num |-> 0, den |-> 1, x_pad |-> 0, y_pad |-> 0]
  /\ dst_box = Whole
  /\ filled = FALSE
  /\ drawn = "nobody"
  /\ held = {}
  /\ failed = "none"
-----------------------------------------------------------------------------
(* Floating point.  A ratio is a float, and a product with it that should  *)
(* be whole may come out just below, and is then cut to one less, unless   *)
(* the ratio is a float exactly.  Elsewhere the errors do not matter:      *)
(* other products are 1/den or more away from whole numbers, which is more *)
(* than a float is off for sides of less than 2800 pixels.                 *)

ExactFloat(num, den) == \E k \in 0 .. 8 : (num * 2^k) % den = 0

Cut(n, d, exact) ==
  {n \div d} \cup {x \in {n \div d - 1} : ~ exact /\ n > 0 /\ n % d = 0}

(* (int)(a * ratio) and (int)(a / ratio), for ratio = (float)num / den.    *)
Times(a, num, den) == Cut(a * num, den, ExactFloat(num, den))

Over(a, num, den) == Cut(a * den, num, ExactFloat(num, den))
-----------------------------------------------------------------------------
(* The letterbox.                                                          *)

(* _scale_w < _scale_h: the picture is as wide as dst, and less high.      *)
Wide == dst.width * src.height < dst.height * src.width

(* A side is made shorter, to a multiple of k.  Mutation: longer.          *)
Multiple_Up(n, k) == ((n + k - 1) \div k) * k

Multiple(n, k) == n - (n % k)

(* Where a side of length n begins that is centred in one of length full.  *)
Centred(n, full) == Multiple((full - n) \div 2, 2)

(* get_rga_fmt knows no grey pictures.                                     *)
RgaFormat(format) == format \in {"RGB888", "RGBA8888"}

(* Mutation: only the width is compared.                                   *)
Padded_Width == dst_box.right - dst_box.left + 1 # dst.width

Padded == \/ dst_box.right - dst_box.left + 1 # dst.width
          \/ dst_box.bottom - dst_box.top + 1 # dst.height

(* Mutation: no exception for the last.                                    *)
Beside_Next(c, n) == c + 1

(* The pixel of a row or column of length n that is next to pixel c, for   *)
(* the interpolation: the one before the last for the last.                *)
Beside(c, n) == IF c = n - 1 THEN c - 1 ELSE c + 1

(* crop_and_scale_image_c: the source columns, or rows, that pixel k of a  *)
(* side of length m is taken from, when the source has n of them.          *)
Taken(k, n, m) == Times(k, n, m)

(* post_process: the source column, or row, that is reported for an edge   *)
(* at column or row x of the model's input of length m.                    *)
Clip(x, m) == IF x < 0 THEN 0 ELSE IF x > m THEN m ELSE x

Reported(x, pad, m) == Over(Clip(x - pad, m), letter_box.num, letter_box.den)
-----------------------------------------------------------------------------
(* The steps.                                                              *)

Give(call) ==
  /\ stage' = "done"
  /\ failed' = call
  /\ UNCHANGED <<size, letter_box, dst_box, filled, drawn, held>>

Malloc ==
  /\ stage = "malloc"
  /\ stage' = "letterbox"
  /\ held' = {"dst_img"}
  /\ UNCHANGED <<size, letter_box, dst_box, filled, drawn, failed>>

MallocFail == stage = "malloc" /\ "malloc" \in Faults /\ Give("malloc")

(* Where convert_image goes first.                                         *)
Converter ==
  IF src.width % 16 = 0 /\ dst.width % 16 = 0 THEN "rga" ELSE "cpu"

(* convert_image_with_letterbox, up to its call of convert_image.          *)
LetterboxWide ==
  /\ stage = "letterbox"
  /\ Wide
  /\ \E h \in Times(src.height, dst.width, src.width) :
       LET n == Multiple(h, 2)
           top == Centred(n, dst.height)
       IN  /\ dst_box' = [Whole EXCEPT !.top = top, !.bottom = top + n - 1]
           /\ letter_box' = [num |-> dst.width, den |-> src.width,
                             x_pad |-> 0, y_pad |-> top]
  /\ stage' = Converter
  /\ UNCHANGED <<size, filled, drawn, held, failed>>

(* Mutation: the padding is not halved for the way back.                   *)
LetterboxHigh_Pad ==
  /\ stage = "letterbox"
  /\ ~ Wide
  /\ \E w \in Times(src.width, dst.height, src.height) :
       LET n == Multiple(w, 4)
           left == Centred(n, dst.width)
       IN  /\ dst_box' = [Whole EXCEPT !.left = left, !.right = left + n - 1]
           /\ letter_box' = [num |-> dst.height, den |-> src.height,
                             x_pad |-> dst.width - n, y_pad |-> 0]
  /\ stage' = Converter
  /\ UNCHANGED <<size, filled, drawn, held, failed>>

LetterboxHigh ==
  /\ stage = "letterbox"
  /\ ~ Wide
  /\ \E w \in Times(src.width, dst.height, src.height) :
       LET n == Multiple(w, 4)
           left == Centred(n, dst.width)
       IN  /\ dst_box' = [Whole EXCEPT !.left = left, !.right = left + n - 1]
           /\ letter_box' = [num |-> dst.height, den |-> src.height,
                             x_pad |-> left, y_pad |-> 0]
  /\ stage' = Converter
  /\ UNCHANGED <<size, filled, drawn, held, failed>>

(* convert_image_rga.  When imfill fails memset does its work.             *)
Rga ==
  /\ stage = "rga"
  /\ RgaFormat(src.format)
  /\ filled' = (filled \/ Padded)
  /\ drawn' = "rga"
  /\ stage' = "rknn_inputs_set"
  /\ UNCHANGED <<size, letter_box, dst_box, held, failed>>

(* improcess fails, and what it has written is anyone's guess.             *)
RgaFail ==
  /\ stage = "rga"
  /\ "improcess" \in Faults \/ ~ RgaFormat(src.format)
  /\ filled' = (filled \/ Padded)
  /\ stage' = "cpu"
  /\ UNCHANGED <<size, letter_box, dst_box, drawn, held, failed>>

(* convert_image_cpu.                                                      *)
Cpu ==
  /\ stage = "cpu"
  /\ src.format = "RGB888"
  /\ filled' = (filled \/ Padded)
  /\ drawn' = "cpu"
  /\ stage' = "rknn_inputs_set"
  /\ UNCHANGED <<size, letter_box, dst_box, held, failed>>

CpuFail == stage = "cpu" /\ src.format # "RGB888" /\ Give("convert")

Succeed(call, next) ==
  /\ stage = call
  /\ stage' = next
  /\ UNCHANGED <<size, letter_box, dst_box, filled, drawn, held, failed>>

InputsSet == Succeed("rknn_inputs_set", "rknn_run")

Run == Succeed("rknn_run", "rknn_outputs_get")

(* Both return at once.                                                    *)
RknnFail ==
  /\ stage \in {"rknn_inputs_set", "rknn_run"} \cap Faults
  /\ Give(stage)

OutputsGet ==
  /\ stage = "rknn_outputs_get"
  /\ stage' = "post_process"
  /\ held' = held \cup {"outputs"}
  /\ UNCHANGED <<size, letter_box, dst_box, filled, drawn, failed>>

(* Mutation: a return in the place of the goto.                            *)
OutputsGetFail_Return ==
  /\ stage = "rknn_outputs_get"
  /\ stage \in Faults
  /\ Give("rknn_outputs_get")

OutputsGetFail ==
  /\ stage = "rknn_outputs_get"
  /\ stage \in Faults
  /\ stage' = "out"
  /\ failed' = "rknn_outputs_get"
  /\ UNCHANGED <<size, letter_box, dst_box, filled, drawn, held>>

(* The post-processing and rknn_outputs_release.                           *)
PostProcess ==
  /\ stage = "post_process"
  /\ stage' = "out"
  /\ held' = held \ {"outputs"}
  /\ UNCHANGED <<size, letter_box, dst_box, filled, drawn, failed>>

Out ==
  /\ stage = "out"
  /\ stage' = "done"
  /\ held' = held \ {"dst_img"}
  /\ UNCHANGED <<size, letter_box, dst_box, filled, drawn, failed>>

Returned == stage = "done" /\ UNCHANGED vars

Next ==
  \/ Malloc \/ MallocFail \/ LetterboxWide \/ LetterboxHigh
  \/ Rga \/ RgaFail \/ Cpu \/ CpuFail
  \/ InputsSet \/ Run \/ RknnFail \/ OutputsGet \/ OutputsGetFail
  \/ PostProcess \/ Out \/ Returned

Spec == Init /\ [][Next]_vars
-----------------------------------------------------------------------------
BoxWidth == dst_box.right - dst_box.left + 1

BoxHeight == dst_box.bottom - dst_box.top + 1

(* Type invariant.  A box may be empty.                                    *)
TypeOK ==
  /\ stage \in Calls \cup {"letterbox", "rga", "cpu", "post_process", "out", "done"}
  /\ src \in Pictures
  /\ dst \in Inputs
  /\ letter_box \in [num : Nat, den : Nat, x_pad : 0 .. dst.width, y_pad : 0 .. dst.height]
  /\ dst_box \in [left : 0 .. dst.width, right : -1 .. dst.width - 1,
                  top : 0 .. dst.height, bottom : -1 .. dst.height - 1]
  /\ BoxWidth >= 0 /\ BoxHeight >= 0
  /\ filled \in BOOLEAN
  /\ drawn \in {"nobody", "rga", "cpu"}
  /\ held \subseteq {"dst_img", "outputs"}
  /\ failed \in Calls \cup {"none", "convert"}

(* The scaling on the CPU, four pixels at a time with exceptions at the    *)
(* borders, reads pixels of the picture only, whatever the sizes and       *)
(* however the ratios are rounded.                                         *)
ReadsInside ==
  stage = "cpu" =>
    /\ \A k \in 0 .. BoxWidth - 1 : \A c \in Taken(k, src.width, BoxWidth) :
         {c, Beside(c, src.width)} \subseteq 0 .. src.width - 1
    /\ \A k \in 0 .. BoxHeight - 1 : \A c \in Taken(k, src.height, BoxHeight) :
         {c, Beside(c, src.height)} \subseteq 0 .. src.height - 1

(* The input buffer comes from malloc: when the network is run on it every *)
(* pixel has been written, as part of the picture or of the padding.       *)
Written ==
  stage \in {"rknn_inputs_set", "rknn_run"} =>
    \A x \in 0 .. dst.width - 1, y \in 0 .. dst.height - 1 :
      \/ filled
      \/ /\ drawn # "nobody"
         /\ x \in dst_box.left .. dst_box.right
         /\ y \in dst_box.top .. dst_box.bottom

(* s is reported for what c was taken from: s is in the picture, not past  *)
(* c but for the rounding, and less than four pixels of the model's input  *)
(* before it: that is what the sides lose when they are made even, of      *)
(* which letter_box does not tell.                                         *)
Near(s, c, n) ==
  /\ s \in 0 .. n - 1
  /\ s <= c + 1
  /\ (c - s - 1) * letter_box.num < 4 * letter_box.den

(* Pixels of the input lead back to where they came from: what the         *)
(* detector finds in a letterboxed picture is reported near the place      *)
(* where it is.                                                            *)
BoxesLeadBack ==
  stage = "post_process" =>
    /\ \A x \in dst_box.left .. dst_box.right :
         \A s \in Reported(x, letter_box.x_pad, dst.width),
            c \in Taken(x - dst_box.left, src.width, BoxWidth) : Near(s, c, src.width)
    /\ \A y \in dst_box.top .. dst_box.bottom :
         \A s \in Reported(y, letter_box.y_pad, dst.height),
            c \in Taken(y - dst_box.top, src.height, BoxHeight) : Near(s, c, src.height)

(* What a call leaves behind: the outputs are released whatever happens,   *)
(* and the input buffer is freed, except after the failures between malloc *)
(* and rknn_outputs_get, each of which leaks it.                           *)
LeftBehind ==
  stage = "done" =>
    held = IF failed \in {"convert", "rknn_inputs_set", "rknn_run"}
           THEN {"dst_img"} ELSE {}
=============================================================================
