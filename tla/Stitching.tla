----------------------------- MODULE Stitching ------------------------------
(***************************************************************************)
(* The panorama's geometry: cpu_H_fuc.cpp, and the padding that            *)
(* cpu_warp.cpp gives the stitched picture.  Three homographies carry the  *)
(* pictures of cameras 0, 2 and 3 into that of camera 1.  The canvas is    *)
(* what their corners span; each of its pixels is taken from the camera    *)
(* that sees it nearest to its own centre.                                 *)
(*                                                                         *)
(* A homography is a matrix of integers, so that places are fractions and  *)
(* what the code computes in floating point is exact here.  Corners lie    *)
(* on a grid of Q lines to the pixel (OnGrid).  A canvas pixel of the      *)
(* owner map is compared with the camera by cross-multiplication.          *)
(***************************************************************************)
EXTENDS Integers, FiniteSets, FiniteSetsExt, Sequences

CONSTANTS
  CamW, CamH,     \* size of a camera's picture, 320 by 240 in the program
  Homographies,   \* matrices by rows: <<a, b, c, d, e, f, g, h, i>>
  Q               \* grid lines to the pixel

Cameras == 0 .. 3
Nobody == 255
Identity == <<1, 0, 0, 0, 1, 0, 0, 0, 1>>

Corners == {<<0, 0>>, <<0, CamH - 1>>, <<CamW - 1, CamH - 1>>, <<CamW - 1, 0>>}

(* Where a matrix takes a point, as <<x, y, w>> for x/w and y/w.           *)
Apply(m, x, y, z) == <<m[1] * x + m[2] * y + m[3] * z,
                       m[4] * x + m[5] * y + m[6] * z,
                       m[7] * x + m[8] * y + m[9] * z>>

(* The inverse of a matrix, up to a factor that fractions do not see, and  *)
(* without a common divisor.                                               *)
Adjugate(m) ==
  <<m[5] * m[9] - m[6] * m[8], m[3] * m[8] - m[2] * m[9], m[2] * m[6] - m[3] * m[5],
    m[6] * m[7] - m[4] * m[9], m[1] * m[9] - m[3] * m[7], m[3] * m[4] - m[1] * m[6],
    m[4] * m[8] - m[5] * m[7], m[2] * m[7] - m[1] * m[8], m[1] * m[5] - m[2] * m[4]>>

Inverted(m) ==
  LET a == Adjugate(m)
      d == Max({n \in 1 .. 100 : \A k \in DOMAIN a : a[k] % n = 0})
  IN [k \in DOMAIN a |-> a[k] \div d]

(* The picture is seen from its front, and its corners fall on the grid.   *)
OnGrid(m) == \A c \in Corners : LET p == Apply(m, c[1], c[2], 1)
                                IN /\ p[3] > 0
                                   /\ (Q * p[1]) % p[3] = 0
                                   /\ (Q * p[2]) % p[3] = 0

ASSUME PictureSize == CamW \in Nat /\ CamH \in Nat /\ CamW > 4 /\ CamH > 4

ASSUME Matrices == Homographies \subseteq [1 .. 9 -> Int]

ASSUME Grid == Q \in Nat \ {0} /\ \A m \in Homographies : OnGrid(m)

VARIABLES
  stage,     \* how far the program has come
  view,      \* view[i]: the matrix of camera i
  canvas,    \* its size, and the place of its corner, in grid lines
  owner,     \* owner_map
  padded     \* the square picture: which camera each of its pixels shows

stitchVars == <<stage, view, canvas, owner, padded>>

NoCanvas == [w |-> 0, h |-> 0, xmin |-> 0, ymin |-> 0]

StitchInit ==
  /\ stage = "load"
  /\ view = [i \in Cameras |-> Identity]
  /\ canvas = NoCanvas
  /\ owner = <<>>
  /\ padded = <<>>
-----------------------------------------------------------------------------
(* One of the three files is missing or short: main returns -1.            *)
load_mat_fails ==
  /\ stage = "load"
  /\ stage' = "failed"
  /\ UNCHANGED <<view, canvas, owner, padded>>

load_mat ==
  /\ stage = "load"
  /\ stage' = "canvas"
  /\ \E H12, H32, H42 \in Homographies :
       view' = [i \in Cameras |-> <<H12, Identity, H32, H42>>[i + 1]]
  /\ UNCHANGED <<canvas, owner, padded>>

(* The corners of every picture in grid lines, coordinate k.               *)
Span(k) == {LET p == Apply(view[i], c[1], c[2], 1) IN (Q * p[k]) \div p[3] :
              i \in Cameras, c \in Corners}

(* Mutation: the size is rounded down.                                     *)
Size_Down(lo, hi) == (hi - lo + Q) \div Q

(* (int)(hi - lo + 1.5f)                                                   *)
Size(lo, hi) == (2 * (hi - lo) + 3 * Q) \div (2 * Q)

SetCanvas ==
  /\ stage = "canvas"
  /\ stage' = "remap"
  /\ LET xs == Span(1)
         ys == Span(2)
     IN canvas' = [w |-> Size(Min(xs), Max(xs)), h |-> Size(Min(ys), Max(ys)),
                   xmin |-> Min(xs), ymin |-> Min(ys)]
  /\ UNCHANGED <<view, owner, padded>>

Inverses == [i \in Cameras |-> Inverted(view[i])]

Canvas == (0 .. canvas.w - 1) \X (0 .. canvas.h - 1)

(* compute_remap: where a camera sees canvas pixel p, by the inverse of    *)
(* its matrix, as <<x, y, w>> with w not negative.  The canvas is moved by *)
(* its corner.                                                             *)
Remap(inverse, p) ==
  LET s == Apply(inverse, Q * p[1] + canvas.xmin,
                 Q * p[2] + canvas.ymin, Q)
  IN IF s[3] < 0 THEN <<-s[1], -s[2], -s[3]>> ELSE s

(* Mutation: no margin is left.                                            *)
Sees_All(s) ==
  /\ s[3] # 0
  /\ s[1] >= 0 /\ s[1] < CamW * s[3]
  /\ s[2] >= 0 /\ s[2] < CamH * s[3]

(* Two pixels at each edge are not used.  Division by zero sees nothing.   *)
Sees(s) ==
  /\ s[3] # 0
  /\ s[1] >= 2 * s[3] /\ s[1] < (CamW - 2) * s[3]
  /\ s[2] >= 2 * s[3] /\ s[2] < (CamH - 2) * s[3]

(* Four times the square of the distance from the camera's centre.         *)
Distance(s) ==
  LET dx == 2 * s[1] - CamW * s[3]
      dy == 2 * s[2] - CamH * s[3]
  IN <<dx * dx + dy * dy, s[3] * s[3]>>

Nearer(d, e) == d[1] * e[2] < e[1] * d[2]

(* The loop over the cameras, with the best distance so far.               *)
OwnerOf(inverses, p) ==
  LET best[n \in 0 .. 4] ==
        IF n = 0 THEN <<Nobody, <<1, 0>>>>
        ELSE LET s == Remap(inverses[n - 1], p)
             IN IF Sees(s) /\ Nearer(Distance(s), best[n - 1][2])
                THEN <<n - 1, Distance(s)>>
                ELSE best[n - 1]
  IN best[4][1]

SetOwners ==
  /\ stage = "remap"
  /\ stage' = "stitch"
  /\ LET inverses == Inverses
     IN owner' = [p \in Canvas |-> OwnerOf(inverses, p)]
  /\ UNCHANGED <<view, canvas, padded>>

Square == ((Max({canvas.w, canvas.h}) + 15) \div 16) * 16
OffX == (Square - canvas.w) \div 2
OffY == (Square - canvas.h) \div 2

(* stitch_four_cpu, and the copy into the middle of a black square.        *)
Stitch ==
  /\ stage = "stitch"
  /\ stage' = "shown"
  /\ padded' = [p \in (0 .. Square - 1) \X (0 .. Square - 1) |->
                  LET q == <<p[1] - OffX, p[2] - OffY>>
                  IN IF q \in Canvas THEN owner[q] ELSE Nobody]
  /\ UNCHANGED <<view, canvas, owner>>

(* The next set of frames.                                                 *)
NextRound ==
  /\ stage = "shown"
  /\ stage' = "stitch"
  /\ padded' = <<>>
  /\ UNCHANGED <<view, canvas, owner>>

StitchEnd == stage = "failed" /\ UNCHANGED stitchVars

StitchNext == load_mat_fails \/ load_mat \/ SetCanvas \/ SetOwners \/ Stitch
              \/ NextRound \/ StitchEnd

StitchSpec == StitchInit /\ [][StitchNext]_stitchVars
-----------------------------------------------------------------------------
(* Nothing that a camera may show is cut off: the place of every pixel     *)
(* within the margin of a picture, rounded to the next pixel, is on the    *)
(* canvas, whichever camera's corners span it; and the canvas lies whole   *)
(* and, to a pixel, in the middle of the padded square.                    *)
Used == (2 .. CamW - 3) \X (2 .. CamH - 3)

Nearest(n, d) == (2 * n + d) \div (2 * d)

PlaceOn(i, p) ==
  LET s == Apply(view[i], p[1], p[2], 1)
  IN <<Nearest(Q * s[1] - canvas.xmin * s[3], Q * s[3]),
       Nearest(Q * s[2] - canvas.ymin * s[3], Q * s[3])>>

NothingCutOff ==
  stage = "shown" =>
    /\ \A i \in Cameras, p \in Corners \cup Used : PlaceOn(i, p) \in Canvas
    /\ \A p \in Canvas : <<p[1] + OffX, p[2] + OffY>> \in DOMAIN padded
    /\ Square - canvas.w - 2 * OffX \in {0, 1}
    /\ Square - canvas.h - 2 * OffY \in {0, 1}

(* A pixel of the picture shows the camera that sees it nearest to its own *)
(* centre, the lower of two alike, and is black only where no camera sees  *)
(* it.  The camera sees it from the inside: interpolation takes no pixel   *)
(* beyond the edge, and how remap treats borders is of no account.         *)
NearestOwner ==
  stage = "shown" =>
    LET inverses == Inverses
    IN \A p \in Canvas :
      LET seen == [i \in Cameras |-> Remap(inverses[i], p)]
          cam == padded[<<p[1] + OffX, p[2] + OffY>>]
      IN IF cam = Nobody THEN \A i \in Cameras : ~ Sees(seen[i])
         ELSE LET s == seen[cam]
              IN /\ s[1] \div s[3] \in 0 .. CamW - 2
                 /\ s[2] \div s[3] \in 0 .. CamH - 2
                 /\ \A i \in Cameras \ {cam} :
                      Sees(seen[i]) =>
                        /\ ~ Nearer(Distance(seen[i]), Distance(s))
                        /\ i < cam => Nearer(Distance(s), Distance(seen[i]))
=============================================================================
