------------------------------ MODULE Drawing -------------------------------
(***************************************************************************)
(* The drawing primitives of include/utils/image_drawing.c, and the frame  *)
(* that a worker has RGA draw round a detection (worker_npu.cpp).          *)
(*                                                                         *)
(* A call paints bytes of a picture of W by H pixels: <<plane, <<x, y>>,   *)
(* <<k, c>>>> is byte k of a pixel, with component c of the colour in it.  *)
(* RGB pictures have one plane, NV12 and NV21 ones a plane of luma and one *)
(* of chroma, a pair of bytes for each block of two by two pixels.  Loops  *)
(* over rows and columns with their clipping are sets of pixels; bounds    *)
(* that the code computes as floats are half-integers, and exact.          *)
(***************************************************************************)
EXTENDS Integers, FiniteSets, Sequences

CONSTANTS
  W, H,         \* size of the picture
  Places,       \* coordinates that calls are made with, outside ones included
  Lengths,      \* widths, heights and radii
  Thicknesses,  \* of lines; -1 fills the shape
  FontSizes,
  Texts         \* sequences of kinds of character

Characters == {"print", "newline", "other"}

ASSUME EvenPicture == \A n \in {W, H} : n \in Nat /\ n % 2 = 0 /\ n > 0

ASSUME PlacesAndLengths == Places \subseteq Int /\ Lengths \subseteq Nat

ASSUME Pens == Thicknesses \subseteq {-1} \cup (Nat \ {0})

ASSUME Writing == /\ FontSizes \subseteq Nat \ {0}
                  /\ Texts \subseteq Seq(Characters)

VARIABLES
  call,      \* the call made last, a record of its arguments
  painted    \* the bytes that it wrote

vars == <<call, painted>>

Nothing == [op |-> "none"]

Formats == {"RGB888", "RGBA8888", "NV12", "NV21", "GRAY8"}
Interleaved == {"RGB888", "RGBA8888"}
SemiPlanar == {"NV12", "NV21"}

(* Division and conversion to int cut towards zero.                        *)
Half(n) == IF n >= 0 THEN n \div 2 ELSE -((-n) \div 2)

Smaller(a, b) == IF a < b THEN a ELSE b
Larger(a, b) == IF a > b THEN a ELSE b

(* The loops over rows and columns, which pass over what is not in the     *)
(* plane.                                                                  *)
Clip(w, h, xs, ys) == (xs \cap 0 .. w - 1) \X (ys \cap 0 .. h - 1)

Graph(pen) == {<<k, pen[k]>> : k \in DOMAIN pen}

Paint(plane, region, pen) == {plane} \X region \X Graph(pen)

(* What a colour is in each format.  (For NV21 the code stores differences *)
(* of colour without the 128 that makes them bytes.)                       *)
convert_color(format) ==
  CASE format = "GRAY8" -> <<"a">>
    [] format = "RGB888" -> <<"r", "g", "b">>
    [] format = "RGBA8888" -> <<"r", "g", "b", "a">>
    [] format = "NV12" -> <<"y", "u", "v">>
    [] format = "NV21" -> <<"y", "v", "u">>

LumaPen(pen) == <<pen[1]>>
ChromaPen(pen) == <<pen[2], pen[3]>>

(* The call for the chroma plane.                                          *)
Thinner(t) == IF t = -1 THEN t ELSE Larger(t \div 2, 1)

(* Mutation: the lines are as thick on the half-size plane.                *)
Halved_Thick(c) ==
  [n \in DOMAIN c |-> IF n \in {"op", "format", "text", "t"} THEN c[n]
                      ELSE IF n = "size" THEN Larger(c.size \div 2, 1)
                      ELSE Half(c[n])]

Halved(c) ==
  [n \in DOMAIN c |-> IF n \in {"op", "format", "text"} THEN c[n]
                      ELSE IF n = "t" THEN Thinner(c.t)
                      ELSE IF n = "size" THEN Larger(c.size \div 2, 1)
                      ELSE Half(c[n])]
-----------------------------------------------------------------------------
(* Rectangles: four strips, or the whole.                                  *)
Rectangle(w, h, c) ==
  LET t0 == c.t \div 2
      t1 == c.t - t0
      Strip(x0, x1, y0, y1) == Clip(w, h, x0 .. x1 - 1, y0 .. y1 - 1)
      right == c.x + c.w
      bottom == c.y + c.h
  IN IF c.t = -1
     THEN Strip(c.x, right, c.y, bottom)
     ELSE Strip(c.x - t0, right + t1, c.y - t0, c.y + t1)
          \cup Strip(c.x - t0, right + t1, bottom - t0, bottom + t1)
          \cup Strip(c.x - t0, c.x + t1, c.y + t1, bottom - t0)
          \cup Strip(right - t0, right + t1, c.y + t1, bottom - t0)

draw_rectangle_c1(plane, w, h, c, pen) == Paint(plane, Rectangle(w, h, c), pen)
draw_rectangle_c2(plane, w, h, c, pen) == Paint(plane, Rectangle(w, h, c), pen)
draw_rectangle_c3(c, pen) == Paint("image", Rectangle(W, H, c), pen)
draw_rectangle_c4(c, pen) == Paint("image", Rectangle(W, H, c), pen)

draw_rectangle_yuv420sp(c, pen) ==
  draw_rectangle_c1("Y", W, H, c, LumaPen(pen))
  \cup draw_rectangle_c2("UV", W \div 2, H \div 2, Halved(c), ChromaPen(pen))
-----------------------------------------------------------------------------
(* Circles.  The box of the loops starts at radius - 1 in one and four     *)
(* channels, at radius in two and three.                                   *)
SquareDistance(p, c) ==
  (p[1] - c.x) * (p[1] - c.x) + (p[2] - c.y) * (p[2] - c.y)

distance_lessequal(p, c) == SquareDistance(p, c) <= c.r * c.r

(* Between r - t/2 and r + t/2, the squares multiplied by four.            *)
distance_inrange(p, c) ==
  LET q == 4 * SquareDistance(p, c)
  IN /\ q >= (2 * c.r - c.t) * (2 * c.r - c.t)
     /\ q < (2 * c.r + c.t) * (2 * c.r + c.t)

(* Mutation: the ring is looked for where the filled circle is.            *)
Circle_Narrow(w, h, c, r0) ==
  LET Side(m) == m - (c.r - 1) .. m + c.r - 1
  IN IF c.t = -1
     THEN {p \in Clip(w, h, Side(c.x), Side(c.y)) : distance_lessequal(p, c)}
     ELSE {p \in Clip(w, h, Side(c.x), Side(c.y)) : distance_inrange(p, c)}

Circle(w, h, c, r0) ==
  LET Disc(m) == m - (c.r - 1) .. m + c.r - 1
      Ring(m) == Half(2 * (m - r0) - c.t) .. Half(2 * (m + c.r) + c.t - 1)
  IN IF c.t = -1
     THEN {p \in Clip(w, h, Disc(c.x), Disc(c.y)) : distance_lessequal(p, c)}
     ELSE {p \in Clip(w, h, Ring(c.x), Ring(c.y)) : distance_inrange(p, c)}

draw_circle_c1(plane, w, h, c, pen) ==
  Paint(plane, Circle(w, h, c, c.r - 1), pen)
draw_circle_c2(plane, w, h, c, pen) == Paint(plane, Circle(w, h, c, c.r), pen)
draw_circle_c3(c, pen) == Paint("image", Circle(W, H, c, c.r), pen)
draw_circle_c4(c, pen) == Paint("image", Circle(W, H, c, c.r - 1), pen)

draw_circle_yuv420sp(c, pen) ==
  draw_circle_c1("Y", W, H, c, LumaPen(pen))
  \cup draw_circle_c2("UV", W \div 2, H \div 2, Halved(c), ChromaPen(pen))
-----------------------------------------------------------------------------
(* Lines.                                                                  *)

(* The foot of the perpendicular lies between the ends, and the square of  *)
(* the distance is below half the thickness; both multiplied by the square *)
(* of the length.  The code divides by that: a line of no length is not a  *)
(* number, and paints nothing.                                             *)
distance_lessthan(p, c) ==
  LET dx == c.x1 - c.x0
      dy == c.y1 - c.y0
      along == (p[1] - c.x0) * dx + (p[2] - c.y0) * dy
      across == (p[1] - c.x0) * dy - (p[2] - c.y0) * dx
      length == dx * dx + dy * dy
  IN /\ along \in 0 .. length
     /\ 2 * across * across < c.t * length

Line(w, h, c) ==
  LET Side(a, b) == Half(2 * Smaller(a, b) - c.t)
                    .. Half(2 * Larger(a, b) + c.t - 1)
  IN {p \in Clip(w, h, Side(c.x0, c.x1), Side(c.y0, c.y1)) :
        distance_lessthan(p, c)}

draw_line_c1(plane, w, h, c, pen) == Paint(plane, Line(w, h, c), pen)
draw_line_c2(plane, w, h, c, pen) == Paint(plane, Line(w, h, c), pen)
draw_line_c3(c, pen) == Paint("image", Line(W, H, c), pen)
draw_line_c4(c, pen) == Paint("image", Line(W, H, c), pen)

draw_line_yuv420sp(c, pen) ==
  draw_line_c1("Y", W, H, c, LumaPen(pen))
  \cup draw_line_c2("UV", W \div 2, H \div 2, Halved(c), ChromaPen(pen))

(* The switch of draw_line.                                                *)
Lined(c) ==
  LET pen == convert_color(c.format)
  IN CASE c.format = "RGB888" -> draw_line_c3(c, pen)
       [] c.format = "RGBA8888" -> draw_line_c4(c, pen)
       [] c.format \in SemiPlanar -> draw_line_yuv420sp(c, pen)
       [] OTHER -> {}

(* The corners of a box turned by quarters about its centre, in order;     *)
(* before the conversion to int, twice their coordinates.                  *)
rbbox_to_corners(c) ==
  LET cos == <<1, 0, -1, 0>>[c.quarters + 1]
      sin == <<0, 1, 0, -1>>[c.quarters + 1]
      xs == <<-c.w, -c.w, c.w, c.w>>
      ys == <<-c.h, c.h, c.h, -c.h>>
  IN [i \in 1 .. 4 |-> <<Half(cos * xs[i] - sin * ys[i] + 2 * c.x + c.w),
                         Half(sin * xs[i] + cos * ys[i] + 2 * c.y + c.h)>>]

(* Side i of the turned box, as a call of draw_line.                       *)
ObbSide(c, i) ==
  LET a == rbbox_to_corners(c)[i]
      b == rbbox_to_corners(c)[(i % 4) + 1]
  IN [op |-> "line", format |-> c.format, x0 |-> a[1], y0 |-> a[2],
      x1 |-> b[1], y1 |-> b[2], t |-> c.t]
-----------------------------------------------------------------------------
(* Text.                                                                   *)

(* Where the cursor is before each character.                              *)
Cursors(c) ==
  LET cursor[i \in 1 .. Len(c.text) + 1] ==
        IF i = 1 THEN <<c.x, c.y>>
        ELSE LET at == cursor[i - 1]
             IN CASE c.text[i - 1] = "newline" -> <<c.x, at[2] + 2 * c.size>>
                  [] c.text[i - 1] = "print" -> <<at[1] + c.size, at[2]>>
                  [] OTHER -> at
  IN cursor

(* The cells of the characters that print, one wide and two high.          *)
Text(w, h, c) ==
  UNION {LET at == Cursors(c)[i]
         IN Clip(w, h, at[1] .. at[1] + c.size - 1,
                 at[2] .. at[2] + 2 * c.size - 1) :
         i \in {k \in DOMAIN c.text : c.text[k] = "print"}}

(* The size that a text takes: the widest line so far, the line, the       *)
(* height without the last line.                                           *)
get_text_drawing_size(c) ==
  LET size[i \in 0 .. Len(c.text)] ==
        IF i = 0 THEN <<0, 0, 0>>
        ELSE LET s == size[i - 1]
             IN CASE c.text[i] = "newline" ->
                       <<Larger(s[1], s[2]), 0, s[3] + 2 * c.size>>
                  [] c.text[i] = "print" -> <<s[1], s[2] + c.size, s[3]>>
                  [] OTHER -> s
      s == size[Len(c.text)]
  IN <<Larger(s[1], s[2]), s[3] + 2 * c.size>>

(* What the scaling of a glyph, 20 wide and 40 high, to a cell reads.      *)
GlyphWidth == 20
GlyphHeight == 40

resize_bilinear_c1(f) ==
  UNION {LET x == ((GlyphWidth - 1) * j) \div f
             y == ((GlyphHeight - 1) * i) \div (2 * f)
             index == y * GlyphWidth + x
         IN {index, index + 1, index + GlyphWidth, index + GlyphWidth + 1} :
         i \in 0 .. 2 * f - 1, j \in 0 .. f - 1}

draw_text_c1(plane, w, h, c, pen) == Paint(plane, Text(w, h, c), pen)
draw_text_c2(plane, w, h, c, pen) == Paint(plane, Text(w, h, c), pen)
draw_text_c3(c, pen) == Paint("image", Text(W, H, c), pen)
draw_text_c4(c, pen) == Paint("image", Text(W, H, c), pen)

draw_text_yuv420sp(c, pen) ==
  draw_text_c1("Y", W, H, c, LumaPen(pen))
  \cup draw_text_c2("UV", W \div 2, H \div 2, Halved(c), ChromaPen(pen))
-----------------------------------------------------------------------------
(* Images.  Rows are copied without clipping.                              *)

(* The bytes from the start of the pixels that h rows of w pixels of n     *)
(* bytes take at <<x, y>>, in rows of W such pixels.                       *)
Rows(n, x, y, w, h) ==
  UNION {LET start == ((y + i) * W + x) * n
         IN start .. start + w * n - 1 : i \in 0 .. h - 1}

(* Which byte of the picture that is.  Copied bytes are their own colour.  *)
Interleave(n, o) == <<"image", <<(o \div n) % W, o \div (n * W)>>,
                      <<(o % n) + 1, "copy">>>>

Planes(o) ==
  IF o < W * H THEN <<"Y", <<o % W, o \div W>>, <<1, "copy">>>>
  ELSE LET b == (o - W * H) \div 2
       IN <<"UV", <<b % (W \div 2), b \div (W \div 2)>>, <<(o % 2) + 1, "copy">>>>

draw_image_c1(c) == {Planes(o) : o \in Rows(1, c.x, c.y, c.w, c.h)}
draw_image_c2(c) == {Planes(o) : o \in Rows(2, c.x, Half(c.y), c.w, Half(c.h))}
draw_image_c3(c) == {Interleave(3, o) : o \in Rows(3, c.x, c.y, c.w, c.h)}
draw_image_c4(c) == {Interleave(4, o) : o \in Rows(4, c.x, c.y, c.w, c.h)}

(* Both from the start of the pixels, and the second in rows of W pairs,   *)
(* where the plane of chroma begins after W * H bytes with W / 2 a row.    *)
draw_image_yuv420sp(c) == draw_image_c1(c) \cup draw_image_c2(c)
-----------------------------------------------------------------------------
(* The frame of a detection.                                               *)

(* RGA fills what lies in the picture; it refuses a rectangle that is      *)
(* empty or reaches beyond it, and nobody looks at what it returns.        *)
imfill(x, y, w, h) ==
  IF w > 0 /\ h > 0 /\ x >= 0 /\ y >= 0 /\ x + w <= W /\ y + h <= H
  THEN (x .. x + w - 1) \X (y .. y + h - 1)
  ELSE {}

rga_draw_rect(c) ==
  imfill(c.x, c.y, c.w, c.t)
  \cup imfill(c.x, c.y + c.h - c.t, c.w, c.t)
  \cup imfill(c.x, c.y, c.t, c.h)
  \cup imfill(c.x + c.w - c.t, c.y, c.t, c.h)
-----------------------------------------------------------------------------
(* The calls, one at a time, each on a picture of its own.                 *)
Init == call = Nothing /\ painted = {}

Call(c, bytes) == call = Nothing /\ call' = c /\ painted' = bytes

draw_rectangle ==
  \E f \in Formats, x, y \in Places, w, h \in Lengths, t \in Thicknesses :
    LET c == [op |-> "rectangle", format |-> f, x |-> x, y |-> y, w |-> w,
              h |-> h, t |-> t]
        pen == convert_color(f)
    IN Call(c, CASE f = "RGB888" -> draw_rectangle_c3(c, pen)
                 [] f = "RGBA8888" -> draw_rectangle_c4(c, pen)
                 [] f \in SemiPlanar -> draw_rectangle_yuv420sp(c, pen)
                 [] OTHER -> {})

draw_circle ==
  \E f \in Formats, x, y \in Places, r \in Lengths, t \in Thicknesses :
    LET c == [op |-> "circle", format |-> f, x |-> x, y |-> y, r |-> r,
              t |-> t]
        pen == convert_color(f)
    IN Call(c, CASE f = "RGB888" -> draw_circle_c3(c, pen)
                 [] f = "RGBA8888" -> draw_circle_c4(c, pen)
                 [] f \in SemiPlanar -> draw_circle_yuv420sp(c, pen)
                 [] OTHER -> {})

draw_line ==
  \E f \in Formats, x0, y0, x1, y1 \in Places, t \in Thicknesses \ {-1} :
    LET c == [op |-> "line", format |-> f, x0 |-> x0, y0 |-> y0, x1 |-> x1,
              y1 |-> y1, t |-> t]
    IN Call(c, Lined(c))

draw_obb_rectangle ==
  \E f \in Formats, x, y \in Places, w, h \in Lengths, a \in 0 .. 3,
     t \in Thicknesses \ {-1} :
    LET c == [op |-> "obb", format |-> f, x |-> x, y |-> y, w |-> w, h |-> h,
              quarters |-> a, t |-> t]
    IN Call(c, UNION {Lined(ObbSide(c, i)) : i \in 1 .. 4})

draw_text ==
  \E f \in Formats, text \in Texts, x, y \in Places, size \in FontSizes :
    LET c == [op |-> "text", format |-> f, text |-> text, x |-> x, y |-> y,
              size |-> size]
        pen == convert_color(f)
    IN Call(c, CASE f = "RGB888" -> draw_text_c3(c, pen)
                 [] f = "RGBA8888" -> draw_text_c4(c, pen)
                 [] f \in SemiPlanar -> draw_text_yuv420sp(c, pen)
                 [] OTHER -> {})

(* Callers keep the image within the picture; nothing checks it.           *)
draw_image ==
  \E f \in Formats, x, y \in Places \cap Nat, w, h \in Lengths :
    LET c == [op |-> "image", format |-> f, x |-> x, y |-> y, w |-> w, h |-> h]
    IN /\ x + w <= W /\ y + h <= H
       /\ Call(c, CASE f = "RGB888" -> draw_image_c3(c)
                    [] f = "RGBA8888" -> draw_image_c4(c)
                    [] f \in SemiPlanar -> draw_image_yuv420sp(c)
                    [] OTHER -> {})

(* The boxes of post_process_crack are not clamped to the picture.         *)
Frame ==
  \E x0, y0, x1, y1 \in Places :
    LET c == [op |-> "frame", format |-> "RGB888", x |-> x0, y |-> y0,
              w |-> x1 - x0, h |-> y1 - y0, t |-> 2]
    IN /\ x0 <= x1 /\ y0 <= y1
       /\ Call(c, Paint("image", rga_draw_rect(c), convert_color("RGB888")))

NextPicture == call # Nothing /\ call' = Nothing /\ painted' = {}

Next == \/ draw_rectangle \/ draw_circle \/ draw_line \/ draw_obb_rectangle
        \/ draw_text \/ draw_image \/ Frame \/ NextPicture

Spec == Init /\ [][Next]_vars
-----------------------------------------------------------------------------
(* What the shapes are, without the loops.                                 *)
Plane(w, h) == (0 .. w - 1) \X (0 .. h - 1)

Box(x0, x1, y0, y1) == (x0 .. x1 - 1) \X (y0 .. y1 - 1)

IdealRectangle(c) ==
  LET t0 == c.t \div 2
      t1 == c.t - t0
  IN IF c.t = -1
     THEN Box(c.x, c.x + c.w, c.y, c.y + c.h)
     ELSE Box(c.x - t0, c.x + c.w + t1, c.y - t0, c.y + c.h + t1)
          \ Box(c.x + t1, c.x + c.w - t0, c.y + t1, c.y + c.h - t0)

(* What a pen wider than the circle itself leaves unpainted in the middle: *)
(* the inner radius is negative then, and distance_inrange squares it      *)
(* (image_drawing.c:625).                                                  *)
InHole(p, c) ==
  /\ 2 * c.r < c.t
  /\ 4 * SquareDistance(p, c) < (2 * c.r - c.t) * (2 * c.r - c.t)

(* A filled circle has lost its four tips.  A ring is what lies within     *)
(* half a pen of the circle, and so a disc when the pen is wider than the  *)
(* circle, but for that hole.                                              *)
IdealCircle(c, plane) ==
  IF c.t = -1
  THEN {p \in plane : /\ distance_lessequal(p, c)
                      /\ p[1] # c.x - c.r /\ p[1] # c.x + c.r
                      /\ p[2] # c.y - c.r /\ p[2] # c.y + c.r}
  ELSE {p \in plane :
          LET q == 4 * SquareDistance(p, c)
          IN /\ q < (2 * c.r + c.t) * (2 * c.r + c.t)
             /\ 2 * c.r > c.t => q >= (2 * c.r - c.t) * (2 * c.r - c.t)
             /\ ~ InHole(p, c)}

IdealText(c) ==
  LET size == get_text_drawing_size(c)
  IN Box(c.x, c.x + size[1], c.y, c.y + size[2])

(* A detection within the picture, and no thinner than the pen, gets all   *)
(* four sides of its frame, inside the box.  (Of one that crosses the edge *)
(* RGA refuses whole sides.)                                               *)
Framed(c, region) ==
  LET box == Box(c.x, c.x + c.w, c.y, c.y + c.h)
      inner == Box(c.x + c.t, c.x + c.w - c.t, c.y + c.t, c.y + c.h - c.t)
  IN box \subseteq Plane(W, H) /\ c.w >= c.t /\ c.h >= c.t
     => region = box \ inner

Region(plane) == {b[2] : b \in {p \in painted : p[1] = plane}}

Shaped(c, region, w, h) ==
  CASE c.op = "rectangle" -> region = IdealRectangle(c) \cap Plane(w, h)
    [] c.op = "circle" -> region = IdealCircle(c, Plane(w, h))
    [] c.op = "line" -> region = {p \in Plane(w, h) : distance_lessthan(p, c)}
    [] c.op = "obb" ->
         LET sides == {IF w = W THEN ObbSide(c, i) ELSE Halved(ObbSide(c, i)) :
                         i \in 1 .. 4}
         IN region = {p \in Plane(w, h) : \E s \in sides : distance_lessthan(p, s)}
    [] c.op = "text" -> region \subseteq IdealText(c) \cap Plane(w, h)
    [] c.op = "frame" -> region \subseteq Plane(w, h) /\ Framed(c, region)
    [] OTHER -> TRUE

(* Every shape is whole: the box that the loops visit, which differs from  *)
(* one number of channels to the next and is computed in floats, loses no  *)
(* pixel of it, and the clipping keeps everything in its plane and paints  *)
(* all that is left, at every edge; the four strips of a rectangle meet    *)
(* without a gap.  Text keeps to its size, and glyphs to their table.      *)
(* Nothing is said of images, whose chroma in NV12 is copied over the luma *)
(* (image_drawing.c:1468), and of frames only what Framed says; the shape  *)
(* of a line is the code's own, without caps and not of its thickness.     *)
ShapesWhole ==
  /\ call # Nothing /\ call.format \in Interleaved =>
       Shaped(call, Region("image"), W, H)
  /\ call # Nothing /\ call.format \in SemiPlanar =>
       /\ Shaped(call, Region("Y"), W, H)
       /\ Shaped(IF call.op = "obb" THEN call ELSE Halved(call),
                 Region("UV"), W \div 2, H \div 2)
  /\ call.op = "text" =>
       resize_bilinear_c1(call.size) \subseteq 0 .. GlyphWidth * GlyphHeight - 1

(* Colour goes where light goes: a filled rectangle, a frame as thick as a *)
(* multiple of four, and a text, at even places and of even sizes, paint   *)
(* just those blocks of chroma whose pixels they paint.  (The comments in  *)
(* the code ask for even thickness only; a frame of two pixels has its     *)
(* chroma half a block beside it.)                                         *)
AllEven(c) == \A n \in DOMAIN c \cap {"x", "y", "w", "h", "size"} : c[n] % 2 = 0

ChromaFollows ==
  /\ call.op \in {"rectangle", "text"}
  /\ call.format \in SemiPlanar
  /\ AllEven(call)
  /\ call.op = "rectangle" => call.t = -1 \/ call.t % 4 = 0
  => Region("UV") = {<<p[1] \div 2, p[2] \div 2>> : p \in Region("Y")}
=============================================================================
