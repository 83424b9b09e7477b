------------------------------ MODULE PngImage ------------------------------
(***************************************************************************)
(* PngImage.cpp: an image as an array of bytes that its width, its height  *)
(* and its channels index, and the operations that draw on it. Reading and *)
(* writing of files is libpng's and is left out.                           *)
(*                                                                         *)
(* Pasted colours are opaque or clear: the rounding of what lies between   *)
(* them is left out. Coordinates and sizes are u32: they wrap at Wrap.     *)
(***************************************************************************)
EXTENDS Integers, Sequences

CONSTANTS
  Wrap,           \* 2^32
  Sides,          \* widths and heights that programs ask for
  Inks,           \* colours: sequences of four bytes, alpha last
  Stamps,         \* images that are pasted
  Extents,        \* where to paste, from where and how much, in one direction
  Offsets,        \* by how much images are moved in one direction
  Divisions       \* and scaled down

VARIABLES
  canvas,         \* the image: w, h, chans and data
  stamp           \* another one

imageVars == <<canvas, stamp>>

Byte == 0..255
Opaque == 255
Clear == <<0, 0, 0, 0>>
u32s == 0..(Wrap - 1)
u32(n) == n % Wrap

\* Images whose memory holds all their pixels and is counted without wrapping.
Images ==
  {img \in [w : Nat, h : Nat, chans : {3, 4}, data : Seq(Byte)] :
     img.w * img.h * 4 < Wrap /\ img.w * img.h * img.chans <= Len(img.data)}

Pixels(w, h) == (0..(w - 1)) \X (0..(h - 1))

-----------------------------------------------------------------------------
\* The byte of channel k, from 0, of pixel (x, y): sequences count from 1.
ByteAt(img, x, y, k) == u32((y * img.w + x) * img.chans + k) + 1

getPixel(img, x, y) ==
  [k \in 1..4 |-> IF k = 4 /\ img.chans # 4 THEN Opaque ELSE img.data[ByteAt(img, x, y, k - 1)]]

\* Of the constants; the module that gives them values assumes it. A coordinate
\* and an offset of images of that size are added without overflow of i32.
PngAssumption ==
  /\ Wrap \in Nat \ {0} /\ Sides \subseteq u32s
  /\ \A a, b \in Sides : a * b * 4 < Wrap
  /\ Inks \subseteq [1..4 -> Byte]
  /\ Stamps \subseteq Images
  /\ \A s \in Stamps : \A p \in Pixels(s.w, s.h) :
       getPixel(s, p[1], p[2]) = Clear \/ getPixel(s, p[1], p[2])[4] = Opaque
  /\ Extents \subseteq [dst : u32s, src : u32s, size : u32s]
  /\ Offsets \subseteq -(Wrap \div 4)..(Wrap \div 4)
  /\ Divisions \subseteq u32s \ {0}

\* The bytes from at on are those of a colour.
Overwritten(data, at, chans, clr) ==
  [i \in DOMAIN data |-> IF i - at + 1 \in 1..chans THEN clr[i - at + 1] ELSE data[i]]

\* Blending of a clear colour changes nothing, of an opaque one replaces.
setPixel(img, x, y, clr, blending) ==
  IF blending /\ clr[4] # Opaque THEN img
  ELSE [img EXCEPT !.data = Overwritten(@, ByteAt(img, x, y, 0), img.chans, clr)]

\* The loop of one row from (x, y) on: the i-th pixel gets the colour row[i].
RowDrawn(img, x, y, cols, row, blending) ==
  LET after[i \in 0..cols] ==
        IF i = 0 THEN img ELSE setPixel(after[i - 1], x + (i - 1), y, row[i - 1], blending)
  IN  after[cols]

\* Both loops.
Drawn(img, x, y, cols, rows, clr, blending) ==
  LET after[j \in 0..rows] ==
        IF j = 0 THEN img
        ELSE RowDrawn(after[j - 1], x, y + (j - 1), cols, clr[j - 1], blending)
  IN  after[rows]

\* The function that is applied gives the colours of each row here.
applyTransform(img, fn) == Drawn(img, 0, 0, img.w, img.h, fn, FALSE)

Filling(img, clr) ==
  [i \in DOMAIN img.data |-> IF i <= u32(img.w * img.h * img.chans)
                             THEN clr[((i - 1) % img.chans) + 1] ELSE img.data[i]]

Filled(img, clr) == [img EXCEPT !.data = Filling(img, clr)]

\* New memory is zeroed; memory of the same shape is used again.
Allocated(img, w, h, bg, chans) ==
  Filled(IF <<w, h, chans>> = <<img.w, img.h, img.chans>> /\ img.data # <<>> THEN img
         ELSE [w |-> w, h |-> h, chans |-> chans,
               data |-> [i \in 1..u32(w * h * chans) |-> 0]], bg)

\* Freed memory is an empty sequence here, as memory of no bytes is.
PngImage0 == [w |-> 0, h |-> 0, chans |-> 4, data |-> <<>>]

clone(img) == [img EXCEPT !.data = SubSeq(@, 1, u32(img.w * img.h * img.chans))]

-----------------------------------------------------------------------------
PngInit ==
  /\ canvas = PngImage0
  /\ stamp \in Stamps

allocate(w, h, bg, chans) == canvas' = Allocated(canvas, w, h, bg, chans) /\ UNCHANGED stamp

fill(clr) == canvas' = Filled(canvas, clr) /\ UNCHANGED stamp

Lesser(a, b) == IF a < b THEN a ELSE b

End(from, size, side) == Lesser(u32(from + size), side)

\* Mutant: what is pasted is not clipped by the image it is pasted on.
StepsOfSource(a, dstSide, srcSide) ==
  LET steps == Lesser(u32(a.dst + a.size) - a.dst, End(a.src, a.size, srcSide) - a.src)
  IN  IF steps < 0 THEN 0 ELSE steps

\* The steps that both loops take together in one direction.
Steps(a, dstSide, srcSide) ==
  LET steps == Lesser(End(a.dst, a.size, dstSide) - a.dst, End(a.src, a.size, srcSide) - a.src)
  IN  IF steps < 0 THEN 0 ELSE steps

Pasted(img, src, x, y, blending) ==
  LET cols == Steps(x, img.w, src.w)
      rows == Steps(y, img.h, src.h)
  IN  IF x.dst >= img.w \/ y.dst >= img.h \/ x.src >= src.w \/ y.src >= src.h THEN img
      ELSE Drawn(img, x.dst, y.dst, cols, rows,
                 [j \in 0..(rows - 1) |->
                   [i \in 0..(cols - 1) |-> getPixel(src, x.src + i, y.src + j)]],
                 blending)

paste(x, y, blending) == canvas' = Pasted(canvas, stamp, x, y, blending) /\ UNCHANGED stamp

\* Signed: what is left of or above the image is negative.
Moved(img, offX, offY) ==
  IF offX = 0 /\ offY = 0 THEN img
  ELSE LET tmp == clone(img)
       IN  applyTransform(img, [y \in 0..(img.h - 1) |-> [x \in 0..(img.w - 1) |->
             IF x - offX \in 0..(img.w - 1) /\ y - offY \in 0..(img.h - 1)
             THEN getPixel(tmp, x - offX, y - offY) ELSE Clear]])

move(offX, offY) == canvas' = Moved(canvas, offX, offY) /\ UNCHANGED stamp

isFullyTransparent(img) ==
  img.chans = 4 /\ \A i \in 1..u32(img.w * img.h * 4) : i % 4 = 0 => img.data[i] = 0

\* chans stays what it was, though the new memory has four channels. The
\* quotients of integers come first: the samples are of the first pixel.
Downscaled(img, division) ==
  LET newW == img.w \div division
      newH == img.h \div division
      newData == applyTransform(Allocated(PngImage0, newW, newH, <<255, 255, 255, Opaque>>, 4),
                   [y \in 0..(newH - 1) |-> [x \in 0..(newW - 1) |->
                     getPixel(img, (x \div newW) * img.w, (y \div newH) * img.h)]])
  IN  [img EXCEPT !.w = newW, !.h = newH, !.data = newData.data]

nearestDownscale(division) == canvas' = Downscaled(canvas, division) /\ UNCHANGED stamp

freeMem == canvas' = [canvas EXCEPT !.w = 0, !.h = 0, !.data = <<>>] /\ UNCHANGED stamp

PngNext ==
  \/ \E w, h \in Sides, bg \in Inks, chans \in {3, 4} : allocate(w, h, bg, chans)
  \/ \E clr \in Inks : fill(clr)
  \/ \E x, y \in Extents, blending \in BOOLEAN : paste(x, y, blending)
  \/ \E offX, offY \in Offsets : move(offX, offY)
  \/ \E division \in Divisions : nearestDownscale(division)
  \/ freeMem

PngSpec == PngInit /\ [][PngNext]_imageVars

-----------------------------------------------------------------------------
(* Properties *)

PngTypeOK == canvas \in Images /\ stamp \in Stamps

\* What an image keeps of a colour.
Shown(img, clr) == IF img.chans = 4 THEN clr ELSE [clr EXCEPT ![4] = Opaque]

\* The pixel that belongs at one place, of a rectangle that is laid over img.
Laid(img, src, x, y, blending, px, py) ==
  LET sx == px - x.dst + x.src
      sy == py - y.dst + y.src
      covered == /\ px >= x.dst /\ px < x.dst + x.size /\ sx < src.w
                 /\ py >= y.dst /\ py < y.dst + y.size /\ sy < src.h
      clr == getPixel(src, sx, sy)
  IN  IF covered /\ ~(blending /\ clr = Clear)
      THEN Shown(img, clr) ELSE getPixel(img, px, py)

\* The ends of a rectangle that do not fit into u32.
Wraps(x, y) == {x.dst + x.size, x.src + x.size, y.dst + y.size, y.src + y.size} \ u32s # {}

(***************************************************************************)
(* paste() lays exactly the rectangle it is asked for over the image,      *)
(* clipped by both images, when its ends do not wrap; else it changes      *)
(* nothing. (PngImage.cpp:309-327)                                         *)
(***************************************************************************)
PastesRectangle ==
  \A x, y \in Extents, blending \in BOOLEAN :
    LET new == Pasted(canvas, stamp, x, y, blending)
    IN  \A px \in 0..(canvas.w - 1), py \in 0..(canvas.h - 1) :
          getPixel(new, px, py) = IF Wraps(x, y) THEN getPixel(canvas, px, py)
                                  ELSE Laid(canvas, stamp, x, y, blending, px, py)

(***************************************************************************)
(* The memory of an image holds all its pixels, whatever was done to it;   *)
(* what moves out of it and back leaves nothing behind, and an image of    *)
(* which all has moved out is transparent. (PngImage.cpp:329-355, 402-421) *)
(***************************************************************************)
MovesWithinMemory ==
  /\ Len(canvas.data) >= canvas.w * canvas.h * canvas.chans
  /\ \A dx, dy \in Offsets :
       LET moved == Moved(canvas, dx, dy)
           back == Moved(moved, -dx, -dy)
           stays(x, y) == x + dx \in 0..(canvas.w - 1) /\ y + dy \in 0..(canvas.h - 1)
       IN  /\ \A x \in 0..(canvas.w - 1), y \in 0..(canvas.h - 1) :
                getPixel(back, x, y) =
                  IF stays(x, y) THEN getPixel(canvas, x, y) ELSE Shown(canvas, Clear)
           /\ /\ canvas.chans = 4
              /\ \A x \in 0..(canvas.w - 1), y \in 0..(canvas.h - 1) : ~stays(x, y)
              => isFullyTransparent(moved)

PixelsExact == PastesRectangle /\ MovesWithinMemory
=============================================================================
