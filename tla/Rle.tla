-------------------------------- MODULE Rle --------------------------------
(***************************************************************************)
(* rle.tpp: an array is compressed by keeping one item of each run that is *)
(* long enough, and a list of points that say where such runs were.        *)
(*                                                                         *)
(* The header and the points are a record here; their bytes are counted.   *)
(* Positions count from zero, as in the code.                              *)
(***************************************************************************)
EXTENDS Integers, Sequences

CONSTANTS
  Items,          \* what arrays hold
  ItemSizes,      \* values of sizeof(T)
  CountMax,       \* the largest u16
  NoArray, Endless, Threw

\* Of the constants; the module that gives them values assumes it.
RleAssumption ==
  /\ CountMax \in Nat \ {0} /\ ItemSizes \subseteq Nat \ {0}
  /\ Threw \notin Nat

VARIABLES
  array,          \* the array that was compressed
  packed,         \* what compress() returned
  unpacked        \* what decompress() did

rleVars == <<array, packed, unpacked>>

u16Size == 2
PointSize == 2 * u16Size

-----------------------------------------------------------------------------
\* A run that began at t ends before i: another item follows, or nothing does.
RunEnds(arr, i) == i = Len(arr) \/ arr[i + 1] # arr[i]

saved(t, i, itemSize) == (i - t - 1) * itemSize

\* The turn of the loop for i. The run is left out if that saves more than its
\* point takes; what is to be allocated is a guess from what is saved.
Scan(arr, itemSize, i, s) ==
  IF ~RunEnds(arr, i) THEN s
  ELSE IF saved(s.t, i, itemSize) <= PointSize THEN [s EXCEPT !.t = i]
  ELSE [t |-> i,
        compressedPos |-> Append(s.compressedPos, [pos |-> s.t, length |-> i - s.t]),
        compBytes |-> s.compBytes - saved(s.t, i, itemSize)]

Scans(arr, itemSize) ==
  LET scan[i \in 0..Len(arr)] ==
        IF i = 0 THEN [t |-> 0, compressedPos |-> <<>>, compBytes |-> itemSize * Len(arr)]
        ELSE Scan(arr, itemSize, i, scan[i - 1])
  IN  scan

\* Mutant: the first item of a run is not copied.
KeepUpToPoint(arr, c, point) ==
  [data |-> c.data \o SubSeq(arr, c.arrIdx + 1, point.pos), arrIdx |-> point.pos + point.length]

\* The items up to the first one of a run; the others of the run are left out.
KeepFirst(arr, c, point) ==
  [data |-> c.data \o SubSeq(arr, c.arrIdx + 1, point.pos + 1),
   arrIdx |-> point.pos + point.length]

Keeps(arr, points) ==
  LET keep[j \in 0..Len(points)] ==
        IF j = 0 THEN [data |-> <<>>, arrIdx |-> 0] ELSE KeepFirst(arr, keep[j - 1], points[j])
  IN  keep

Remaining(arr, points) ==
  LET c == Keeps(arr, points)[Len(points)]
  IN  c.data \o SubSeq(arr, c.arrIdx + 1, Len(arr))

headerSize(points) == 3 * u16Size + PointSize * Len(points)

Compressed(arr, itemSize) ==
  LET s == Scans(arr, itemSize)[Len(arr)]
  IN  [numItems |-> Len(arr), itemSize |-> itemSize, points |-> s.compressedPos,
       data |-> Remaining(arr, s.compressedPos),
       allocated |-> headerSize(s.compressedPos) + s.compBytes]

SizeOf(p) == headerSize(p.points) + p.itemSize * Len(p.data)

\* The items before a run, and the run made of its first item.
Expand(data, c, point) ==
  LET before == point.pos - Len(c.output)
  IN  [output |-> c.output \o SubSeq(data, c.k + 1, c.k + before)
                           \o [i \in 1..point.length |-> data[c.k + before + 1]],
       k |-> c.k + before + 1]

Expands(p) ==
  LET expand[j \in 0..Len(p.points)] ==
        IF j = 0 THEN [output |-> <<>>, k |-> 0] ELSE Expand(p.data, expand[j - 1], p.points[j])
  IN  expand

Expanded(p) ==
  LET c == Expands(p)[Len(p.points)]
  IN  c.output \o SubSeq(p.data, c.k + 1, c.k + p.numItems - Len(c.output))

-----------------------------------------------------------------------------
RleInit == array = NoArray /\ packed = NoArray /\ unpacked = NoArray

\* The index of the loop has the type of the count: with the largest count it
\* never gets behind it.
compress(arr, itemSize) ==
  /\ array' = arr
  /\ packed' = IF Len(arr) = CountMax THEN Endless ELSE Compressed(arr, itemSize)
  /\ unpacked' = NoArray

\* By getItems() a caller learns how much room is needed.
getItems(itemSize) == IF packed.itemSize # itemSize THEN Threw ELSE packed.numItems

\* The input must be larger than its header and points.
decompress(itemSize, outMaxItems) ==
  /\ packed \notin {NoArray, Endless} /\ unpacked = NoArray
  /\ unpacked' = [by |-> itemSize, room |-> outMaxItems, output |->
       IF \/ packed.itemSize # itemSize
          \/ packed.numItems > outMaxItems
          \/ PointSize * Len(packed.points) >= SizeOf(packed) - 3 * u16Size
       THEN Threw ELSE Expanded(packed)]
  /\ UNCHANGED <<array, packed>>

RleNext ==
  \/ \E n \in 0..CountMax, itemSize \in ItemSizes : \E arr \in [1..n -> Items] :
       packed = NoArray /\ compress(arr, itemSize)
  \/ \E itemSize \in ItemSizes, outMaxItems \in {CountMax \div 2, CountMax} :
       decompress(itemSize, outMaxItems)

RleSpec == RleInit /\ [][RleNext]_rleVars

-----------------------------------------------------------------------------
(* Properties *)

\* What is written fills what was allocated, and is never more than the array
\* and an empty header; and a caller that has the room that getItems() tells
\* gets the array back, unless that is empty, which is taken for corrupted.
RunsRoundTrip ==
  packed \notin {NoArray, Endless} =>
    /\ SizeOf(packed) = packed.allocated
    /\ SizeOf(packed) <= 3 * u16Size + packed.itemSize * Len(array)
    /\ unpacked # NoArray =>
         LET room == getItems(unpacked.by)
         IN  unpacked.output = IF array = <<>> \/ room = Threw THEN Threw
                               ELSE IF room > unpacked.room THEN Threw ELSE array
=============================================================================
