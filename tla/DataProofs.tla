----------------------------- MODULE DataProofs -----------------------------
(***************************************************************************)
(* What the loops over arrays compute, for arrays of every length: that    *)
(* what rle.tpp compresses is decompressed to the same, that what          *)
(* PngImage.cpp draws is where it belongs, and that what varints.cpp       *)
(* encodes is decoded to the same.                                         *)
(*                                                                         *)
(* A loop is a recursive function, whose values in turn are shown to be in *)
(* sets that say what holds after each turn.                               *)
(***************************************************************************)
EXTENDS Rle, PngImage, Varints, WellFoundedInduction, NaturalsInduction, SequenceTheorems, TLAPS

-----------------------------------------------------------------------------
(* Induction and loops *)

\* A set of numbers has a least one.
LEMMA Least ==
  ASSUME NEW T, T \subseteq Nat, T # {}
  PROVE  \E n \in T : \A k \in T : n <= k
<1>1. IsWellFoundedOn(OpToRel(<, Nat), Nat)
  BY NatLessThanWellFounded
<1>2. PICK x \in T : \A y \in T : ~(<<y, x>> \in OpToRel(<, Nat))
  BY <1>1, WFMin
<1>3. ASSUME NEW y \in T PROVE x <= y
  <2>1. ~(<<y, x>> \in {ss \in Nat \X Nat : ss[1] < ss[2]})
    BY <1>2 DEF OpToRel
  <2>2. x \in Nat /\ y \in Nat
    OBVIOUS
  <2> QED BY <2>1, <2>2
<1> QED BY <1>3

\* What holds of 0, and of each number if of the one before, holds up to n.
LEMMA Induction ==
  ASSUME NEW n \in Nat, NEW T, 0 \in T, \A i \in 1..n : i - 1 \in T => i \in T
  PROVE  \A i \in 0..n : i \in T
<1> SUFFICES ASSUME NEW m \in 0..n, m \notin T PROVE FALSE
  OBVIOUS
<1> DEFINE U == {i \in 0..n : i \notin T}
<1>1. U \subseteq Nat /\ U # {}
  OBVIOUS
<1> HIDE DEF U
<1>2. PICK x \in U : \A k \in U : x <= k
  BY <1>1, Least
<1>3. x \in 1..n /\ x \notin T
  BY <1>2 DEF U
<1>4. x - 1 \in 0..n /\ ~(x <= x - 1)
  BY <1>3
<1>5. x - 1 \in T
  BY <1>2, <1>4 DEF U
<1> QED BY <1>3, <1>5

\* A loop of n turns: S[i] says what holds after turn i, and F[i] is turn i.
IsLoop(f, n, b, F) == f = [i \in 0..n |-> IF i = 0 THEN b ELSE F[i][f[i - 1]]]

\* A loop exists, since each turn leads on.
LEMMA LoopExists ==
  ASSUME NEW n \in Nat, NEW S, NEW b \in S[0], NEW F,
         \A i \in 1..n : \A x \in S[i - 1] : F[i][x] \in S[i]
  PROVE  \E f : IsLoop(f, n, b, F) /\ \A i \in 0..n : f[i] \in S[i]
<1> DEFINE Goes(f, m) == IsLoop(f, m, b, F) /\ \A i \in 0..m : f[i] \in S[i]
           T == {m \in 0..n : \E f : Goes(f, m)}
<1>1. 0 \in T
  <2> DEFINE f == [i \in 0..0 |-> b]
  <2>1. f[0] = b /\ \A i \in 0..0 : i = 0
    OBVIOUS
  <2>2. f = [i \in 0..0 |-> IF i = 0 THEN b ELSE F[i][f[i - 1]]]
    OBVIOUS
  <2> HIDE DEF f
  <2>3. Goes(f, 0)
    BY <2>1, <2>2 DEF IsLoop
  <2> HIDE DEF Goes
  <2> QED BY <2>3
<1>2. ASSUME NEW m \in 1..n, m - 1 \in T PROVE m \in T
  <2>1. PICK f : Goes(f, m - 1)
    BY <1>2
  <2> DEFINE g == [i \in 0..m |-> IF i = m THEN F[m][f[m - 1]] ELSE f[i]]
  <2>2. m - 1 \in 0..(m - 1) /\ m \in 0..m
    OBVIOUS
  <2>3. F[m][f[m - 1]] \in S[m]
    BY <2>1, <2>2
  <2>4. g[m] = F[m][f[m - 1]] /\ \A i \in 0..(m - 1) : g[i] = f[i]
    OBVIOUS
  <2>5. DOMAIN g = 0..m /\ g = [i \in 0..m |-> g[i]]
    OBVIOUS
  <2> HIDE DEF g
  <2>6. ASSUME NEW i \in 0..m PROVE g[i] = IF i = 0 THEN b ELSE F[i][g[i - 1]]
    <3>1. CASE i = m
      BY <2>2, <2>4, <3>1
    <3>2. CASE i # m
      <4>1. i \in 0..(m - 1) /\ (i # 0 => i - 1 \in 0..(m - 1))
        BY <3>2
      <4>2. f[i] = IF i = 0 THEN b ELSE F[i][f[i - 1]]
        BY <2>1, <4>1 DEF IsLoop
      <4> QED BY <2>4, <4>1, <4>2
    <3> QED BY <3>1, <3>2
  <2>7. ASSUME NEW i \in 0..m PROVE g[i] \in S[i]
    <3>1. CASE i = m
      BY <2>3, <2>4, <3>1
    <3>2. CASE i # m
      <4>1. i \in 0..(m - 1)
        BY <3>2
      <4> QED BY <2>1, <2>4, <4>1
    <3> QED BY <3>1, <3>2
  <2>8. IsLoop(g, m, b, F)
    BY <2>5, <2>6 DEF IsLoop
  <2>9. Goes(g, m)
    BY <2>7, <2>8
  <2> HIDE DEF Goes
  <2> QED BY <2>9
<1> HIDE DEF T
<1>3. \A i \in 1..n : i - 1 \in T => i \in T
  BY <1>2
<1>4. \A i \in 0..n : i \in T
  BY <1>1, <1>3, Induction
<1>5. n \in T
  BY <1>4
<1> QED BY <1>5 DEF T

\* What holds after each turn of any loop.
LEMMA LoopKeeps ==
  ASSUME NEW n \in Nat, NEW S, NEW f, f[0] \in S[0],
         \A i \in 1..n : f[i - 1] \in S[i - 1] => f[i] \in S[i]
  PROVE  f[n] \in S[n]
<1> DEFINE T == {i \in 0..n : f[i] \in S[i]}
<1>1. 0 \in T /\ \A i \in 1..n : i - 1 \in T => i \in T
  OBVIOUS
<1> HIDE DEF T
<1>2. \A i \in 0..n : i \in T
  BY <1>1, Induction
<1> QED BY <1>2 DEF T

-----------------------------------------------------------------------------
(* Run-length encoding: what compress() finds *)

Points == [pos : Nat, length : Nat]

\* Where the run of the j-th point ends.
EndOf(points, j) == IF j = 0 THEN 0 ELSE points[j].pos + points[j].length

\* The points are runs of the array, in order, and end before t.
RunsOf(arr, points, t) ==
  \A j \in 1..Len(points) :
    /\ points[j].length >= 1
    /\ EndOf(points, j - 1) <= points[j].pos /\ EndOf(points, j) <= t
    /\ \A m \in 1..points[j].length : arr[points[j].pos + m] = arr[points[j].pos + 1]

\* The items that are left out for the first j points: all of each run but one.
IsLeftOut(f, points) ==
  /\ f \in [0..Len(points) -> Nat] /\ f[0] = 0
  /\ \A j \in 1..Len(points) : f[j] = f[j - 1] + points[j].length - 1

\* What is left out is worth more than the points, and some items remain.
Pays(f, points, itemSize) ==
  LET n == Len(points)
  IN  PointSize * n <= itemSize * f[n] /\ f[n] + n <= EndOf(points, n)

\* After the turn for i: the points so far, and the run that began at t.
Scanned(arr, itemSize, i, s) ==
  /\ s.t <= i /\ RunsOf(arr, s.compressedPos, s.t)
  /\ \A m \in (s.t + 1)..(i + 1) : m <= Len(arr) => arr[m] = arr[s.t + 1]
  /\ \E f : /\ IsLeftOut(f, s.compressedPos) /\ Pays(f, s.compressedPos, itemSize)
            /\ s.compBytes = itemSize * (Len(arr) - f[Len(s.compressedPos)])

ScanStates == [t : Nat, compressedPos : Seq(Points), compBytes : Int]

\* A run that is left out is another point, and its items are left out.
LEMMA ScanAppends ==
  ASSUME NEW arr \in Seq(Items), NEW itemSize \in Nat, NEW i \in 1..Len(arr), NEW s \in ScanStates,
         Scanned(arr, itemSize, i - 1, s), saved(s.t, i, itemSize) > PointSize
  PROVE  LET p == Append(s.compressedPos, [pos |-> s.t, length |-> i - s.t])
         IN  /\ RunsOf(arr, p, i)
             /\ \E f : /\ IsLeftOut(f, p) /\ Pays(f, p, itemSize)
                       /\ s.compBytes - saved(s.t, i, itemSize) = itemSize * (Len(arr) - f[Len(p)])
<1> DEFINE c == s.compressedPos
           n == Len(c)
           e == [pos |-> s.t, length |-> i - s.t]
           p == Append(c, e)
<1>1. c \in Seq(Points) /\ n \in Nat /\ s.t \in Nat /\ s.t <= i - 1 /\ e \in Points /\ s.compBytes \in Int
  BY DEF ScanStates, Scanned, Points
<1>2. Len(p) = n + 1 /\ p[n + 1] = e /\ \A j \in 1..n : p[j] = c[j] /\ c[j] \in Points
  BY <1>1
<1>3. \A j \in 0..n : EndOf(p, j) = EndOf(c, j) /\ EndOf(c, j) \in Nat
  BY <1>2 DEF EndOf, Points
<1>4. EndOf(p, n + 1) = i
  BY <1>1, <1>2 DEF EndOf
<1>5. RunsOf(arr, c, s.t)
  BY DEF Scanned
<1>6. EndOf(c, n) <= s.t
  BY <1>1, <1>5 DEF EndOf, RunsOf
<1>7. RunsOf(arr, p, i)
  <2>1. ASSUME NEW j \in 1..(n + 1)
        PROVE  /\ p[j].length >= 1
               /\ EndOf(p, j - 1) <= p[j].pos /\ EndOf(p, j) <= i
               /\ \A m \in 1..p[j].length : arr[p[j].pos + m] = arr[p[j].pos + 1]
    <3>1. CASE j = n + 1
      <4>1. p[j].length = i - s.t /\ p[j].pos = s.t
        BY <1>2, <3>1
      <4>2. \A m \in 1..(i - s.t) : arr[s.t + m] = arr[s.t + 1]
        <5>1. \A k \in (s.t + 1)..i : arr[k] = arr[s.t + 1]
          BY <1>1 DEF Scanned
        <5>2. \A m \in 1..(i - s.t) : s.t + m \in (s.t + 1)..i
          BY <1>1
        <5> QED BY <5>1, <5>2
      <4>3. EndOf(p, n) = EndOf(c, n) /\ n + 1 - 1 = n
        BY <1>1, <1>3
      <4> HIDE DEF p, c, n
      <4> QED BY <1>1, <1>4, <1>6, <3>1, <4>1, <4>2, <4>3
    <3>2. CASE j # n + 1
      <4>1. j \in 1..n /\ j - 1 \in 0..n /\ j \in 0..n
        BY <1>1, <3>2
      <4>2. EndOf(p, j) = EndOf(c, j) /\ EndOf(p, j - 1) = EndOf(c, j - 1) /\ p[j] = c[j]
        BY <1>2, <1>3, <4>1
      <4>3. EndOf(c, j) <= i
        BY <1>1, <1>3, <1>5, <4>1 DEF RunsOf
      <4> QED BY <1>5, <4>1, <4>2, <4>3 DEF RunsOf
    <3> QED BY <3>1, <3>2
  <2> HIDE DEF p
  <2> QED BY <1>2, <2>1 DEF RunsOf
<1>8. PICK f : IsLeftOut(f, c) /\ Pays(f, c, itemSize) /\ s.compBytes = itemSize * (Len(arr) - f[n])
  BY DEF Scanned
<1> DEFINE g == [j \in 0..(n + 1) |-> IF j = n + 1 THEN f[n] + (i - s.t) - 1 ELSE f[j]]
<1>9. f[n] \in Nat /\ f \in [0..n -> Nat] /\ f[0] = 0
  BY <1>1, <1>8 DEF IsLeftOut
<1>10. /\ g \in [0..(n + 1) -> Nat] /\ g[n + 1] = f[n] + (i - s.t) - 1
       /\ \A j \in 0..n : g[j] = f[j]
  <2>1. f[n] + (i - s.t) - 1 \in Nat
    <3> HIDE DEF c, n, p, e
    <3> QED BY <1>1, <1>9
  <2> HIDE DEF c, p, e
  <2> QED BY <1>1, <1>9, <2>1
<1> HIDE DEF g
<1>11. IsLeftOut(g, p)
  <2>1. ASSUME NEW j \in 1..(n + 1) PROVE g[j] = g[j - 1] + p[j].length - 1
    <3>1. CASE j = n + 1
      <4>1. p[j] = e /\ e.length = i - s.t
        BY <1>2, <3>1
      <4> HIDE DEF p, c, n, e
      <4>2. j - 1 = n /\ n \in 0..n
        BY <1>1, <3>1
      <4>3. g[j - 1] = f[n]
        BY <1>10, <4>2
      <4>4. g[j] = f[n] + (i - s.t) - 1
        BY <1>10, <3>1
      <4> QED BY <1>1, <1>9, <4>1, <4>3, <4>4
    <3>2. CASE j # n + 1
      <4>1. j \in 1..n /\ j - 1 \in 0..n /\ j \in 0..n
        BY <1>1, <3>2
      <4>2. f[j] = f[j - 1] + c[j].length - 1
        BY <1>8, <4>1 DEF IsLeftOut
      <4> QED BY <1>2, <1>10, <4>1, <4>2
    <3> QED BY <3>1, <3>2
  <2>2. g[0] = 0
    BY <1>1, <1>9, <1>10
  <2> HIDE DEF p
  <2> QED BY <1>2, <1>10, <2>1, <2>2 DEF IsLeftOut
<1> DEFINE w == (i - s.t) - 1
<1>12. saved(s.t, i, itemSize) = w * itemSize /\ w \in Nat /\ g[n + 1] = f[n] + w
  BY <1>1, <1>9, <1>10 DEF saved
<1>13. w * itemSize = itemSize * w /\ itemSize * (f[n] + w) = itemSize * f[n] + itemSize * w
  BY <1>9, <1>12
<1>14. itemSize * (Len(arr) - (f[n] + w)) = itemSize * (Len(arr) - f[n]) - itemSize * w
  BY <1>9, <1>12
<1>15. Pays(g, p, itemSize)
  <2>1. PointSize * n <= itemSize * f[n] /\ f[n] + n <= EndOf(c, n)
    BY <1>8 DEF Pays
  <2>2. itemSize * f[n] \in Nat /\ itemSize * w \in Nat
    BY <1>9, <1>12
  <2>3. PointSize * (n + 1) <= itemSize * g[n + 1]
    <3> HIDE DEF w
    <3> QED BY <1>1, <1>12, <1>13, <2>1, <2>2 DEF PointSize, u16Size
  <2>4. g[n + 1] + (n + 1) <= EndOf(p, n + 1)
    <3>1. EndOf(c, n) \in Nat /\ n \in Nat /\ s.t \in Nat /\ i \in Nat
      BY <1>1, <1>3
    <3>2. f[n] + n <= s.t
      <4> HIDE DEF n, c
      <4> QED BY <1>6, <1>9, <2>1, <3>1
    <3>3. f[n] + ((i - s.t) - 1) + (n + 1) <= i
      <4> HIDE DEF n
      <4> QED BY <1>9, <3>1, <3>2
    <3> QED BY <1>4, <1>12, <3>3
  <2> HIDE DEF p, w
  <2> QED BY <1>2, <2>3, <2>4 DEF Pays
<1>16. s.compBytes - saved(s.t, i, itemSize) = itemSize * (Len(arr) - g[Len(p)])
  <2> HIDE DEF w, p
  <2> QED BY <1>2, <1>8, <1>12, <1>13, <1>14
<1> QED BY <1>7, <1>11, <1>15, <1>16

LEMMA ScanKeeps ==
  ASSUME NEW arr \in Seq(Items), NEW itemSize \in Nat, NEW i \in 1..Len(arr), NEW s \in ScanStates,
         Scanned(arr, itemSize, i - 1, s)
  PROVE  LET u == Scan(arr, itemSize, i, s) IN u \in ScanStates /\ Scanned(arr, itemSize, i, u)
<1> DEFINE u == Scan(arr, itemSize, i, s)
<1>1. /\ s.t \in Nat /\ s.t <= i - 1 /\ s.compressedPos \in Seq(Points) /\ s.compBytes \in Int
      /\ Len(arr) \in Nat /\ i \in Nat
  BY DEF ScanStates, Scanned
<1>2. CASE ~RunEnds(arr, i)
  <2>1. u = s
    BY <1>2 DEF Scan
  <2>2. ASSUME NEW m \in (s.t + 1)..(i + 1), m <= Len(arr) PROVE arr[m] = arr[s.t + 1]
    <3>1. i \in (s.t + 1)..(i - 1 + 1) /\ i <= Len(arr)
      BY <1>1
    <3>2. arr[i] = arr[s.t + 1]
      BY <3>1 DEF Scanned
    <3>3. arr[i + 1] = arr[i]
      BY <1>2 DEF RunEnds
    <3>4. CASE m = i + 1
      BY <3>2, <3>3, <3>4
    <3>5. CASE m # i + 1
      <4>1. m \in (s.t + 1)..(i - 1 + 1)
        BY <1>1, <3>5
      <4> QED BY <2>2, <4>1 DEF Scanned
    <3> QED BY <3>4, <3>5
  <2> QED BY <1>1, <2>1, <2>2 DEF Scanned
<1>3. CASE RunEnds(arr, i) /\ saved(s.t, i, itemSize) <= PointSize
  <2>1. u = [s EXCEPT !.t = i]
    BY <1>3 DEF Scan
  <2>2. u \in ScanStates /\ u.t = i /\ u.compressedPos = s.compressedPos /\ u.compBytes = s.compBytes
    BY <1>1, <2>1 DEF ScanStates
  <2>3. RunsOf(arr, s.compressedPos, i)
    <3>1. ASSUME NEW j \in 1..Len(s.compressedPos) PROVE EndOf(s.compressedPos, j) <= i
      <4>1. s.compressedPos[j] \in Points /\ j # 0
        BY <1>1
      <4>2. EndOf(s.compressedPos, j) \in Nat
        BY <4>1 DEF EndOf, Points
      <4>3. EndOf(s.compressedPos, j) <= s.t
        BY DEF Scanned, RunsOf
      <4> QED BY <1>1, <4>2, <4>3
    <3> QED BY <3>1 DEF Scanned, RunsOf
  <2>4. \A m \in (u.t + 1)..(i + 1) : arr[m] = arr[u.t + 1]
    <3>1. \A m \in (i + 1)..(i + 1) : m = i + 1
      BY <1>1
    <3> QED BY <2>2, <3>1
  <2>5. \E f : /\ IsLeftOut(f, s.compressedPos) /\ Pays(f, s.compressedPos, itemSize)
              /\ s.compBytes = itemSize * (Len(arr) - f[Len(s.compressedPos)])
    BY DEF Scanned
  <2>6. u.t <= i
    BY <1>1, <2>2
  <2>7. RunsOf(arr, u.compressedPos, u.t)
    BY <2>2, <2>3
  <2>8. \E f : /\ IsLeftOut(f, u.compressedPos) /\ Pays(f, u.compressedPos, itemSize)
              /\ u.compBytes = itemSize * (Len(arr) - f[Len(u.compressedPos)])
    BY <2>2, <2>5
  <2>9. Scanned(arr, itemSize, i, u)
    <3> HIDE DEF u
    <3> QED BY <2>4, <2>6, <2>7, <2>8 DEF Scanned
  <2> QED BY <2>2, <2>9
<1>4. CASE RunEnds(arr, i) /\ ~(saved(s.t, i, itemSize) <= PointSize)
  <2> DEFINE p == Append(s.compressedPos, [pos |-> s.t, length |-> i - s.t])
  <2>1. u = [t |-> i, compressedPos |-> p, compBytes |-> s.compBytes - saved(s.t, i, itemSize)]
    BY <1>4 DEF Scan
  <2>2. saved(s.t, i, itemSize) \in Int /\ PointSize \in Int
    BY <1>1 DEF saved, PointSize, u16Size
  <2>3. p \in Seq(Points)
    <3>1. [pos |-> s.t, length |-> i - s.t] \in Points
      BY <1>1 DEF Points
    <3> QED BY <1>1, <3>1
  <2>4. u \in ScanStates /\ u.t = i /\ u.compressedPos = p
        /\ u.compBytes = s.compBytes - saved(s.t, i, itemSize)
    <3> HIDE DEF p
    <3> QED BY <1>1, <2>1, <2>2, <2>3 DEF ScanStates
  <2>5. saved(s.t, i, itemSize) > PointSize
    BY <1>4, <2>2
  <2>6. /\ RunsOf(arr, p, i)
        /\ \E f : /\ IsLeftOut(f, p) /\ Pays(f, p, itemSize)
                  /\ s.compBytes - saved(s.t, i, itemSize) = itemSize * (Len(arr) - f[Len(p)])
    BY <2>5, ScanAppends
  <2>7. \A m \in (u.t + 1)..(i + 1) : arr[m] = arr[u.t + 1]
    <3>1. \A m \in (i + 1)..(i + 1) : m = i + 1
      BY <1>1
    <3> QED BY <2>4, <3>1
  <2>8. u.t <= i
    BY <1>1, <2>4
  <2>9. RunsOf(arr, u.compressedPos, u.t)
    BY <2>4, <2>6
  <2>10. \E f : /\ IsLeftOut(f, u.compressedPos) /\ Pays(f, u.compressedPos, itemSize)
               /\ u.compBytes = itemSize * (Len(arr) - f[Len(u.compressedPos)])
    BY <2>4, <2>6
  <2>11. Scanned(arr, itemSize, i, u)
    <3> HIDE DEF u, p
    <3> QED BY <2>7, <2>8, <2>9, <2>10 DEF Scanned
  <2> QED BY <2>4, <2>11
<1> QED BY <1>2, <1>3, <1>4

\* What compress() finds in an array.
LEMMA ScanFinds ==
  ASSUME NEW arr \in Seq(Items), NEW itemSize \in Nat
  PROVE  LET s == Scans(arr, itemSize)[Len(arr)]
         IN  s \in ScanStates /\ Scanned(arr, itemSize, Len(arr), s)
<1> DEFINE n == Len(arr)
           b == [t |-> 0, compressedPos |-> <<>>, compBytes |-> itemSize * Len(arr)]
           S == [i \in 0..n |-> {s \in ScanStates : Scanned(arr, itemSize, i, s)}]
           F == [i \in 1..n |-> [s \in S[i - 1] |-> Scan(arr, itemSize, i, s)]]
<1>1. n \in Nat
  OBVIOUS
<1>2. b \in S[0]
  <2>1. b \in ScanStates /\ b.t = 0 /\ b.compressedPos = <<>> /\ b.compBytes = itemSize * Len(arr)
    <3>1. itemSize * Len(arr) \in Int /\ <<>> \in Seq(Points)
      BY <1>1
    <3> QED BY <3>1 DEF ScanStates
  <2>2. RunsOf(arr, b.compressedPos, 0)
    BY <2>1 DEF RunsOf
  <2>3. \A m \in (b.t + 1)..(0 + 1) : m <= Len(arr) => arr[m] = arr[b.t + 1]
    BY <2>1
  <2> DEFINE f == [i \in 0..0 |-> 0]
  <2>4. f \in [0..0 -> Nat] /\ f[0] = 0
    OBVIOUS
  <2> HIDE DEF f
  <2>5. IsLeftOut(f, <<>>)
    BY <2>4 DEF IsLeftOut
  <2>6. Pays(f, <<>>, itemSize)
    BY <2>4 DEF Pays, EndOf, PointSize, u16Size
  <2>7. b.compBytes = itemSize * (Len(arr) - f[Len(b.compressedPos)])
    BY <1>1, <2>1, <2>4
  <2> HIDE DEF b
  <2>8. Scanned(arr, itemSize, 0, b)
    BY <2>1, <2>2, <2>3, <2>5, <2>6, <2>7 DEF Scanned
  <2> QED BY <1>1, <2>1, <2>8
<1>3. ASSUME NEW i \in 1..n, NEW s \in S[i - 1]
      PROVE  F[i][s] = Scan(arr, itemSize, i, s) /\ Scan(arr, itemSize, i, s) \in S[i]
  <2>1. i - 1 \in 0..n /\ i \in 0..n
    BY <1>1
  <2>2. s \in ScanStates /\ Scanned(arr, itemSize, i - 1, s)
    BY <2>1
  <2>3. Scan(arr, itemSize, i, s) \in ScanStates /\ Scanned(arr, itemSize, i, Scan(arr, itemSize, i, s))
    BY <2>2, ScanKeeps
  <2> QED BY <2>1, <2>3
<1> DEFINE IsScan(g) == g = [i \in 0..n |-> IF i = 0 THEN b ELSE Scan(arr, itemSize, i, g[i - 1])]
<1>4. S[n] = {s \in ScanStates : Scanned(arr, itemSize, n, s)}
  BY <1>1
<1>5. Scans(arr, itemSize) = CHOOSE g : IsScan(g)
  BY DEF Scans
<1> HIDE DEF S, F, b, n
<1>6. PICK f : IsLoop(f, n, b, F) /\ \A i \in 0..n : f[i] \in S[i]
  <2>1. \A i \in 1..n : \A x \in S[i - 1] : F[i][x] \in S[i]
    BY <1>3
  <2> QED BY <1>1, <1>2, <2>1, LoopExists
<1>7. IsScan(f)
  <2>1. ASSUME NEW i \in 0..n PROVE f[i] = IF i = 0 THEN b ELSE Scan(arr, itemSize, i, f[i - 1])
    <3>1. f[i] = IF i = 0 THEN b ELSE F[i][f[i - 1]]
      BY <1>6 DEF IsLoop
    <3>2. i # 0 => i \in 1..n /\ i - 1 \in 0..n
      BY <1>1
    <3> QED BY <1>3, <1>6, <3>1, <3>2
  <2>2. f = [i \in 0..n |-> f[i]]
    BY <1>6 DEF IsLoop
  <2> QED BY <2>1, <2>2
<1> DEFINE g == Scans(arr, itemSize)
<1>8. IsScan(g)
  BY <1>5, <1>7
<1> HIDE DEF g
<1>9. g[n] \in S[n]
  <2>1. g[0] \in S[0]
    BY <1>1, <1>2, <1>8
  <2>2. ASSUME NEW i \in 1..n, g[i - 1] \in S[i - 1] PROVE g[i] \in S[i]
    <3>1. g[i] = Scan(arr, itemSize, i, g[i - 1])
      BY <1>1, <1>8
    <3> QED BY <1>3, <2>2, <3>1
  <2> HIDE DEF IsScan
  <2> QED BY <1>1, <2>1, <2>2, LoopKeeps
<1> QED BY <1>4, <1>9 DEF g, n

-----------------------------------------------------------------------------
(* Run-length encoding: what is kept *)

\* The items of arr behind the m-th one, up to the n-th, follow those of d in e.
Follows(e, d, arr, m, n) ==
  /\ e \in Seq(Items) /\ Len(e) = Len(d) + (n - m)
  /\ \A x \in 1..Len(d) : e[x] = d[x]
  /\ \A x \in (m + 1)..n : e[Len(d) + (x - m)] = arr[x]

LEMMA Behind ==
  ASSUME NEW d \in Seq(Items), NEW arr \in Seq(Items), NEW m \in Nat, NEW n \in Nat,
         m <= n, n <= Len(arr)
  PROVE  Follows(d \o SubSeq(arr, m + 1, n), d, arr, m, n)
<1> DEFINE e == d \o SubSeq(arr, m + 1, n)
<1> DEFINE q == SubSeq(arr, m + 1, n)
<1>q. e = d \o q
  OBVIOUS
<1>1. q \in Seq(Items) /\ Len(q) = n - m /\ \A x \in 1..(n - m) : q[x] = arr[x + m]
  OBVIOUS
<1> HIDE DEF q, e
<1>2. /\ e \in Seq(Items) /\ Len(e) = Len(d) + (n - m)
      /\ \A x \in 1..Len(d) + (n - m) : e[x] = IF x <= Len(d) THEN d[x] ELSE q[x - Len(d)]
  <2>1. /\ d \o q \in Seq(Items) /\ Len(d \o q) = Len(d) + Len(q)
        /\ \A x \in 1..Len(d) + Len(q) : (d \o q)[x] = IF x <= Len(d) THEN d[x] ELSE q[x - Len(d)]
    BY <1>1, ConcatProperties
  <2> QED BY <1>q, <1>1, <2>1, Zenon
<1>3. \A x \in 1..Len(d) : e[x] = d[x]
  <2>1. Len(d) \in Nat /\ n - m \in Nat
    OBVIOUS
  <2> QED BY <1>2, <2>1
<1>4. ASSUME NEW x \in (m + 1)..n PROVE e[Len(d) + (x - m)] = arr[x]
  <2>1. x - m \in 1..Len(q) /\ x - m \in 1..(n - m) /\ (x - m) + m = x
    BY <1>1
  <2>2. e[Len(d) + (x - m)] = q[x - m]
    <3> DEFINE y == Len(d) + (x - m)
    <3>1. y \in 1..Len(d) + (n - m) /\ ~(y <= Len(d)) /\ y - Len(d) = x - m
      BY <1>1, <2>1
    <3> HIDE DEF y
    <3>2. e[y] = q[y - Len(d)]
      BY <1>2, <3>1
    <3> QED BY <3>1, <3>2 DEF y
  <2> QED BY <1>1, <2>1, <2>2
<1> QED BY <1>2, <1>3, <1>4 DEF e, Follows

\* The items up to the first one of each run are found in what was kept.
IsKept(arr, points, f, j, data) ==
  \A l \in 1..j : \A x \in (EndOf(points, l - 1) + 1)..(points[l].pos + 1) :
    x - f[l - 1] \in 1..Len(data) /\ data[x - f[l - 1]] = arr[x]

\* After the turn for the j-th point.
Kept(arr, points, f, j, c) ==
  /\ c.arrIdx = EndOf(points, j)
  /\ Len(c.data) = EndOf(points, j) - f[j]
  /\ IsKept(arr, points, f, j, c.data)

KeepStates == [data : Seq(Items), arrIdx : Nat]

\* The points and what is left out by them.
Found(arr, points, f) ==
  points \in Seq(Points) /\ RunsOf(arr, points, Len(arr)) /\ IsLeftOut(f, points)

\* Where the j-th run is.
LEMMA PointFacts ==
  ASSUME NEW arr \in Seq(Items), NEW points, NEW f, Found(arr, points, f), NEW j \in 1..Len(points)
  PROVE  /\ points[j].pos \in Nat /\ points[j].length \in Nat /\ points[j].length >= 1
         /\ EndOf(points, j) = points[j].pos + points[j].length
         /\ EndOf(points, j) <= Len(arr)
         /\ EndOf(points, j - 1) \in Nat /\ EndOf(points, j - 1) <= points[j].pos
         /\ f[j] \in Nat /\ f[j - 1] \in Nat /\ f[j] = f[j - 1] + points[j].length - 1
         /\ \A m \in 1..points[j].length : arr[points[j].pos + m] = arr[points[j].pos + 1]
<1>1. points \in Seq(Points) /\ Len(points) \in Nat /\ j \in 0..Len(points) /\ j - 1 \in 0..Len(points)
  BY DEF Found
<1>2. points[j] \in Points /\ (j - 1 # 0 => points[j - 1] \in Points)
  BY <1>1
<1>3. EndOf(points, j) = points[j].pos + points[j].length /\ EndOf(points, j - 1) \in Nat
  BY <1>1, <1>2 DEF EndOf, Points
<1>4. f[j] \in Nat /\ f[j - 1] \in Nat /\ f[j] = f[j - 1] + points[j].length - 1
  BY <1>1 DEF Found, IsLeftOut
<1> QED BY <1>2, <1>3, <1>4 DEF Found, RunsOf, Points

LEMMA KeepKeeps ==
  ASSUME NEW arr \in Seq(Items), NEW points, NEW f, Found(arr, points, f), NEW j \in 1..Len(points),
         NEW c \in KeepStates, Kept(arr, points, f, j - 1, c)
  PROVE  LET u == KeepFirst(arr, c, points[j]) IN u \in KeepStates /\ Kept(arr, points, f, j, u)
<1> DEFINE u == KeepFirst(arr, c, points[j])
           pos == points[j].pos
           length == points[j].length
           from == EndOf(points, j - 1)
           to == pos + 1
           d == c.data
<1>1. /\ pos \in Nat /\ length \in Nat /\ length >= 1 /\ from \in Nat /\ from <= pos
      /\ EndOf(points, j) = pos + length /\ pos + length <= Len(arr)
      /\ f[j] \in Nat /\ f[j - 1] \in Nat /\ f[j] = f[j - 1] + length - 1
  BY PointFacts
<1>2. d \in Seq(Items) /\ c.arrIdx = from /\ Len(d) = from - f[j - 1] /\ Len(d) \in Nat
  BY DEF KeepStates, Kept
<1> DEFINE e == d \o SubSeq(arr, from + 1, to)
<1>3. u = [data |-> e, arrIdx |-> pos + length]
  BY <1>2 DEF KeepFirst
<1>0. j \in Nat /\ j - 1 \in Nat /\ Len(points) \in Nat
  BY DEF Found
<1>4. to \in Nat /\ from <= to /\ to <= Len(arr) /\ Len(arr) \in Nat
  BY <1>1
<1>a. to = pos + 1 /\ e = d \o SubSeq(arr, from + 1, to)
  OBVIOUS
<1> HIDE DEF e, from, to, pos, length, d
<1>5. /\ e \in Seq(Items) /\ Len(e) = Len(d) + (to - from)
      /\ \A x \in 1..Len(d) : e[x] = d[x]
      /\ \A x \in (from + 1)..to : e[Len(d) + (x - from)] = arr[x]
  <2>1. from \in Nat /\ to \in Nat /\ from <= to /\ to <= Len(arr) /\ d \in Seq(Items)
    BY <1>1, <1>2, <1>4
  <2>2. Follows(d \o SubSeq(arr, from + 1, to), d, arr, from, to)
    BY <2>1, Behind
  <2> QED BY <1>a, <2>2 DEF Follows
<1>6. u.data = e /\ u.arrIdx = EndOf(points, j) /\ u \in KeepStates
  <2>1. pos + length \in Nat
    BY <1>1
  <2> QED BY <1>1, <1>3, <1>5, <2>1 DEF KeepStates
<1>7. Len(e) = EndOf(points, j) - f[j] /\ Len(e) \in Nat /\ Len(e) >= Len(d)
  <2>1. Len(e) \in Nat /\ Len(e) = Len(d) + (to - from)
    BY <1>5
  <2>2. Len(d) + (to - from) = pos + 1 - f[j - 1]
    <3>1. to = pos + 1 /\ Len(d) = from - f[j - 1]
      BY <1>2, <1>a
    <3>2. from \in Nat /\ pos \in Nat /\ f[j - 1] \in Nat
      BY <1>1
    <3> DEFINE k == f[j - 1]
               n == Len(d)
    <3> HIDE DEF k, n
    <3>3. n + ((pos + 1) - from) = pos + 1 - k
      BY <3>1, <3>2 DEF k, n
    <3> QED BY <3>1, <3>3 DEF k, n
  <2>3. pos + length - f[j] = pos + 1 - f[j - 1]
    BY <1>1
  <2>4. Len(d) + (to - from) >= Len(d)
    BY <1>1, <1>2, <1>4
  <2> QED BY <1>1, <2>1, <2>2, <2>3, <2>4
<1>8. ASSUME NEW l \in 1..j, NEW x \in (EndOf(points, l - 1) + 1)..(points[l].pos + 1)
      PROVE  x - f[l - 1] \in 1..Len(e) /\ e[x - f[l - 1]] = arr[x]
  <2>1. CASE l = j
    <3>1. x \in (from + 1)..to
      BY <1>a, <2>1 DEF from, pos
    <3>2. x \in Int /\ from + 1 <= x /\ x <= to
      BY <1>1, <1>4, <3>1
    <3>3. x - f[j - 1] = Len(d) + (x - from)
      BY <1>1, <1>2, <3>2
    <3>4. x - f[j - 1] \in 1..Len(e)
      <4>1. Len(e) = Len(d) + (to - from)
        BY <1>5
      <4> DEFINE k == x - from
                 n == to - from
      <4>2. k \in Int /\ 1 <= k /\ k <= n /\ n \in Int
        BY <1>1, <1>4, <3>2
      <4> HIDE DEF k, n
      <4>3. Len(d) + k \in 1..(Len(d) + n)
        BY <1>2, <4>2
      <4> QED BY <3>3, <4>1, <4>3 DEF k, n
    <3> QED BY <1>5, <2>1, <3>1, <3>3, <3>4
  <2>2. CASE l # j
    <3>1. l \in 1..(j - 1)
      BY <2>2
    <3>2. x - f[l - 1] \in 1..Len(d) /\ d[x - f[l - 1]] = arr[x]
      BY <3>1 DEF Kept, IsKept, d
    <3>3. x - f[l - 1] \in 1..Len(e)
      BY <1>2, <1>7, <3>2
    <3> QED BY <1>5, <3>2, <3>3
  <2> QED BY <2>1, <2>2
<1>9. IsKept(arr, points, f, j, e)
  BY <1>8 DEF IsKept
<1> QED BY <1>6, <1>9, <1>7 DEF Kept

\* What the loop over the points keeps.
LEMMA KeepsAll ==
  ASSUME NEW arr \in Seq(Items), NEW points, NEW f, Found(arr, points, f)
  PROVE  LET c == Keeps(arr, points)[Len(points)]
         IN  c \in KeepStates /\ Kept(arr, points, f, Len(points), c)
<1> DEFINE n == Len(points)
           b == [data |-> <<>>, arrIdx |-> 0]
           S == [j \in 0..n |-> {c \in KeepStates : Kept(arr, points, f, j, c)}]
           F == [j \in 1..n |-> [c \in S[j - 1] |-> KeepFirst(arr, c, points[j])]]
<1>1. n \in Nat
  BY DEF Found
<1>2. b \in S[0]
  <2>1. b \in KeepStates /\ b.data = <<>> /\ b.arrIdx = 0
    BY DEF KeepStates
  <2>2. EndOf(points, 0) = 0 /\ f[0] = 0 /\ IsKept(arr, points, f, 0, <<>>)
    BY DEF EndOf, Found, IsLeftOut, IsKept
  <2> HIDE DEF b
  <2>3. Kept(arr, points, f, 0, b)
    BY <2>1, <2>2 DEF Kept
  <2> QED BY <1>1, <2>1, <2>3
<1>3. ASSUME NEW j \in 1..n, NEW c \in S[j - 1]
      PROVE  F[j][c] = KeepFirst(arr, c, points[j]) /\ KeepFirst(arr, c, points[j]) \in S[j]
  <2>1. j - 1 \in 0..n /\ j \in 0..n
    BY <1>1
  <2>2. c \in KeepStates /\ Kept(arr, points, f, j - 1, c)
    BY <2>1
  <2> DEFINE u == KeepFirst(arr, c, points[j])
  <2>3. u \in KeepStates /\ Kept(arr, points, f, j, u)
    BY <2>2, KeepKeeps
  <2> QED BY <2>1, <2>3
<1> DEFINE IsKeep(g) == g = [j \in 0..n |-> IF j = 0 THEN b ELSE KeepFirst(arr, g[j - 1], points[j])]
<1>4. S[n] = {c \in KeepStates : Kept(arr, points, f, n, c)}
  BY <1>1
<1>5. Keeps(arr, points) = CHOOSE g : IsKeep(g)
  BY DEF Keeps
<1> HIDE DEF S, F, b, n
<1>6. PICK h : IsLoop(h, n, b, F) /\ \A j \in 0..n : h[j] \in S[j]
  <2>1. \A j \in 1..n : \A c \in S[j - 1] : F[j][c] \in S[j]
    BY <1>3
  <2> QED BY <1>1, <1>2, <2>1, LoopExists
<1>7. IsKeep(h)
  <2>1. ASSUME NEW j \in 0..n PROVE h[j] = IF j = 0 THEN b ELSE KeepFirst(arr, h[j - 1], points[j])
    <3>1. h[j] = IF j = 0 THEN b ELSE F[j][h[j - 1]]
      BY <1>6 DEF IsLoop
    <3>2. j # 0 => j \in 1..n /\ j - 1 \in 0..n
      BY <1>1
    <3> QED BY <1>3, <1>6, <3>1, <3>2
  <2>2. h = [j \in 0..n |-> h[j]]
    BY <1>6 DEF IsLoop
  <2> QED BY <2>1, <2>2
<1> DEFINE g == Keeps(arr, points)
<1>8. IsKeep(g)
  BY <1>5, <1>7
<1> HIDE DEF g
<1>9. g[n] \in S[n]
  <2>1. g[0] \in S[0]
    BY <1>1, <1>2, <1>8
  <2>2. ASSUME NEW j \in 1..n, g[j - 1] \in S[j - 1] PROVE g[j] \in S[j]
    <3>1. g[j] = KeepFirst(arr, g[j - 1], points[j])
      BY <1>1, <1>8
    <3> QED BY <1>3, <2>2, <3>1
  <2> HIDE DEF IsKeep
  <2> QED BY <1>1, <2>1, <2>2, LoopKeeps
<1> QED BY <1>4, <1>9 DEF g, n

\* Where the last run ends.
LEMMA LastEnd ==
  ASSUME NEW arr \in Seq(Items), NEW points, NEW f, Found(arr, points, f)
  PROVE  LET n == Len(points)
         IN  n \in Nat /\ EndOf(points, n) \in Nat /\ EndOf(points, n) <= Len(arr) /\ f[n] \in Nat
<1>1. Len(points) \in Nat /\ points \in Seq(Points)
  BY DEF Found
<1>2. CASE Len(points) = 0
  BY <1>2 DEF EndOf, Found, IsLeftOut
<1>3. CASE Len(points) # 0
  <2>1. Len(points) \in 1..Len(points)
    BY <1>1, <1>3
  <2>2. /\ points[Len(points)].pos \in Nat /\ points[Len(points)].length \in Nat
        /\ EndOf(points, Len(points)) = points[Len(points)].pos + points[Len(points)].length
        /\ EndOf(points, Len(points)) <= Len(arr) /\ f[Len(points)] \in Nat
    BY <2>1, PointFacts
  <2> QED BY <1>1, <2>2
<1> QED BY <1>2, <1>3

\* Behind the last run everything is kept, and nothing is kept that was not in
\* the array.
LEMMA AllKept ==
  ASSUME NEW arr \in Seq(Items), NEW points, NEW f, Found(arr, points, f)
  PROVE  LET data == Remaining(arr, points)
             n == Len(points)
         IN  /\ data \in Seq(Items) /\ Len(data) = Len(arr) - f[n]
             /\ IsKept(arr, points, f, n, data)
             /\ \A x \in (EndOf(points, n) + 1)..Len(arr) :
                  x - f[n] \in 1..Len(data) /\ data[x - f[n]] = arr[x]
<1> DEFINE n == Len(points)
           c == Keeps(arr, points)[n]
           d == c.data
           from == EndOf(points, n)
           to == Len(arr)
           e == d \o SubSeq(arr, from + 1, to)
<1>1. c \in KeepStates /\ Kept(arr, points, f, n, c)
  BY KeepsAll
<1>2. from \in Nat /\ to \in Nat /\ from <= to /\ f[n] \in Nat
  BY LastEnd
<1>3. d \in Seq(Items) /\ Len(d) = from - f[n] /\ Len(d) \in Nat /\ IsKept(arr, points, f, n, d)
  <2> HIDE DEF c, n
  <2> QED BY <1>1 DEF KeepStates, Kept
<1>4. Remaining(arr, points) = e
  <2>1. c.arrIdx = from
    BY <1>1 DEF Kept
  <2> QED BY <2>1 DEF Remaining
<1>5. Follows(e, d, arr, from, to)
  <2> HIDE DEF from, d
  <2> QED BY <1>2, <1>3, Behind
<1>a. to = Len(arr)
  OBVIOUS
<1> HIDE DEF c, d, from, to, e, n
<1>6. Len(e) = Len(arr) - f[n] /\ Len(e) \in Nat /\ Len(e) >= Len(d)
  <2>1. Len(e) \in Nat /\ Len(e) = Len(d) + (to - from)
    BY <1>5 DEF Follows
  <2>2. Len(d) + (to - from) = to - f[n]
    BY <1>2, <1>3
  <2>3. Len(d) + (to - from) >= Len(d)
    BY <1>2, <1>3
  <2> QED BY <1>a, <2>1, <2>2, <2>3
<1>7. IsKept(arr, points, f, n, e)
  <2>1. ASSUME NEW l \in 1..n, NEW x \in (EndOf(points, l - 1) + 1)..(points[l].pos + 1)
        PROVE  x - f[l - 1] \in 1..Len(e) /\ e[x - f[l - 1]] = arr[x]
    <3>1. x - f[l - 1] \in 1..Len(d) /\ d[x - f[l - 1]] = arr[x]
      BY <1>3 DEF IsKept
    <3>2. x - f[l - 1] \in 1..Len(e)
      BY <1>3, <1>6, <3>1
    <3> QED BY <1>5, <3>1, <3>2 DEF Follows
  <2> QED BY <2>1 DEF IsKept
<1>8. ASSUME NEW x \in (from + 1)..to PROVE x - f[n] \in 1..Len(e) /\ e[x - f[n]] = arr[x]
  <2>1. x \in Int /\ from + 1 <= x /\ x <= to
    BY <1>2
  <2>2. x - f[n] = Len(d) + (x - from)
    BY <1>2, <1>3, <2>1
  <2>3. 1 <= x - f[n] /\ x - f[n] <= to - f[n] /\ x - f[n] \in Int
    <3>1. f[n] <= from
      BY <1>2, <1>3
    <3> QED BY <1>2, <2>1, <3>1
  <2>4. Len(e) = to - f[n]
    BY <1>6, <1>a
  <2>5. x - f[n] \in 1..Len(e)
    BY <1>6, <2>3, <2>4
  <2> QED BY <1>5, <2>2, <2>5 DEF Follows
<1> QED BY <1>4, <1>5, <1>6, <1>7, <1>8 DEF Follows, n, from, to

-----------------------------------------------------------------------------
(* Run-length encoding: what decompress() makes of it *)

\* The n items behind the m-th one.
Slice(arr, m, n) == SubSeq(arr, m + 1, m + n)

\* The items of d behind the k-th one are those of arr behind the m-th one.
Alike(d, k, arr, m, n) ==
  k + n <= Len(d) /\ m + n <= Len(arr) /\ \A i \in 1..n : d[k + i] = arr[m + i]

\* Equal items make equal sequences.
LEMMA SameItems ==
  ASSUME NEW d \in Seq(Items), NEW arr \in Seq(Items), NEW k \in Nat, NEW m \in Nat, NEW n \in Nat,
         Alike(d, k, arr, m, n)
  PROVE  Slice(d, k, n) = Slice(arr, m, n)
<1> DEFINE u == SubSeq(d, k + 1, k + n)
           v == SubSeq(arr, m + 1, m + n)
<1>1. u \in Seq(Items) /\ Len(u) = n /\ \A i \in 1..n : u[i] = d[k + i]
  BY DEF Alike
<1>2. v \in Seq(Items) /\ Len(v) = n /\ \A i \in 1..n : v[i] = arr[m + i]
  BY DEF Alike
<1> HIDE DEF u, v
<1>3. u = v
  BY <1>1, <1>2, SeqEqual DEF Alike
<1> QED BY <1>3 DEF u, v, Slice

\* After the turn for the j-th point: the array up to the end of its run.
Unpacked(arr, points, f, j, c) ==
  /\ c.output = SubSeq(arr, 1, EndOf(points, j))
  /\ c.k = EndOf(points, j) - f[j]

ExpandStates == [output : Seq(Items), k : Int]

LEMMA ExpandUnpacks ==
  ASSUME NEW arr \in Seq(Items), NEW points, NEW f, Found(arr, points, f), NEW j \in 1..Len(points),
         NEW data \in Seq(Items), IsKept(arr, points, f, Len(points), data),
         NEW c \in ExpandStates, Unpacked(arr, points, f, j - 1, c)
  PROVE  LET u == Expand(data, c, points[j]) IN u \in ExpandStates /\ Unpacked(arr, points, f, j, u)
<1> DEFINE u == Expand(data, c, points[j])
           pos == points[j].pos
           length == points[j].length
           from == EndOf(points, j - 1)
           o == c.output
           k == c.k
           before == pos - Len(o)
           q == SubSeq(data, k + 1, k + before)
           r == [i \in 1..length |-> data[k + before + 1]]
<1>0. j \in Nat /\ Len(points) \in Nat
  BY DEF Found
<1>1. /\ pos \in Nat /\ length \in Nat /\ length >= 1 /\ from \in Nat /\ from <= pos
      /\ EndOf(points, j) = pos + length /\ pos + length <= Len(arr)
      /\ f[j] \in Nat /\ f[j - 1] \in Nat /\ f[j] = f[j - 1] + length - 1
      /\ \A m \in 1..length : arr[pos + m] = arr[pos + 1]
  BY PointFacts
<1>2. o = SubSeq(arr, 1, from) /\ k = from - f[j - 1] /\ k \in Int /\ o \in Seq(Items)
  BY DEF ExpandStates, Unpacked
<1>3. u = [output |-> o \o q \o r, k |-> k + before + 1]
  BY DEF Expand
<1>4. ASSUME NEW x \in (from + 1)..(pos + 1) PROVE x - f[j - 1] \in 1..Len(data) /\ data[x - f[j - 1]] = arr[x]
  BY DEF IsKept
<1>b. before = pos - Len(o) /\ q = SubSeq(data, k + 1, k + before)
      /\ r = [i \in 1..length |-> data[k + before + 1]]
  OBVIOUS
<1> HIDE DEF u, pos, length, from, o, k, before, q, r
<1>5. Len(o) = from /\ before = pos - from /\ before \in Nat
  <2>1. Len(o) = from
    BY <1>1, <1>2
  <2> QED BY <1>1, <1>b, <2>1
<1>6. k \in Nat
  <2>1. from + 1 \in (from + 1)..(pos + 1)
    BY <1>1
  <2>2. (from + 1) - f[j - 1] \in 1..Len(data)
    BY <1>4, <2>1, Zenon
  <2>3. (from + 1) - f[j - 1] >= 1
    BY <2>2
  <2> QED BY <1>1, <1>2, <2>3
<1>7. k + before = pos - f[j - 1] /\ k + before + 1 <= Len(data) /\ data[k + before + 1] = arr[pos + 1]
  <2>1. pos + 1 \in (from + 1)..(pos + 1)
    BY <1>1
  <2>2. (pos + 1) - f[j - 1] \in 1..Len(data) /\ data[(pos + 1) - f[j - 1]] = arr[pos + 1]
    BY <1>4, <2>1, Zenon
  <2>3. k + before + 1 = (pos + 1) - f[j - 1] /\ k + before = pos - f[j - 1]
    BY <1>1, <1>2, <1>5
  <2>4. (pos + 1) - f[j - 1] <= Len(data)
    BY <2>2
  <2> QED BY <2>2, <2>3, <2>4
<1>8. q = SubSeq(arr, from + 1, pos)
  <2>1. ASSUME NEW i \in 1..before PROVE data[k + i] = arr[from + i]
    <3>1. from + i \in (from + 1)..(pos + 1)
      BY <1>1, <1>5
    <3>2. (from + i) - f[j - 1] = k + i
      <4>1. from \in Nat /\ f[j - 1] \in Nat /\ k = from - f[j - 1] /\ i \in Nat
        BY <1>1, <1>2, <1>5
      <4> QED BY <4>1
    <3>3. data[(from + i) - f[j - 1]] = arr[from + i]
      BY <1>4, <3>1, Zenon
    <3> QED BY <3>2, <3>3
  <2>4. from + before = pos
    BY <1>1, <1>5
  <2>2. k + before <= Len(data) /\ from + before <= Len(arr)
    <3>1. Len(data) \in Nat /\ Len(arr) \in Nat
      OBVIOUS
    <3>2. k + before <= Len(data)
      BY <1>5, <1>6, <1>7, <3>1
    <3>3. pos <= Len(arr)
      BY <1>1, <3>1
    <3> QED BY <2>4, <3>2, <3>3
  <2>3. Slice(data, k, before) = Slice(arr, from, before)
    <3>1. from \in Nat
      BY <1>1
    <3>2. Alike(data, k, arr, from, before)
      BY <2>1, <2>2 DEF Alike
    <3> QED BY <1>5, <1>6, <3>1, <3>2, SameItems
  <2> QED BY <1>b, <2>3, <2>4 DEF Slice
<1>9. r = SubSeq(arr, pos + 1, pos + length)
  <2> DEFINE v == SubSeq(arr, pos + 1, pos + length)
  <2>1. v \in Seq(Items) /\ Len(v) = length /\ \A i \in 1..length : v[i] = arr[pos + i]
    BY <1>1
  <2>2. arr[pos + 1] \in Items
    BY <1>1
  <2>3. r \in Seq(Items) /\ Len(r) = length /\ \A i \in 1..length : r[i] = arr[pos + 1]
    BY <1>1, <1>7, <1>b, <2>2
  <2>4. \A i \in 1..length : r[i] = v[i]
    BY <1>1, <2>1, <2>3
  <2> HIDE DEF v
  <2>5. r = v
    BY <2>1, <2>3, <2>4, SeqEqual
  <2> QED BY <2>5 DEF v
<1>10. o \o q = SubSeq(arr, 1, pos)
  <2>1. 1 \in 1..(Len(arr) + 1) /\ from \in (1 - 1)..Len(arr) /\ pos \in from..Len(arr)
    BY <1>1
  <2> QED BY <1>2, <1>8, <2>1, ConcatAdjacentSubSeq
<1>11. o \o q \o r = SubSeq(arr, 1, pos + length)
  <2>1. 1 \in 1..(Len(arr) + 1) /\ pos \in (1 - 1)..Len(arr) /\ pos + length \in pos..Len(arr)
    BY <1>1
  <2> QED BY <1>9, <1>10, <2>1, ConcatAdjacentSubSeq
<1>12. u.output = SubSeq(arr, 1, EndOf(points, j)) /\ u.k = k + before + 1
  BY <1>1, <1>3, <1>11
<1>13. k + before + 1 = EndOf(points, j) - f[j]
  <2>1. (pos + length) - f[j] = pos - f[j - 1] + 1
    BY <1>1
  <2> QED BY <1>1, <1>7, <2>1
<1>14. u \in ExpandStates
  <2>1. SubSeq(arr, 1, pos + length) \in Seq(Items)
    BY <1>1
  <2>2. k + before + 1 \in Int
    BY <1>5, <1>6
  <2> QED BY <1>3, <1>11, <2>1, <2>2 DEF ExpandStates
<1>15. Unpacked(arr, points, f, j, u)
  BY <1>12, <1>13 DEF Unpacked
<1> QED BY <1>14, <1>15 DEF u

\* What the loop over the points unpacks.
LEMMA ExpandsAll ==
  ASSUME NEW arr \in Seq(Items), NEW p, NEW f, Found(arr, p.points, f),
         p.data \in Seq(Items), IsKept(arr, p.points, f, Len(p.points), p.data)
  PROVE  LET c == Expands(p)[Len(p.points)]
         IN  c \in ExpandStates /\ Unpacked(arr, p.points, f, Len(p.points), c)
<1> DEFINE points == p.points
           data == p.data
           n == Len(points)
           b == [output |-> <<>>, k |-> 0]
           S == [j \in 0..n |-> {c \in ExpandStates : Unpacked(arr, points, f, j, c)}]
           F == [j \in 1..n |-> [c \in S[j - 1] |-> Expand(data, c, points[j])]]
<1>1. n \in Nat
  BY DEF Found
<1>2. b \in S[0]
  <2>1. b \in ExpandStates /\ b.output = <<>> /\ b.k = 0
    BY DEF ExpandStates
  <2>2. EndOf(points, 0) = 0 /\ f[0] = 0
    BY DEF EndOf, Found, IsLeftOut
  <2>3. SubSeq(arr, 1, 0) = <<>>
    BY SubSeqEmpty
  <2> HIDE DEF b
  <2>4. Unpacked(arr, points, f, 0, b)
    BY <2>1, <2>2, <2>3 DEF Unpacked
  <2> QED BY <1>1, <2>1, <2>4
<1>3. ASSUME NEW j \in 1..n, NEW c \in S[j - 1]
      PROVE  F[j][c] = Expand(data, c, points[j]) /\ Expand(data, c, points[j]) \in S[j]
  <2>1. j - 1 \in 0..n /\ j \in 0..n
    BY <1>1
  <2>2. c \in ExpandStates /\ Unpacked(arr, points, f, j - 1, c)
    BY <2>1
  <2> DEFINE u == Expand(data, c, points[j])
  <2>3. u \in ExpandStates /\ Unpacked(arr, points, f, j, u)
    BY <2>2, ExpandUnpacks
  <2> QED BY <2>1, <2>3
<1> DEFINE IsExpand(g) == g = [j \in 0..n |-> IF j = 0 THEN b ELSE Expand(data, g[j - 1], points[j])]
<1>4. S[n] = {c \in ExpandStates : Unpacked(arr, points, f, n, c)}
  BY <1>1
<1>5. Expands(p) = CHOOSE g : IsExpand(g)
  BY DEF Expands
<1> HIDE DEF S, F, b, n, points, data
<1>6. PICK h : IsLoop(h, n, b, F) /\ \A j \in 0..n : h[j] \in S[j]
  <2>1. \A j \in 1..n : \A c \in S[j - 1] : F[j][c] \in S[j]
    BY <1>3
  <2> QED BY <1>1, <1>2, <2>1, LoopExists
<1>7. IsExpand(h)
  <2>1. ASSUME NEW j \in 0..n PROVE h[j] = IF j = 0 THEN b ELSE Expand(data, h[j - 1], points[j])
    <3>1. h[j] = IF j = 0 THEN b ELSE F[j][h[j - 1]]
      BY <1>6 DEF IsLoop
    <3>2. j # 0 => j \in 1..n /\ j - 1 \in 0..n
      BY <1>1
    <3> QED BY <1>3, <1>6, <3>1, <3>2
  <2>2. h = [j \in 0..n |-> h[j]]
    BY <1>6 DEF IsLoop
  <2> QED BY <2>1, <2>2
<1> DEFINE g == Expands(p)
<1>8. IsExpand(g)
  BY <1>5, <1>7
<1> HIDE DEF g
<1>9. g[n] \in S[n]
  <2>1. g[0] \in S[0]
    BY <1>1, <1>2, <1>8
  <2>2. ASSUME NEW j \in 1..n, g[j - 1] \in S[j - 1] PROVE g[j] \in S[j]
    <3>1. g[j] = Expand(data, g[j - 1], points[j])
      BY <1>1, <1>8
    <3> QED BY <1>3, <2>2, <3>1
  <2> HIDE DEF IsExpand
  <2> QED BY <1>1, <2>1, <2>2, LoopKeeps
<1> QED BY <1>4, <1>9 DEF g, n, points

\* decompress() makes of what was kept the array that it was kept of.
LEMMA AllUnpacked ==
  ASSUME NEW arr \in Seq(Items), NEW p, NEW f, Found(arr, p.points, f),
         p.data = Remaining(arr, p.points), p.numItems = Len(arr)
  PROVE  Expanded(p) = arr
<1> DEFINE points == p.points
           data == p.data
           n == Len(points)
           c == Expands(p)[n]
           from == EndOf(points, n)
           o == c.output
           rest == p.numItems - Len(o)
           to == Len(arr)
<1>1. /\ data \in Seq(Items) /\ Len(data) = Len(arr) - f[n] /\ IsKept(arr, points, f, n, data)
      /\ \A x \in (from + 1)..to : x - f[n] \in 1..Len(data) /\ data[x - f[n]] = arr[x]
  BY AllKept
<1>2. c \in ExpandStates /\ Unpacked(arr, points, f, n, c)
  BY <1>1, ExpandsAll
<1>3. from \in Nat /\ from <= to /\ to \in Nat /\ f[n] \in Nat
  BY LastEnd
<1>4. o = SubSeq(arr, 1, from) /\ c.k = from - f[n] /\ o \in Seq(Items)
  <2> HIDE DEF c, n
  <2> QED BY <1>2 DEF ExpandStates, Unpacked
<1>5. Expanded(p) = o \o SubSeq(data, c.k + 1, c.k + rest)
  BY DEF Expanded
<1>6. rest = to - Len(o)
  OBVIOUS
<1>a. to = Len(arr)
  OBVIOUS
<1> HIDE DEF points, data, n, c, from, o, rest, to
<1>7. Len(o) = from /\ rest = to - from /\ rest \in Nat
  <2>1. Len(o) = from
    BY <1>3, <1>4, <1>a
  <2> QED BY <1>3, <1>6, <2>1
<1>8. CASE rest = 0
  <2>1. from = to
    BY <1>3, <1>7, <1>8
  <2>2. SubSeq(data, c.k + 1, c.k + rest) = <<>>
    <3>1. c.k + 1 \in Int /\ c.k + 0 \in Int /\ c.k + 0 < c.k + 1
      BY <1>3, <1>4
    <3> QED BY <1>8, <3>1, SubSeqEmpty
  <2>3. o = arr
    BY <1>3, <1>4, <1>a, <2>1, SubSeqFull
  <2>4. o \o <<>> = o
    BY <1>4, ConcatEmptySeq
  <2> QED BY <1>5, <2>2, <2>3, <2>4
<1>9. CASE rest # 0
  <2>1. f[n] <= from /\ c.k \in Nat
    <3>1. from + 1 \in (from + 1)..to
      BY <1>3, <1>7, <1>9
    <3>2. (from + 1) - f[n] \in 1..Len(data)
      BY <1>1, <3>1, Zenon
    <3>3. (from + 1) - f[n] >= 1
      BY <3>2
    <3> QED BY <1>3, <1>4, <3>3
  <2>2. ASSUME NEW i \in 1..rest PROVE data[c.k + i] = arr[from + i]
    <3>1. from + i \in (from + 1)..to
      BY <1>3, <1>7
    <3>2. (from + i) - f[n] = c.k + i
      BY <1>3, <1>4, <1>7
    <3>3. data[(from + i) - f[n]] = arr[from + i]
      BY <1>1, <3>1, Zenon
    <3> QED BY <3>2, <3>3
  <2>3. from + rest = to /\ from + rest <= Len(arr)
    BY <1>3, <1>7, <1>a
  <2>4. c.k + rest <= Len(data)
    <3>1. c.k + rest = to - f[n]
      BY <1>3, <1>4, <1>7
    <3>2. Len(data) = to - f[n] /\ to - f[n] \in Int
      BY <1>1, <1>3, <1>a
    <3> QED BY <3>1, <3>2
  <2>5. Slice(data, c.k, rest) = Slice(arr, from, rest)
    <3>1. Alike(data, c.k, arr, from, rest)
      BY <2>2, <2>3, <2>4 DEF Alike
    <3> QED BY <1>1, <1>3, <1>7, <2>1, <3>1, SameItems
  <2>6. SubSeq(data, c.k + 1, c.k + rest) = SubSeq(arr, from + 1, to)
    BY <2>3, <2>5 DEF Slice
  <2>7. SubSeq(arr, 1, from) \o SubSeq(arr, from + 1, to) = SubSeq(arr, 1, to)
    <3>1. 1 \in 1..(Len(arr) + 1) /\ from \in (1 - 1)..Len(arr) /\ to \in from..Len(arr)
      BY <1>3, <1>a
    <3> QED BY <3>1, ConcatAdjacentSubSeq
  <2>8. SubSeq(arr, 1, to) = arr
    BY <1>a, SubSeqFull
  <2> QED BY <1>4, <1>5, <2>6, <2>7, <2>8
<1> QED BY <1>8, <1>9

-----------------------------------------------------------------------------
(* Run-length encoding: both together *)

Corrupted(p) == PointSize * Len(p.points) >= SizeOf(p) - 3 * u16Size

\* The result of decompress().
Result(p, itemSize, outMaxItems) ==
  IF p.itemSize # itemSize \/ p.numItems > outMaxItems \/ Corrupted(p) THEN Threw ELSE Expanded(p)

\* What compress() returns, for an array of any length.
LEMMA CompressedFacts ==
  ASSUME NEW arr \in Seq(Items), NEW itemSize \in Nat \ {0}
  PROVE  LET p == Compressed(arr, itemSize)
         IN  /\ p.numItems = Len(arr) /\ p.itemSize = itemSize
             /\ SizeOf(p) = p.allocated /\ SizeOf(p) <= 3 * u16Size + itemSize * Len(arr)
             /\ Corrupted(p) <=> arr = <<>>
             /\ Expanded(p) = arr
<1> DEFINE s == Scans(arr, itemSize)[Len(arr)]
           p == Compressed(arr, itemSize)
           points == p.points
           n == Len(points)
           data == p.data
<1>1. s \in ScanStates /\ Scanned(arr, itemSize, Len(arr), s)
  BY ScanFinds
<1>2. p = [numItems |-> Len(arr), itemSize |-> itemSize, points |-> s.compressedPos,
           data |-> Remaining(arr, s.compressedPos), allocated |-> headerSize(s.compressedPos) + s.compBytes]
  BY DEF Compressed
<1>3. /\ p.numItems = Len(arr) /\ p.itemSize = itemSize /\ points = s.compressedPos
      /\ data = Remaining(arr, points) /\ p.allocated = headerSize(points) + s.compBytes
  <2> HIDE DEF s
  <2> QED BY <1>2
<1> HIDE DEF s, p
<1>4. PICK f : /\ IsLeftOut(f, points) /\ Pays(f, points, itemSize)
               /\ s.compBytes = itemSize * (Len(arr) - f[n])
  BY <1>1, <1>3 DEF Scanned
<1>5. Found(arr, points, f)
  <2>1. points \in Seq(Points) /\ s.t \in Nat /\ s.t <= Len(arr) /\ RunsOf(arr, points, s.t)
    BY <1>1, <1>3 DEF ScanStates, Scanned
  <2>2. ASSUME NEW j \in 1..Len(points) PROVE EndOf(points, j) <= Len(arr)
    <3>1. points[j] \in Points /\ j # 0
      BY <2>1
    <3>2. EndOf(points, j) \in Nat
      BY <3>1 DEF EndOf, Points
    <3>3. EndOf(points, j) <= s.t
      BY <2>1 DEF RunsOf
    <3> QED BY <2>1, <3>2, <3>3
  <2>3. RunsOf(arr, points, Len(arr))
    BY <2>1, <2>2 DEF RunsOf
  <2> QED BY <1>4, <2>1, <2>3 DEF Found
<1>6. /\ data \in Seq(Items) /\ Len(data) = Len(arr) - f[n]
      /\ n \in Nat /\ f[n] \in Nat /\ EndOf(points, n) \in Nat /\ EndOf(points, n) <= Len(arr)
  BY <1>3, <1>5, AllKept, LastEnd
<1>7. Expanded(p) = arr
  BY <1>3, <1>5, AllUnpacked
<1>8. headerSize(points) = 6 + 4 * n /\ PointSize = 4 /\ 3 * u16Size = 6
  BY DEF headerSize, PointSize, u16Size
<1>9. SizeOf(p) = (6 + 4 * n) + itemSize * Len(data)
  BY <1>3, <1>8 DEF SizeOf
<1>10. 4 * n <= itemSize * f[n] /\ f[n] + n <= EndOf(points, n)
  BY <1>4, <1>8 DEF Pays
<1> HIDE DEF points, n, data
<1>11. SizeOf(p) = p.allocated
  BY <1>3, <1>4, <1>6, <1>8, <1>9
<1>12. SizeOf(p) <= 3 * u16Size + itemSize * Len(arr)
  <2> DEFINE a == itemSize * f[n]
             c == itemSize * Len(arr)
  <2>1. itemSize * (Len(arr) - f[n]) = c - a /\ a \in Int /\ c \in Int
    BY <1>6
  <2> HIDE DEF a, c
  <2>2. 4 * n <= a /\ SizeOf(p) = (6 + 4 * n) + (c - a)
    BY <1>6, <1>9, <1>10, <2>1 DEF a
  <2>3. SizeOf(p) <= 6 + c
    BY <1>6, <2>1, <2>2
  <2> QED BY <1>8, <2>3 DEF c
<1>13. Len(data) = 0 <=> arr = <<>>
  <2>1. CASE n = 0
    <3>1. f[n] = 0
      BY <1>4, <2>1 DEF IsLeftOut
    <3> QED BY <1>6, <3>1
  <2>2. CASE n # 0
    <3>1. f[n] < Len(arr)
      BY <1>6, <1>10, <2>2
    <3> QED BY <1>6, <3>1
  <2> QED BY <2>1, <2>2
<1>14. Corrupted(p) <=> Len(data) = 0
  <2> DEFINE b == itemSize * Len(data)
  <2>1. Len(data) \in Nat /\ b \in Nat /\ (b = 0 <=> Len(data) = 0)
    BY <1>6
  <2> HIDE DEF b
  <2>2. SizeOf(p) - 3 * u16Size = 4 * n + b
    BY <1>6, <1>8, <1>9, <2>1 DEF b
  <2>3. Corrupted(p) <=> 4 * n >= 4 * n + b
    BY <1>8, <2>2 DEF Corrupted, points, n
  <2> QED BY <1>6, <2>1, <2>3
<1> QED BY <1>3, <1>7, <1>11, <1>12, <1>13, <1>14 DEF p

\* What was packed and unpacked.
RleInv ==
  packed \notin {NoArray, Endless} =>
    \E itemSize \in ItemSizes :
      /\ array \in Seq(Items) /\ packed = Compressed(array, itemSize)
      /\ unpacked # NoArray =>
           \E by, room : unpacked = [by |-> by, room |-> room, output |-> Result(packed, by, room)]

LEMMA RleInvariant == RleSpec => []RleInv
<1>1. RleInit => RleInv
  BY DEF RleInit, RleInv
<1>2. RleInv /\ [RleNext]_rleVars => RleInv'
  <2> SUFFICES ASSUME RleInv, [RleNext]_rleVars PROVE RleInv'
    OBVIOUS
  <2>1. ASSUME NEW n \in 0..CountMax, NEW itemSize \in ItemSizes, NEW arr \in [1..n -> Items],
               packed = NoArray, compress(arr, itemSize)
        PROVE  RleInv'
    <3>1. arr \in Seq(Items)
      OBVIOUS
    <3>2. packed' = Endless \/ packed' = Compressed(arr, itemSize)
      BY <2>1 DEF compress
    <3>3. array' = arr /\ unpacked' = NoArray
      BY <2>1 DEF compress
    <3> QED BY <3>1, <3>2, <3>3 DEF RleInv
  <2>2. ASSUME NEW itemSize, NEW outMaxItems, decompress(itemSize, outMaxItems) PROVE RleInv'
    <3>1. array' = array /\ packed' = packed
      BY <2>2 DEF decompress
    <3>2. unpacked' = [by |-> itemSize, room |-> outMaxItems, output |-> Result(packed, itemSize, outMaxItems)]
      BY <2>2 DEF decompress, Result, Corrupted
    <3> QED BY <3>1, <3>2 DEF RleInv
  <2>3. CASE UNCHANGED rleVars
    BY <2>3 DEF RleInv, rleVars
  <2> QED BY <2>1, <2>2, <2>3 DEF RleNext
<1> QED BY <1>1, <1>2, PTL DEF RleSpec

\* What compress() writes fills what it allocated and is never longer than the
\* array with an empty header, and decompress() gives the array back, for arrays
\* of every length and items of every size (rle.tpp:12-120).
THEOREM RunsAlwaysRoundTrip == ASSUME RleAssumption PROVE RleSpec => []RunsRoundTrip
<1>1. RleInv => RunsRoundTrip
  <2> SUFFICES ASSUME RleInv, packed \notin {NoArray, Endless}
      PROVE /\ SizeOf(packed) = packed.allocated
            /\ SizeOf(packed) <= 3 * u16Size + packed.itemSize * Len(array)
            /\ unpacked # NoArray =>
                 LET room == getItems(unpacked.by)
                 IN  unpacked.output = IF array = <<>> \/ room = Threw THEN Threw
                                       ELSE IF room > unpacked.room THEN Threw ELSE array
    BY DEF RunsRoundTrip
  <2>1. PICK itemSize \in ItemSizes :
          /\ array \in Seq(Items) /\ packed = Compressed(array, itemSize)
          /\ unpacked # NoArray =>
               \E by, room : unpacked = [by |-> by, room |-> room, output |-> Result(packed, by, room)]
    BY DEF RleInv
  <2>2. itemSize \in Nat \ {0} /\ Threw \notin Nat
    BY DEF RleAssumption
  <2>3. /\ packed.numItems = Len(array) /\ packed.itemSize = itemSize
        /\ SizeOf(packed) = packed.allocated /\ SizeOf(packed) <= 3 * u16Size + itemSize * Len(array)
        /\ Corrupted(packed) <=> array = <<>>
        /\ Expanded(packed) = array
    BY <2>1, <2>2, CompressedFacts
  <2>4. ASSUME unpacked # NoArray
        PROVE  LET room == getItems(unpacked.by)
               IN  unpacked.output = IF array = <<>> \/ room = Threw THEN Threw
                                     ELSE IF room > unpacked.room THEN Threw ELSE array
    <3>1. PICK by, room : unpacked = [by |-> by, room |-> room, output |-> Result(packed, by, room)]
      BY <2>1, <2>4
    <3>2. unpacked.by = by /\ unpacked.room = room /\ unpacked.output = Result(packed, by, room)
      BY <3>1
    <3>3. CASE by # itemSize
      BY <2>3, <3>2, <3>3 DEF getItems, Result
    <3>4. CASE by = itemSize
      <4>1. getItems(by) = Len(array) /\ Len(array) # Threw
        BY <2>1, <2>2, <2>3, <3>4 DEF getItems
      <4> QED BY <2>3, <3>2, <3>4, <4>1 DEF Result
    <3> QED BY <3>3, <3>4
  <2> QED BY <2>3, <2>4
<1> QED BY <1>1, RleInvariant, PTL

-----------------------------------------------------------------------------
(* Images: pixels are numbered row by row, and their bytes do not overlap *)

\* What is less than the width does not wrap.
LEMMA NoWrap ==
  ASSUME NEW W \in Nat \ {0}, NEW n \in 0..(W - 1)
  PROVE  n % W = n
OBVIOUS

\* A factor keeps an order.
LEMMA Product ==
  ASSUME NEW a \in Nat, NEW b \in Nat, NEW c \in Nat, a <= b
  PROVE  a * c <= b * c
OBVIOUS

\* Pixels are counted row by row.
CellNo(w, x, y) == y * w + x

\* The numbers of the pixels are less than their number.
LEMMA Cell ==
  ASSUME NEW w \in Nat, NEW h \in Nat, NEW x \in 0..(w - 1), NEW y \in 0..(h - 1)
  PROVE  CellNo(w, x, y) \in 0..(w * h - 1)
BY DEF CellNo

\* Pixels of different rows have different numbers.
LEMMA LaterRow ==
  ASSUME NEW w \in Nat, NEW a \in Nat, NEW b \in Nat, a < b, NEW p \in 0..(w - 1), NEW q \in 0..(w - 1)
  PROVE  a * w + p # b * w + q
<1>1. a + 1 \in Nat /\ a + 1 <= b
  OBVIOUS
<1>2. (a + 1) * w <= b * w
  BY <1>1, Product
<1>3. (a + 1) * w = a * w + w /\ a * w \in Nat /\ b * w \in Nat
  OBVIOUS
<1> QED BY <1>2, <1>3

\* A number is that of one pixel.
LEMMA OneCell ==
  ASSUME NEW w \in Nat, NEW x \in 0..(w - 1), NEW y \in Nat,
         NEW u \in 0..(w - 1), NEW v \in Nat, CellNo(w, x, y) = CellNo(w, u, v)
  PROVE  x = u /\ y = v
<1>1. ~(y < v) /\ ~(v < y)
  BY LaterRow DEF CellNo
<1>2. y = v
  BY <1>1
<1> QED BY <1>2 DEF CellNo

\* The bytes of a cell among those of all, and none of another cell's.
LEMMA CellBytes ==
  ASSUME NEW c \in {3, 4}, NEW m \in Nat, NEW n \in 0..(m - 1), NEW k \in 0..(c - 1)
  PROVE  n * c + k \in 0..(m * c - 1) /\ m * c <= m * 4
OBVIOUS

\* A byte of a pixel is among those that are written for one exactly if it is
\* the same pixel.
LEMMA OtherBytes ==
  ASSUME NEW c \in {3, 4}, NEW n \in Nat, NEW m \in Nat, NEW k \in 0..(c - 1), NEW b, NEW at,
         b = n * c + k + 1, at = m * c + 1
  PROVE  /\ n = m => b - at + 1 = k + 1 /\ k + 1 \in 1..c
         /\ n # m => ~(b - at + 1 \in 1..c)
<1>1. CASE c = 3
  BY <1>1
<1>2. CASE c = 4
  BY <1>2
<1> QED BY <1>1, <1>2

\* Every number below their number is a pixel's.
LEMMA CellOf ==
  ASSUME NEW w \in Nat, NEW h \in Nat, NEW n \in 0..(w * h - 1)
  PROVE  \E x \in 0..(w - 1), y \in 0..(h - 1) : n = CellNo(w, x, y)
<1> DEFINE T == {i \in 0..n : \E x \in 0..(w - 1), y \in 0..(h - 1) : i = CellNo(w, x, y)}
<1>1. w \in Nat \ {0} /\ h \in Nat \ {0} /\ n \in Nat
  OBVIOUS
<1>2. 0 \in T
  <2>1. 0 \in 0..(w - 1) /\ 0 \in 0..(h - 1) /\ 0 = CellNo(w, 0, 0)
    BY <1>1 DEF CellNo
  <2> QED BY <1>1, <2>1
<1>3. ASSUME NEW i \in 1..n, i - 1 \in T PROVE i \in T
  <2>1. PICK x \in 0..(w - 1), y \in 0..(h - 1) : i - 1 = CellNo(w, x, y)
    BY <1>3
  <2>2. CASE x + 1 < w
    <3>1. x + 1 \in 0..(w - 1) /\ i = CellNo(w, x + 1, y)
      BY <2>1, <2>2 DEF CellNo
    <3> QED BY <3>1
  <2>3. CASE ~(x + 1 < w)
    <3>1. x = w - 1
      BY <2>3
    <3>2. i = (y + 1) * w + 0
      BY <2>1, <3>1 DEF CellNo
    <3>3. y + 1 # h
      <4>1. w * h = h * w /\ i <= w * h - 1
        BY <1>1
      <4> QED BY <3>2, <4>1
    <3>4. 0 \in 0..(w - 1) /\ y + 1 \in 0..(h - 1)
      BY <1>1, <3>3
    <3>5. i = CellNo(w, 0, y + 1)
      BY <3>2 DEF CellNo
    <3> QED BY <3>4, <3>5
  <2> QED BY <2>2, <2>3
<1> HIDE DEF T
<1>4. \A i \in 0..n : i \in T
  BY <1>1, <1>2, <1>3, Induction
<1>5. n \in T
  BY <1>1, <1>4
<1> QED BY <1>5 DEF T

Colours == [1..4 -> Byte]

WrapAssumption == Wrap \in Nat \ {0}

\* The bytes of a pixel are in memory.
LEMMA InMemory ==
  ASSUME WrapAssumption, NEW img \in Images,
         NEW x \in 0..(img.w - 1), NEW y \in 0..(img.h - 1), NEW k \in 0..(img.chans - 1)
  PROVE  /\ ByteAt(img, x, y, k) = CellNo(img.w, x, y) * img.chans + k + 1
         /\ ByteAt(img, x, y, k) \in 1..(img.w * img.h * img.chans)
         /\ ByteAt(img, x, y, k) \in 1..Len(img.data)
<1> DEFINE n == CellNo(img.w, x, y)
           m == img.w * img.h
           c == img.chans
<1>1. /\ img.w \in Nat /\ img.h \in Nat /\ img.chans \in {3, 4} /\ Len(img.data) \in Nat
      /\ m * 4 < Wrap /\ m * img.chans <= Len(img.data)
  BY DEF Images
<1>2. m \in Nat /\ n \in 0..(m - 1)
  <2>1. n \in 0..(m - 1)
    BY <1>1, Cell
  <2>2. m \in Nat
    BY <1>1
  <2> QED BY <2>1, <2>2
<1>3. c \in {3, 4} /\ k \in 0..(c - 1) /\ m * c <= Len(img.data) /\ Len(img.data) \in Nat /\ m * 4 < Wrap
  BY <1>1
<1> HIDE DEF n, m, c
<1>4. n * c + k \in 0..(m * c - 1) /\ m * c <= m * 4 /\ m * c \in Nat
  BY <1>2, <1>3, CellBytes
<1>5. n * c + k \in 0..(Wrap - 1)
  BY <1>2, <1>3, <1>4 DEF WrapAssumption
<1>6. u32(n * c + k) = n * c + k
  BY <1>5, NoWrap DEF u32, WrapAssumption
<1>7. ByteAt(img, x, y, k) = n * c + k + 1
  BY <1>6 DEF ByteAt, CellNo, n, c
<1>8. n * c + k + 1 \in 1..(m * c) /\ n * c + k + 1 \in 1..Len(img.data)
  BY <1>2, <1>3, <1>4
<1>9. /\ ByteAt(img, x, y, k) = n * c + k + 1
      /\ ByteAt(img, x, y, k) \in 1..(m * c)
      /\ ByteAt(img, x, y, k) \in 1..Len(img.data)
  BY <1>7, <1>8
<1> QED BY <1>9 DEF n, m, c

\* A pixel of an image is a colour.
LEMMA PixelType ==
  ASSUME WrapAssumption, NEW img \in Images, NEW x \in 0..(img.w - 1), NEW y \in 0..(img.h - 1)
  PROVE  getPixel(img, x, y) \in Colours
<1>1. ASSUME NEW k \in 1..4, k # 4 \/ img.chans = 4 PROVE img.data[ByteAt(img, x, y, k - 1)] \in Byte
  <2>1. k - 1 \in 0..(img.chans - 1) /\ img.data \in Seq(Byte)
    BY <1>1 DEF Images
  <2>2. ByteAt(img, x, y, k - 1) \in 1..Len(img.data)
    BY <2>1, InMemory
  <2> QED BY <2>1, <2>2
<1>2. Opaque \in Byte
  BY DEF Opaque, Byte
<1> QED BY <1>1, <1>2 DEF getPixel, Colours

\* Images of the same shape.
Shaped(img) ==
  {d \in Images : d.w = img.w /\ d.h = img.h /\ d.chans = img.chans /\ Len(d.data) = Len(img.data)}

\* What is drawn where something was.
Blended(img, old, clr, blending) == IF blending /\ clr[4] # Opaque THEN old ELSE Shown(img, clr)

\* Other data of the same length make an image of the same shape.
LEMMA NewData ==
  ASSUME NEW img \in Images, NEW data \in Seq(Byte), Len(data) = Len(img.data)
  PROVE  [img EXCEPT !.data = data] \in Shaped(img) /\ [img EXCEPT !.data = data].data = data
BY DEF Shaped, Images

\* setPixel() changes the pixel it is given and no other.
LEMMA SetsPixel ==
  ASSUME WrapAssumption, NEW img \in Images, NEW x \in 0..(img.w - 1), NEW y \in 0..(img.h - 1),
         NEW clr \in Colours, NEW blending \in BOOLEAN
  PROVE  LET d == setPixel(img, x, y, clr, blending)
         IN  /\ d \in Shaped(img)
             /\ \A px \in 0..(img.w - 1), py \in 0..(img.h - 1) :
                  getPixel(d, px, py) = IF px = x /\ py = y
                                        THEN Blended(img, getPixel(img, x, y), clr, blending)
                                        ELSE getPixel(img, px, py)
<1> DEFINE at == ByteAt(img, x, y, 0)
           c == img.chans
           data == Overwritten(img.data, at, c, clr)
           d == [img EXCEPT !.data = data]
<1>1. CASE blending /\ clr[4] # Opaque
  BY <1>1 DEF setPixel, Shaped, Blended
<1>2. CASE ~(blending /\ clr[4] # Opaque)
  <2>1. setPixel(img, x, y, clr, blending) = d
    BY <1>2 DEF setPixel
  <2>2. c \in {3, 4} /\ img.data \in Seq(Byte) /\ Len(img.data) \in Nat /\ img.w \in Nat /\ img.h \in Nat
    BY DEF Images
  <2>3. at = CellNo(img.w, x, y) * c + 1 /\ at \in Nat
    <3>1. 0 \in 0..(c - 1)
      BY <2>2
    <3>2. at = CellNo(img.w, x, y) * c + 0 + 1 /\ at \in 1..Len(img.data)
      BY <3>1, InMemory
    <3>3. CellNo(img.w, x, y) \in 0..(img.w * img.h - 1)
      BY <2>2, Cell
    <3> HIDE DEF at
    <3> QED BY <2>2, <3>2, <3>3
  <2>4. data \in Seq(Byte) /\ Len(data) = Len(img.data)
        /\ \A i \in 1..Len(img.data) :
             data[i] = IF i - at + 1 \in 1..c THEN clr[i - at + 1] ELSE img.data[i]
    <3> HIDE DEF at, c
    <3>1. ASSUME NEW i \in 1..Len(img.data)
          PROVE  (IF i - at + 1 \in 1..c THEN clr[i - at + 1] ELSE img.data[i]) \in Byte
      <4>1. img.data[i] \in Byte
        BY <2>2
      <4>2. i - at + 1 \in 1..c => i - at + 1 \in 1..4
        <5>1. c = 3 \/ c = 4
          BY <2>2 DEF c
        <5> QED BY <2>3, <5>1
      <4>3. i - at + 1 \in 1..4 => clr[i - at + 1] \in Byte
        BY DEF Colours
      <4> QED BY <4>1, <4>2, <4>3
    <3>2. DOMAIN img.data = 1..Len(img.data)
      BY <2>2
    <3>3. data = [i \in 1..Len(img.data) |-> IF i - at + 1 \in 1..c THEN clr[i - at + 1] ELSE img.data[i]]
      BY <3>2 DEF Overwritten
    <3> HIDE DEF data
    <3> QED BY <2>2, <3>1, <3>3
  <2> HIDE DEF data
  <2>5. d \in Shaped(img) /\ d.data = data
    BY <2>4, NewData
  <2> HIDE DEF d
  <2>6. d \in Images /\ d.w = img.w /\ d.h = img.h /\ d.chans = c
    BY <2>5 DEF Shaped
  <2>7. ASSUME NEW px \in 0..(img.w - 1), NEW py \in 0..(img.h - 1), NEW k \in 0..(c - 1)
        PROVE  data[ByteAt(d, px, py, k)] = IF px = x /\ py = y THEN clr[k + 1]
                                            ELSE img.data[ByteAt(img, px, py, k)]
    <3> DEFINE n == CellNo(img.w, px, py)
               m == CellNo(img.w, x, y)
               b == ByteAt(img, px, py, k)
    <3>1. b = n * c + k + 1 /\ b \in 1..Len(img.data)
      BY InMemory
    <3>2. ByteAt(d, px, py, k) = b
      BY <2>6 DEF ByteAt
    <3>3. n \in Nat /\ m \in Nat
      <4>1. n \in 0..(img.w * img.h - 1) /\ m \in 0..(img.w * img.h - 1)
        BY <2>2, Cell
      <4> HIDE DEF n, m
      <4> QED BY <4>1
    <3>4. n = m => px = x /\ py = y
      <4>1. py \in Nat /\ y \in Nat
        BY <2>2
      <4> QED BY <2>2, <4>1, OneCell
    <3>5. data[b] = IF b - at + 1 \in 1..c THEN clr[b - at + 1] ELSE img.data[b]
      BY <2>4, <3>1
    <3>6. at = m * c + 1
      BY <2>3
    <3>7. px = x /\ py = y => n = m
      OBVIOUS
    <3>11. c \in {3, 4} /\ k \in 0..(c - 1) /\ b = n * c + k + 1
      BY <2>2, <3>1
    <3> HIDE DEF n, m, b, at, c
    <3>8. /\ n = m => b - at + 1 = k + 1 /\ k + 1 \in 1..c
          /\ n # m => ~(b - at + 1 \in 1..c)
      BY <3>3, <3>6, <3>11, OtherBytes
    <3>9. CASE n = m
      BY <3>2, <3>4, <3>5, <3>8, <3>9 DEF b, c
    <3>10. CASE n # m
      BY <3>2, <3>5, <3>7, <3>8, <3>10 DEF b, c
    <3> QED BY <3>9, <3>10
  <2>8. ASSUME NEW px \in 0..(img.w - 1), NEW py \in 0..(img.h - 1)
        PROVE  getPixel(d, px, py) = IF px = x /\ py = y THEN Shown(img, clr) ELSE getPixel(img, px, py)
    <3>1. \A k \in 1..4 : (k = 4 /\ c # 4) \/ k - 1 \in 0..(c - 1)
      BY <2>2
    <3>2. \A k \in 1..4 : k - 1 + 1 = k
      OBVIOUS
    <3>3. CASE px = x /\ py = y
      <4>1. \A k \in 1..4 : getPixel(d, px, py)[k] = IF k = 4 /\ c # 4 THEN Opaque ELSE clr[k]
        BY <2>5, <2>6, <2>7, <3>1, <3>2, <3>3 DEF getPixel
      <4>2. \A k \in 1..4 : Shown(img, clr)[k] = IF k = 4 /\ c # 4 THEN Opaque ELSE clr[k]
        BY DEF Shown, Colours
      <4>3. Shown(img, clr) = [k \in 1..4 |-> Shown(img, clr)[k]]
        BY DEF Shown, Colours
      <4>4. getPixel(d, px, py) = [k \in 1..4 |-> getPixel(d, px, py)[k]]
        BY DEF getPixel
      <4> QED BY <3>3, <4>1, <4>2, <4>3, <4>4
    <3>4. CASE ~(px = x /\ py = y)
      <4>1. \A k \in 1..4 : getPixel(d, px, py)[k] = getPixel(img, px, py)[k]
        BY <2>5, <2>6, <2>7, <3>1, <3>2, <3>4 DEF getPixel
      <4>2. /\ getPixel(img, px, py) = [k \in 1..4 |-> getPixel(img, px, py)[k]]
            /\ getPixel(d, px, py) = [k \in 1..4 |-> getPixel(d, px, py)[k]]
        BY DEF getPixel
      <4> QED BY <3>4, <4>1, <4>2
    <3> QED BY <3>3, <3>4
  <2> QED BY <1>2, <2>1, <2>5, <2>8 DEF Blended
<1> QED BY <1>1, <1>2

\* After i pixels of the row that begins at (x, y).
RowStates(img, x, y, i, row, blending) ==
  {d \in Shaped(img) :
     \A px \in 0..(img.w - 1), py \in 0..(img.h - 1) :
       getPixel(d, px, py) = IF py = y /\ px \in x..(x + i - 1)
                             THEN Blended(img, getPixel(img, px, py), row[px - x], blending)
                             ELSE getPixel(img, px, py)}

\* A turn of the loop draws one pixel more.
LEMMA RowTurn ==
  ASSUME WrapAssumption, NEW img \in Images, NEW x \in Nat, NEW y \in Nat, NEW i \in Nat \ {0},
         NEW row, NEW blending \in BOOLEAN, x + i <= img.w, y < img.h, row[i - 1] \in Colours,
         NEW d \in RowStates(img, x, y, i - 1, row, blending)
  PROVE  setPixel(d, x + (i - 1), y, row[i - 1], blending) \in RowStates(img, x, y, i, row, blending)
<1> DEFINE u == x + (i - 1)
           c == row[i - 1]
           e == setPixel(d, u, y, c, blending)
<1>1. /\ d \in Images /\ d.w = img.w /\ d.h = img.h /\ d.chans = img.chans
      /\ Len(d.data) = Len(img.data) /\ img.w \in Nat /\ img.h \in Nat
  BY DEF RowStates, Shaped, Images
<1>2. u \in 0..(d.w - 1) /\ y \in 0..(d.h - 1)
  BY <1>1
<1>3. c \in Colours
  OBVIOUS
<1> HIDE DEF c
<1>4. /\ e \in Shaped(d)
      /\ \A px \in 0..(d.w - 1), py \in 0..(d.h - 1) :
           getPixel(e, px, py) = IF px = u /\ py = y THEN Blended(d, getPixel(d, u, y), c, blending)
                                 ELSE getPixel(d, px, py)
  BY <1>1, <1>2, <1>3, SetsPixel
<1>5. e \in Shaped(img)
  BY <1>1, <1>4 DEF Shaped
<1>6. ASSUME NEW px \in 0..(img.w - 1), NEW py \in 0..(img.h - 1)
      PROVE  getPixel(e, px, py) = IF py = y /\ px \in x..(x + i - 1)
                                   THEN Blended(img, getPixel(img, px, py), row[px - x], blending)
                                   ELSE getPixel(img, px, py)
  <2>1. getPixel(e, px, py) = IF px = u /\ py = y THEN Blended(d, getPixel(d, u, y), c, blending)
                              ELSE getPixel(d, px, py)
    BY <1>1, <1>4
  <2>2. getPixel(d, px, py) = IF py = y /\ px \in x..(x + (i - 1) - 1)
                              THEN Blended(img, getPixel(img, px, py), row[px - x], blending)
                              ELSE getPixel(img, px, py)
    BY DEF RowStates
  <2>3. CASE px = u /\ py = y
    <3>1. getPixel(d, px, py) = getPixel(img, px, py)
      <4>1. ~(px \in x..(x + (i - 1) - 1))
        BY <2>3
      <4> QED BY <2>2, <4>1
    <3>2. px \in x..(x + i - 1) /\ px - x = i - 1 /\ py = y
      BY <2>3
    <3>3. Blended(d, getPixel(d, u, y), c, blending) = Blended(img, getPixel(img, px, py), c, blending)
      BY <1>1, <2>3, <3>1 DEF Blended, Shown
    <3>4. row[px - x] = c
      BY <3>2 DEF c
    <3> HIDE DEF u, e
    <3> QED BY <2>1, <2>3, <3>2, <3>3, <3>4
  <2>4. CASE ~(px = u /\ py = y)
    <3>1. py = y => (px \in x..(x + i - 1) <=> px \in x..(x + (i - 1) - 1))
      BY <1>1, <2>4
    <3> HIDE DEF u, e
    <3> QED BY <2>1, <2>2, <2>4, <3>1
  <2> QED BY <2>3, <2>4
<1> HIDE DEF e
<1>7. e \in RowStates(img, x, y, i, row, blending)
  BY <1>5, <1>6 DEF RowStates
<1> QED BY <1>7 DEF e, u, c

\* The loop of a row draws its pixels and no others.
LEMMA RowDraws ==
  ASSUME WrapAssumption, NEW img \in Images, NEW x \in Nat, NEW y \in Nat, NEW cols \in Nat,
         NEW row, NEW blending \in BOOLEAN, x + cols <= img.w, y < img.h,
         \A i \in 0..(cols - 1) : row[i] \in Colours
  PROVE  RowDrawn(img, x, y, cols, row, blending) \in RowStates(img, x, y, cols, row, blending)
<1> DEFINE S == [i \in 0..cols |-> RowStates(img, x, y, i, row, blending)]
           Turn(i, d) == setPixel(d, x + (i - 1), y, row[i - 1], blending)
           F == [i \in 1..cols |-> [d \in S[i - 1] |-> Turn(i, d)]]
           IsRow(g) == g = [i \in 0..cols |-> IF i = 0 THEN img ELSE Turn(i, g[i - 1])]
           last == (CHOOSE g : IsRow(g))[cols]
<1>1. RowDrawn(img, x, y, cols, row, blending) = last
  BY DEF RowDrawn
<1>2. \A i \in 0..cols : S[i] = RowStates(img, x, y, i, row, blending)
  OBVIOUS
<1>3. ASSUME NEW i \in 1..cols PROVE i \in 0..cols /\ i - 1 \in 0..cols /\ i - 1 \in 0..(cols - 1) /\ i # 0
  OBVIOUS
<1>4. ASSUME NEW i \in 1..cols, NEW d \in S[i - 1] PROVE F[i][d] = Turn(i, d)
  OBVIOUS
<1>5. ASSUME NEW i \in 1..cols, NEW d \in S[i - 1] PROVE Turn(i, d) \in S[i]
  <2>1. d \in RowStates(img, x, y, i - 1, row, blending) /\ row[i - 1] \in Colours
    BY <1>2, <1>3
  <2>2. i \in Nat \ {0} /\ img.w \in Nat
    BY DEF Images
  <2>3. x + i <= img.w
    BY <2>2
  <2>4. Turn(i, d) \in RowStates(img, x, y, i, row, blending)
    BY <2>1, <2>2, <2>3, RowTurn
  <2> QED BY <1>2, <1>3, <2>4
<1>6. img \in S[0]
  <2>1. \A px \in 0..(img.w - 1) : ~(px \in x..(x + 0 - 1))
    OBVIOUS
  <2>2. img \in RowStates(img, x, y, 0, row, blending)
    BY <2>1 DEF RowStates, Shaped
  <2> QED BY <1>2, <2>2
<1> HIDE DEF S, F, Turn
<1>7. PICK f : IsLoop(f, cols, img, F) /\ \A i \in 0..cols : f[i] \in S[i]
  <2>1. \A i \in 1..cols : \A d \in S[i - 1] : F[i][d] \in S[i]
    BY <1>4, <1>5
  <2> QED BY <1>6, <2>1, LoopExists
<1>8. IsRow(f)
  <2>1. ASSUME NEW i \in 0..cols PROVE f[i] = IF i = 0 THEN img ELSE Turn(i, f[i - 1])
    <3>1. f[i] = IF i = 0 THEN img ELSE F[i][f[i - 1]]
      BY <1>7 DEF IsLoop
    <3>2. i # 0 => i \in 1..cols /\ i - 1 \in 0..cols
      OBVIOUS
    <3> QED BY <1>4, <1>7, <3>1, <3>2
  <2>2. f = [i \in 0..cols |-> f[i]]
    BY <1>7 DEF IsLoop
  <2> QED BY <2>1, <2>2
<1>9. PICK g : IsRow(g) /\ last = g[cols]
  BY <1>8
<1> HIDE DEF last
<1>10. g[cols] \in S[cols]
  <2>1. g[0] \in S[0]
    BY <1>6, <1>9
  <2>2. ASSUME NEW i \in 1..cols, g[i - 1] \in S[i - 1] PROVE g[i] \in S[i]
    <3>1. g[i] = Turn(i, g[i - 1])
      BY <1>3, <1>9
    <3> QED BY <1>5, <2>2, <3>1
  <2> HIDE DEF IsRow
  <2> QED BY <2>1, <2>2, LoopKeeps
<1> QED BY <1>1, <1>2, <1>9, <1>10

\* After j rows of a rectangle that begins at (x, y).
AreaStates(img, x, y, cols, j, clr, blending) ==
  {d \in Shaped(img) :
     \A px \in 0..(img.w - 1), py \in 0..(img.h - 1) :
       getPixel(d, px, py) = IF py \in y..(y + j - 1) /\ px \in x..(x + cols - 1)
                             THEN Blended(img, getPixel(img, px, py), clr[py - y][px - x], blending)
                             ELSE getPixel(img, px, py)}

\* A turn of the outer loop draws one row more.
LEMMA AreaTurn ==
  ASSUME WrapAssumption, NEW img \in Images, NEW x \in Nat, NEW y \in Nat, NEW cols \in Nat, NEW j \in Nat \ {0},
         NEW clr, NEW blending \in BOOLEAN, x + cols <= img.w, y + j <= img.h,
         \A i \in 0..(cols - 1) : clr[j - 1][i] \in Colours,
         NEW d \in AreaStates(img, x, y, cols, j - 1, clr, blending)
  PROVE  RowDrawn(d, x, y + (j - 1), cols, clr[j - 1], blending)
           \in AreaStates(img, x, y, cols, j, clr, blending)
<1> DEFINE v == y + (j - 1)
           row == clr[j - 1]
           e == RowDrawn(d, x, v, cols, row, blending)
<1>1. /\ d \in Images /\ d.w = img.w /\ d.h = img.h /\ d.chans = img.chans
      /\ Len(d.data) = Len(img.data) /\ img.w \in Nat /\ img.h \in Nat
  BY DEF AreaStates, Shaped, Images
<1>2. v \in Nat /\ v < d.h /\ x + cols <= d.w
  BY <1>1
<1>3. \A i \in 0..(cols - 1) : row[i] \in Colours
  OBVIOUS
<1> HIDE DEF row
<1>4. e \in RowStates(d, x, v, cols, row, blending)
  BY <1>1, <1>2, <1>3, RowDraws
<1>5. e \in Shaped(img)
  BY <1>1, <1>4 DEF RowStates, Shaped
<1>6. ASSUME NEW px \in 0..(img.w - 1), NEW py \in 0..(img.h - 1)
      PROVE  getPixel(e, px, py) = IF py \in y..(y + j - 1) /\ px \in x..(x + cols - 1)
                                   THEN Blended(img, getPixel(img, px, py), clr[py - y][px - x], blending)
                                   ELSE getPixel(img, px, py)
  <2>1. getPixel(e, px, py) = IF py = v /\ px \in x..(x + cols - 1)
                              THEN Blended(d, getPixel(d, px, py), row[px - x], blending)
                              ELSE getPixel(d, px, py)
    BY <1>1, <1>4 DEF RowStates
  <2>2. getPixel(d, px, py) = IF py \in y..(y + (j - 1) - 1) /\ px \in x..(x + cols - 1)
                              THEN Blended(img, getPixel(img, px, py), clr[py - y][px - x], blending)
                              ELSE getPixel(img, px, py)
    BY DEF AreaStates
  <2>3. CASE py = v /\ px \in x..(x + cols - 1)
    <3>1. getPixel(d, px, py) = getPixel(img, px, py)
      <4>1. ~(py \in y..(y + (j - 1) - 1))
        BY <2>3
      <4> QED BY <2>2, <4>1
    <3>2. py \in y..(y + j - 1) /\ py - y = j - 1
      BY <2>3
    <3>3. Blended(d, getPixel(d, px, py), row[px - x], blending)
          = Blended(img, getPixel(img, px, py), row[px - x], blending)
      BY <1>1, <3>1 DEF Blended, Shown
    <3>4. clr[py - y][px - x] = row[px - x]
      BY <3>2 DEF row
    <3> HIDE DEF v, e
    <3> QED BY <2>1, <2>3, <3>2, <3>3, <3>4
  <2>4. CASE ~(py = v /\ px \in x..(x + cols - 1))
    <3>1. px \in x..(x + cols - 1) => (py \in y..(y + j - 1) <=> py \in y..(y + (j - 1) - 1))
      BY <1>1, <2>4
    <3> HIDE DEF v, e
    <3> QED BY <2>1, <2>2, <2>4, <3>1
  <2> QED BY <2>3, <2>4
<1> HIDE DEF e
<1>7. e \in AreaStates(img, x, y, cols, j, clr, blending)
  BY <1>5, <1>6 DEF AreaStates
<1> QED BY <1>7 DEF e, v, row

\* Both loops draw a rectangle and nothing else.
LEMMA Draws ==
  ASSUME WrapAssumption, NEW img \in Images, NEW x \in Nat, NEW y \in Nat, NEW cols \in Nat, NEW rows \in Nat,
         NEW clr, NEW blending \in BOOLEAN, x + cols <= img.w, y + rows <= img.h,
         \A j \in 0..(rows - 1), i \in 0..(cols - 1) : clr[j][i] \in Colours
  PROVE  Drawn(img, x, y, cols, rows, clr, blending) \in AreaStates(img, x, y, cols, rows, clr, blending)
<1> DEFINE S == [j \in 0..rows |-> AreaStates(img, x, y, cols, j, clr, blending)]
           Turn(j, d) == RowDrawn(d, x, y + (j - 1), cols, clr[j - 1], blending)
           F == [j \in 1..rows |-> [d \in S[j - 1] |-> Turn(j, d)]]
           IsArea(g) == g = [j \in 0..rows |-> IF j = 0 THEN img ELSE Turn(j, g[j - 1])]
           last == (CHOOSE g : IsArea(g))[rows]
<1>1. Drawn(img, x, y, cols, rows, clr, blending) = last
  BY DEF Drawn
<1>2. \A j \in 0..rows : S[j] = AreaStates(img, x, y, cols, j, clr, blending)
  OBVIOUS
<1>3. ASSUME NEW j \in 1..rows PROVE j \in 0..rows /\ j - 1 \in 0..rows /\ j - 1 \in 0..(rows - 1) /\ j # 0
  OBVIOUS
<1>4. ASSUME NEW j \in 1..rows, NEW d \in S[j - 1] PROVE F[j][d] = Turn(j, d)
  OBVIOUS
<1>5. ASSUME NEW j \in 1..rows, NEW d \in S[j - 1] PROVE Turn(j, d) \in S[j]
  <2>1. /\ d \in AreaStates(img, x, y, cols, j - 1, clr, blending)
        /\ \A i \in 0..(cols - 1) : clr[j - 1][i] \in Colours
    BY <1>2, <1>3
  <2>2. j \in Nat \ {0} /\ img.h \in Nat
    BY DEF Images
  <2>3. y + j <= img.h
    BY <2>2
  <2>4. Turn(j, d) \in AreaStates(img, x, y, cols, j, clr, blending)
    BY <2>1, <2>2, <2>3, AreaTurn
  <2> QED BY <1>2, <1>3, <2>4
<1>6. img \in S[0]
  <2>1. \A py \in 0..(img.h - 1) : ~(py \in y..(y + 0 - 1))
    OBVIOUS
  <2>2. img \in AreaStates(img, x, y, cols, 0, clr, blending)
    BY <2>1 DEF AreaStates, Shaped
  <2> QED BY <1>2, <2>2
<1> HIDE DEF S, F, Turn
<1>7. PICK f : IsLoop(f, rows, img, F) /\ \A j \in 0..rows : f[j] \in S[j]
  <2>1. \A j \in 1..rows : \A d \in S[j - 1] : F[j][d] \in S[j]
    BY <1>4, <1>5
  <2> QED BY <1>6, <2>1, LoopExists
<1>8. IsArea(f)
  <2>1. ASSUME NEW j \in 0..rows PROVE f[j] = IF j = 0 THEN img ELSE Turn(j, f[j - 1])
    <3>1. f[j] = IF j = 0 THEN img ELSE F[j][f[j - 1]]
      BY <1>7 DEF IsLoop
    <3>2. j # 0 => j \in 1..rows /\ j - 1 \in 0..rows
      OBVIOUS
    <3> QED BY <1>4, <1>7, <3>1, <3>2
  <2>2. f = [j \in 0..rows |-> f[j]]
    BY <1>7 DEF IsLoop
  <2> QED BY <2>1, <2>2
<1>9. PICK g : IsArea(g) /\ last = g[rows]
  BY <1>8
<1> HIDE DEF last
<1>10. g[rows] \in S[rows]
  <2>1. g[0] \in S[0]
    BY <1>6, <1>9
  <2>2. ASSUME NEW j \in 1..rows, g[j - 1] \in S[j - 1] PROVE g[j] \in S[j]
    <3>1. g[j] = Turn(j, g[j - 1])
      BY <1>3, <1>9
    <3> QED BY <1>5, <2>2, <3>1
  <2> HIDE DEF IsArea
  <2> QED BY <2>1, <2>2, LoopKeeps
<1> QED BY <1>1, <1>2, <1>9, <1>10

\* A sum that fits is what it should be.
LEMMA Unwrapped ==
  ASSUME WrapAssumption, NEW n \in Nat
  PROVE  /\ n \in u32s => u32(n) = n
         /\ n \in Wrap..(2 * Wrap - 1) => u32(n) = n - Wrap
<1>1. ASSUME n \in u32s PROVE u32(n) = n
  BY <1>1, NoWrap DEF WrapAssumption, u32s, u32
<1>2. ASSUME NEW W \in Nat \ {0}, NEW m \in W..(2 * W - 1) PROVE m % W = m - W
  OBVIOUS
<1>3. ASSUME n \in Wrap..(2 * Wrap - 1) PROVE u32(n) = n - Wrap
  BY <1>2, <1>3 DEF WrapAssumption, u32
<1> QED BY <1>1, <1>3

\* How far the loops go in one direction: as far as both images and what is
\* asked for reach, and nowhere if an end wraps.
LEMMA StepsClip ==
  ASSUME WrapAssumption, NEW a \in [dst : u32s, src : u32s, size : u32s],
         NEW dstSide \in Nat, NEW srcSide \in Nat, a.dst < dstSide, a.src < srcSide
  PROVE  LET n == Steps(a, dstSide, srcSide)
         IN  /\ n \in Nat /\ a.dst + n <= dstSide /\ a.src + n <= srcSide
             /\ ~({a.dst + a.size, a.src + a.size} \subseteq u32s) => n = 0
             /\ {a.dst + a.size, a.src + a.size} \subseteq u32s =>
                  \A p \in 0..(dstSide - 1) :
                    p \in a.dst..(a.dst + n - 1) <=>
                      p >= a.dst /\ p < a.dst + a.size /\ p - a.dst + a.src < srcSide
<1> DEFINE D == a.dst
           R == a.src
           Z == a.size
           n == Steps(a, dstSide, srcSide)
<1>1. D \in u32s /\ R \in u32s /\ Z \in u32s /\ Wrap \in Nat \ {0}
  BY DEF WrapAssumption
<1>2. D \in Nat /\ R \in Nat /\ Z \in Nat /\ D < Wrap /\ R < Wrap /\ Z < Wrap
  BY <1>1 DEF u32s
<1>3. n = LET steps == Lesser(Lesser(u32(D + Z), dstSide) - D, Lesser(u32(R + Z), srcSide) - R)
          IN  IF steps < 0 THEN 0 ELSE steps
  BY DEF Steps, End
<1>4. D < dstSide /\ R < srcSide
  OBVIOUS
<1> HIDE DEF D, R, Z, n
<1>5. /\ D + Z \in u32s => u32(D + Z) = D + Z
      /\ D + Z \notin u32s => u32(D + Z) = D + Z - Wrap
  <2>1. D + Z \notin u32s => D + Z \in Wrap..(2 * Wrap - 1)
    BY <1>1, <1>2 DEF u32s
  <2> DEFINE m == D + Z
  <2>2. m \in Nat
    BY <1>2
  <2> HIDE DEF m
  <2>3. /\ m \in u32s => u32(m) = m
        /\ m \in Wrap..(2 * Wrap - 1) => u32(m) = m - Wrap
    BY <2>2, Unwrapped
  <2> QED BY <1>1, <1>2, <2>1, <2>3 DEF m
<1>6. /\ R + Z \in u32s => u32(R + Z) = R + Z
      /\ R + Z \notin u32s => u32(R + Z) = R + Z - Wrap
  <2>1. R + Z \notin u32s => R + Z \in Wrap..(2 * Wrap - 1)
    BY <1>1, <1>2 DEF u32s
  <2> DEFINE m == R + Z
  <2>2. m \in Nat
    BY <1>2
  <2> HIDE DEF m
  <2>3. /\ m \in u32s => u32(m) = m
        /\ m \in Wrap..(2 * Wrap - 1) => u32(m) = m - Wrap
    BY <2>2, Unwrapped
  <2> QED BY <1>1, <1>2, <2>1, <2>3 DEF m
<1>7. u32(D + Z) \in Nat /\ u32(R + Z) \in Nat
  <2>1. /\ D + Z \notin u32s => D + Z >= Wrap
        /\ R + Z \notin u32s => R + Z >= Wrap
    BY <1>1, <1>2 DEF u32s
  <2> QED BY <1>1, <1>2, <1>5, <1>6, <2>1
<1>8. n \in Nat /\ D + n <= dstSide /\ R + n <= srcSide
  BY <1>2, <1>3, <1>4, <1>7 DEF Lesser
<1>9. D + Z \notin u32s \/ R + Z \notin u32s => n = 0
  <2>1. D + Z \notin u32s => u32(D + Z) < D
    BY <1>1, <1>2, <1>5
  <2>2. R + Z \notin u32s => u32(R + Z) < R
    BY <1>1, <1>2, <1>6
  <2> QED BY <1>2, <1>3, <1>4, <1>7, <2>1, <2>2 DEF Lesser
<1>10. ASSUME D + Z \in u32s, R + Z \in u32s, NEW p \in 0..(dstSide - 1)
       PROVE  p \in D..(D + n - 1) <=> p >= D /\ p < D + Z /\ p - D + R < srcSide
  <2>1. n = LET steps == Lesser(Lesser(D + Z, dstSide) - D, Lesser(R + Z, srcSide) - R)
            IN  IF steps < 0 THEN 0 ELSE steps
    BY <1>3, <1>5, <1>6, <1>10
  <2>2. n = Z \/ n = dstSide - D \/ n = srcSide - R
    BY <1>2, <1>4, <2>1 DEF Lesser
  <2>3. n <= Z
    BY <1>2, <1>4, <2>1 DEF Lesser
  <2> QED BY <1>2, <1>4, <1>8, <2>2, <2>3
<1>11. \A p \in 0..(dstSide - 1) : D + Z \in u32s /\ R + Z \in u32s =>
         (p \in D..(D + n - 1) <=> p >= D /\ p < D + Z /\ p - D + R < srcSide)
  BY <1>10
<1> QED BY <1>8, <1>9, <1>11 DEF D, R, Z, n

\* What most lemmas need of the constants.
LEMMA Constants == PngAssumption => WrapAssumption
BY DEF PngAssumption, WrapAssumption

\* paste() lays what is asked for, or nothing if an end wraps.
LEMMA PasteLays ==
  ASSUME PngAssumption, NEW img \in Images, NEW src \in Stamps, NEW x \in Extents, NEW y \in Extents,
         NEW blending \in BOOLEAN
  PROVE  LET d == Pasted(img, src, x, y, blending)
         IN  /\ d \in Shaped(img)
             /\ \A px \in 0..(img.w - 1), py \in 0..(img.h - 1) :
                  getPixel(d, px, py) = IF Wraps(x, y) THEN getPixel(img, px, py)
                                        ELSE Laid(img, src, x, y, blending, px, py)
<1> DEFINE d == Pasted(img, src, x, y, blending)
<1>1. /\ WrapAssumption /\ src \in Images
      /\ x \in [dst : u32s, src : u32s, size : u32s] /\ y \in [dst : u32s, src : u32s, size : u32s]
      /\ \A p \in Pixels(src.w, src.h) :
           getPixel(src, p[1], p[2]) = Clear \/ getPixel(src, p[1], p[2])[4] = Opaque
  BY Constants DEF PngAssumption
<1>2. img.w \in Nat /\ img.h \in Nat /\ src.w \in Nat /\ src.h \in Nat
  BY <1>1 DEF Images
<1>3. /\ x.dst \in Nat /\ x.src \in Nat /\ x.size \in Nat
      /\ y.dst \in Nat /\ y.src \in Nat /\ y.size \in Nat
  BY <1>1 DEF u32s
<1>4. CASE x.dst >= img.w \/ y.dst >= img.h \/ x.src >= src.w \/ y.src >= src.h
  <2>1. d = img
    BY <1>4 DEF Pasted
  <2>2. ASSUME NEW px \in 0..(img.w - 1), NEW py \in 0..(img.h - 1)
        PROVE  Laid(img, src, x, y, blending, px, py) = getPixel(img, px, py)
    <3>1. ~(px >= x.dst /\ px - x.dst + x.src < src.w /\ py >= y.dst /\ py - y.dst + y.src < src.h)
      BY <1>2, <1>3, <1>4
    <3> QED BY <3>1 DEF Laid
  <2> QED BY <2>1, <2>2 DEF Shaped
<1>5. CASE ~(x.dst >= img.w \/ y.dst >= img.h \/ x.src >= src.w \/ y.src >= src.h)
  <2> DEFINE cols == Steps(x, img.w, src.w)
             rows == Steps(y, img.h, src.h)
             clr == [j \in 0..(rows - 1) |-> [i \in 0..(cols - 1) |-> getPixel(src, x.src + i, y.src + j)]]
  <2>1. d = Drawn(img, x.dst, y.dst, cols, rows, clr, blending)
    BY <1>5 DEF Pasted
  <2>2. x.dst < img.w /\ y.dst < img.h /\ x.src < src.w /\ y.src < src.h
    BY <1>2, <1>3, <1>5
  <2>3. /\ cols \in Nat /\ x.dst + cols <= img.w /\ x.src + cols <= src.w
        /\ ~({x.dst + x.size, x.src + x.size} \subseteq u32s) => cols = 0
        /\ {x.dst + x.size, x.src + x.size} \subseteq u32s =>
             \A p \in 0..(img.w - 1) :
               p \in x.dst..(x.dst + cols - 1) <=>
                 p >= x.dst /\ p < x.dst + x.size /\ p - x.dst + x.src < src.w
    BY <1>1, <1>2, <2>2, StepsClip
  <2>4. /\ rows \in Nat /\ y.dst + rows <= img.h /\ y.src + rows <= src.h
        /\ ~({y.dst + y.size, y.src + y.size} \subseteq u32s) => rows = 0
        /\ {y.dst + y.size, y.src + y.size} \subseteq u32s =>
             \A p \in 0..(img.h - 1) :
               p \in y.dst..(y.dst + rows - 1) <=>
                 p >= y.dst /\ p < y.dst + y.size /\ p - y.dst + y.src < src.h
    BY <1>1, <1>2, <2>2, StepsClip
  <2> HIDE DEF cols, rows
  <2>5. ASSUME NEW j \in 0..(rows - 1), NEW i \in 0..(cols - 1)
        PROVE  /\ clr[j][i] = getPixel(src, x.src + i, y.src + j) /\ clr[j][i] \in Colours
               /\ clr[j][i] = Clear \/ clr[j][i][4] = Opaque
    <3>1. clr[j][i] = getPixel(src, x.src + i, y.src + j)
      OBVIOUS
    <3>2. x.src + i \in 0..(src.w - 1) /\ y.src + j \in 0..(src.h - 1)
      BY <1>2, <1>3, <2>3, <2>4
    <3>3. <<x.src + i, y.src + j>> \in Pixels(src.w, src.h)
      BY <3>2 DEF Pixels
    <3>4. \/ getPixel(src, x.src + i, y.src + j) = Clear
          \/ getPixel(src, x.src + i, y.src + j)[4] = Opaque
      BY <1>1, <3>3
    <3>5. getPixel(src, x.src + i, y.src + j) \in Colours
      BY <1>1, <3>2, PixelType
    <3> QED BY <3>1, <3>4, <3>5
  <2> HIDE DEF clr
  <2>6. Drawn(img, x.dst, y.dst, cols, rows, clr, blending)
          \in AreaStates(img, x.dst, y.dst, cols, rows, clr, blending)
    BY <1>1, <1>3, <2>3, <2>4, <2>5, Draws
  <2> HIDE DEF d
  <2>7. /\ d \in Shaped(img)
        /\ \A px \in 0..(img.w - 1), py \in 0..(img.h - 1) :
             getPixel(d, px, py) =
               IF py \in y.dst..(y.dst + rows - 1) /\ px \in x.dst..(x.dst + cols - 1)
               THEN Blended(img, getPixel(img, px, py), clr[py - y.dst][px - x.dst], blending)
               ELSE getPixel(img, px, py)
    BY <2>1, <2>6 DEF AreaStates
  <2>8. ASSUME NEW px \in 0..(img.w - 1), NEW py \in 0..(img.h - 1)
        PROVE  getPixel(d, px, py) = IF Wraps(x, y) THEN getPixel(img, px, py)
                                     ELSE Laid(img, src, x, y, blending, px, py)
    <3> DEFINE in == py \in y.dst..(y.dst + rows - 1) /\ px \in x.dst..(x.dst + cols - 1)
    <3>1. CASE Wraps(x, y)
      <4>1. cols = 0 \/ rows = 0
        BY <2>3, <2>4, <3>1 DEF Wraps
      <4>2. ~in
        BY <1>3, <4>1
      <4> QED BY <2>7, <3>1, <4>2
    <3>2. CASE ~Wraps(x, y)
      <4>1. /\ {x.dst + x.size, x.src + x.size} \subseteq u32s
            /\ {y.dst + y.size, y.src + y.size} \subseteq u32s
        BY <3>2 DEF Wraps
      <4>2. in <=> /\ px >= x.dst /\ px < x.dst + x.size /\ px - x.dst + x.src < src.w
                   /\ py >= y.dst /\ py < y.dst + y.size /\ py - y.dst + y.src < src.h
        BY <2>3, <2>4, <4>1
      <4>3. CASE ~in
        <5>1. Laid(img, src, x, y, blending, px, py) = getPixel(img, px, py)
          BY <4>2, <4>3 DEF Laid
        <5>2. getPixel(d, px, py) = getPixel(img, px, py)
          BY <2>7, <4>3
        <5> QED BY <3>2, <5>1, <5>2
      <4>4. CASE in
        <5> DEFINE c == clr[py - y.dst][px - x.dst]
        <5>1. py - y.dst \in 0..(rows - 1) /\ px - x.dst \in 0..(cols - 1)
          BY <1>3, <2>3, <2>4, <4>4
        <5>2. /\ c = getPixel(src, x.src + (px - x.dst), y.src + (py - y.dst))
              /\ c = Clear \/ c[4] = Opaque
          BY <2>5, <5>1
        <5>3. x.src + (px - x.dst) = px - x.dst + x.src /\ y.src + (py - y.dst) = py - y.dst + y.src
          BY <1>3
        <5>4. c = getPixel(src, px - x.dst + x.src, py - y.dst + y.src)
          BY <5>2, <5>3
        <5>5. getPixel(d, px, py) = Blended(img, getPixel(img, px, py), c, blending)
          BY <2>7, <4>4
        <5> HIDE DEF c
        <5>6. Laid(img, src, x, y, blending, px, py)
              = IF ~(blending /\ c = Clear) THEN Shown(img, c) ELSE getPixel(img, px, py)
          BY <4>2, <4>4, <5>4 DEF Laid
        <5>7. c[4] # Opaque <=> c = Clear
          BY <5>2 DEF Clear, Opaque
        <5> QED BY <3>2, <5>5, <5>6, <5>7 DEF Blended
      <4> QED BY <4>3, <4>4
    <3> QED BY <3>1, <3>2
  <2> QED BY <2>7, <2>8 DEF d
<1> QED BY <1>4, <1>5

-----------------------------------------------------------------------------
(* Images: moving *)

\* A colour that is shown already.
LEMMA ShownIsShown ==
  ASSUME NEW img \in Images, NEW d \in Shaped(img), NEW x, NEW y
  PROVE  Shown(img, getPixel(d, x, y)) = getPixel(d, x, y)
<1>1. CASE img.chans = 4
  BY <1>1 DEF Shown
<1>2. CASE img.chans # 4
  <2>1. d.chans # 4
    BY <1>2 DEF Shaped
  <2>2. getPixel(d, x, y)[4] = Opaque /\ getPixel(d, x, y) = [k \in 1..4 |-> getPixel(d, x, y)[k]]
    BY <2>1 DEF getPixel
  <2> DEFINE c == getPixel(d, x, y)
  <2>3. c[4] = Opaque /\ c = [k \in 1..4 |-> c[k]]
    BY <2>2
  <2> HIDE DEF c
  <2>4. [c EXCEPT ![4] = Opaque] = c
    BY <2>3
  <2>5. Shown(img, c) = c
    BY <1>2, <2>4 DEF Shown
  <2> QED BY <2>5 DEF c
<1> QED BY <1>1, <1>2

\* A clone has the same pixels.
LEMMA CloneSame ==
  ASSUME WrapAssumption, NEW img \in Images, NEW x \in 0..(img.w - 1), NEW y \in 0..(img.h - 1)
  PROVE  clone(img) \in Images /\ getPixel(clone(img), x, y) = getPixel(img, x, y)
<1> DEFINE n == img.w * img.h * img.chans
           data == SubSeq(img.data, 1, u32(n))
           d == [img EXCEPT !.data = data]
<1>1. /\ img.w \in Nat /\ img.h \in Nat /\ img.chans \in {3, 4} /\ img.data \in Seq(Byte)
      /\ img.w * img.h * 4 < Wrap /\ n <= Len(img.data)
  BY DEF Images
<1>2. n \in u32s /\ n \in Nat
  <2> DEFINE m == img.w * img.h
             c == img.chans
  <2>1. m \in Nat /\ c \in {3, 4} /\ m * 4 < Wrap
    BY <1>1
  <2> HIDE DEF m, c
  <2>2. m * c \in 0..(Wrap - 1)
    BY <2>1 DEF WrapAssumption
  <2>3. m * c = n
    BY DEF m, c
  <2> QED BY <2>2, <2>3 DEF u32s
<1>3. u32(n) = n
  BY <1>2, Unwrapped
<1>4. clone(img) = d
  BY DEF clone
<1> HIDE DEF n
<1>5. data \in Seq(Byte) /\ Len(data) = n /\ \A i \in 1..n : data[i] = img.data[i]
  BY <1>1, <1>2, <1>3
<1> HIDE DEF data
<1>6. d \in [w : Nat, h : Nat, chans : {3, 4}, data : Seq(Byte)]
      /\ d.w = img.w /\ d.h = img.h /\ d.chans = img.chans /\ d.data = data
  BY <1>5 DEF Images
<1> HIDE DEF d
<1>7. d \in Images
  BY <1>1, <1>5, <1>6 DEF Images, n
<1>8. ASSUME NEW k \in 1..4, ~(k = 4 /\ img.chans # 4)
      PROVE  d.data[ByteAt(d, x, y, k - 1)] = img.data[ByteAt(img, x, y, k - 1)]
  <2>1. k - 1 \in 0..(img.chans - 1)
    BY <1>1, <1>8
  <2>2. ByteAt(img, x, y, k - 1) \in 1..n
    BY <2>1, InMemory DEF n
  <2>3. ByteAt(d, x, y, k - 1) = ByteAt(img, x, y, k - 1)
    BY <1>6 DEF ByteAt
  <2> QED BY <1>5, <1>6, <2>2, <2>3
<1>9. getPixel(d, x, y) = getPixel(img, x, y)
  BY <1>6, <1>8 DEF getPixel
<1> QED BY <1>4, <1>7, <1>9

\* A transform draws every pixel.
LEMMA Transforms ==
  ASSUME WrapAssumption, NEW img \in Images, NEW fn,
         \A y \in 0..(img.h - 1), x \in 0..(img.w - 1) : fn[y][x] \in Colours
  PROVE  LET d == applyTransform(img, fn)
         IN  /\ d \in Shaped(img)
             /\ \A x \in 0..(img.w - 1), y \in 0..(img.h - 1) :
                  getPixel(d, x, y) = Shown(img, fn[y][x])
<1> DEFINE d == applyTransform(img, fn)
<1>1. img.w \in Nat /\ img.h \in Nat /\ 0 + img.w <= img.w /\ 0 + img.h <= img.h
  BY DEF Images
<1>2. Drawn(img, 0, 0, img.w, img.h, fn, FALSE) \in AreaStates(img, 0, 0, img.w, img.h, fn, FALSE)
  BY <1>1, Draws
<1>3. d \in AreaStates(img, 0, 0, img.w, img.h, fn, FALSE)
  BY <1>2 DEF applyTransform
<1> HIDE DEF d
<1>4. ASSUME NEW x \in 0..(img.w - 1), NEW y \in 0..(img.h - 1)
      PROVE  getPixel(d, x, y) = Shown(img, fn[y][x])
  <2>1. y \in 0..(0 + img.h - 1) /\ x \in 0..(0 + img.w - 1) /\ y - 0 = y /\ x - 0 = x
    BY <1>1
  <2>2. getPixel(d, x, y) = Blended(img, getPixel(img, x, y), fn[y - 0][x - 0], FALSE)
    BY <1>3, <2>1 DEF AreaStates
  <2> QED BY <2>1, <2>2 DEF Blended
<1> QED BY <1>3, <1>4 DEF AreaStates, d

Within(img, x, y) == x \in 0..(img.w - 1) /\ y \in 0..(img.h - 1)

\* move() takes each pixel from where it was, or clears it.
LEMMA MovesPixels ==
  ASSUME WrapAssumption, NEW img \in Images, NEW dx \in Int, NEW dy \in Int
  PROVE  LET d == Moved(img, dx, dy)
         IN  /\ d \in Shaped(img)
             /\ \A x \in 0..(img.w - 1), y \in 0..(img.h - 1) :
                  getPixel(d, x, y) = IF Within(img, x - dx, y - dy)
                                      THEN getPixel(img, x - dx, y - dy) ELSE Shown(img, Clear)
<1> DEFINE d == Moved(img, dx, dy)
<1>1. CASE dx = 0 /\ dy = 0
  <2>1. d = img
    BY <1>1 DEF Moved
  <2>2. \A x \in 0..(img.w - 1) : x - dx = x
    BY <1>1
  <2>3. \A y \in 0..(img.h - 1) : y - dy = y
    BY <1>1
  <2> QED BY <2>1, <2>2, <2>3 DEF Within, Shaped
<1>2. CASE ~(dx = 0 /\ dy = 0)
  <2> DEFINE fn == [y \in 0..(img.h - 1) |-> [x \in 0..(img.w - 1) |->
                     IF x - dx \in 0..(img.w - 1) /\ y - dy \in 0..(img.h - 1)
                     THEN getPixel(clone(img), x - dx, y - dy) ELSE Clear]]
  <2>1. d = applyTransform(img, fn)
    BY <1>2 DEF Moved
  <2>2. ASSUME NEW y \in 0..(img.h - 1), NEW x \in 0..(img.w - 1)
        PROVE  /\ fn[y][x] = IF Within(img, x - dx, y - dy) THEN getPixel(img, x - dx, y - dy) ELSE Clear
               /\ fn[y][x] \in Colours
    <3>1. fn[y][x] = IF Within(img, x - dx, y - dy) THEN getPixel(clone(img), x - dx, y - dy) ELSE Clear
      BY DEF Within
    <3>2. CASE Within(img, x - dx, y - dy)
      <4>1. x - dx \in 0..(img.w - 1) /\ y - dy \in 0..(img.h - 1)
        BY <3>2 DEF Within
      <4>2. getPixel(clone(img), x - dx, y - dy) = getPixel(img, x - dx, y - dy)
        BY <4>1, CloneSame
      <4>3. getPixel(img, x - dx, y - dy) \in Colours
        BY <4>1, PixelType
      <4> QED BY <3>1, <3>2, <4>2, <4>3
    <3>3. CASE ~Within(img, x - dx, y - dy)
      <4>1. Clear \in Colours
        BY DEF Clear, Colours, Byte
      <4> QED BY <3>1, <3>3, <4>1
    <3> QED BY <3>2, <3>3
  <2> HIDE DEF fn, d
  <2>3. /\ applyTransform(img, fn) \in Shaped(img)
        /\ \A x \in 0..(img.w - 1), y \in 0..(img.h - 1) :
             getPixel(applyTransform(img, fn), x, y) = Shown(img, fn[y][x])
    BY <2>2, Transforms
  <2>4. ASSUME NEW x \in 0..(img.w - 1), NEW y \in 0..(img.h - 1)
        PROVE  getPixel(d, x, y) = IF Within(img, x - dx, y - dy)
                                   THEN getPixel(img, x - dx, y - dy) ELSE Shown(img, Clear)
    <3>1. getPixel(d, x, y) = Shown(img, fn[y][x])
      BY <2>1, <2>3
    <3>2. img \in Shaped(img)
      BY DEF Shaped
    <3>3. Shown(img, getPixel(img, x - dx, y - dy)) = getPixel(img, x - dx, y - dy)
      BY <3>2, ShownIsShown
    <3> QED BY <2>2, <3>1, <3>3
  <2> QED BY <2>1, <2>3, <2>4 DEF d
<1> QED BY <1>1, <1>2

\* What moves out and back leaves nothing behind.
LEMMA MovesBack ==
  ASSUME WrapAssumption, NEW img \in Images, NEW dx \in Int, NEW dy \in Int,
         NEW x \in 0..(img.w - 1), NEW y \in 0..(img.h - 1)
  PROVE  getPixel(Moved(Moved(img, dx, dy), -dx, -dy), x, y)
           = IF Within(img, x + dx, y + dy) THEN getPixel(img, x, y) ELSE Shown(img, Clear)
<1> DEFINE m == Moved(img, dx, dy)
<1>1. /\ m \in Shaped(img)
      /\ \A u \in 0..(img.w - 1), v \in 0..(img.h - 1) :
           getPixel(m, u, v) = IF Within(img, u - dx, v - dy)
                               THEN getPixel(img, u - dx, v - dy) ELSE Shown(img, Clear)
  BY MovesPixels
<1> HIDE DEF m
<1>2. m \in Images /\ m.w = img.w /\ m.h = img.h /\ m.chans = img.chans
  BY <1>1 DEF Shaped
<1>3. -dx \in Int /\ -dy \in Int /\ x - (-dx) = x + dx /\ y - (-dy) = y + dy
  OBVIOUS
<1>4. getPixel(Moved(m, -dx, -dy), x, y)
      = IF Within(m, x - (-dx), y - (-dy)) THEN getPixel(m, x - (-dx), y - (-dy)) ELSE Shown(m, Clear)
  BY <1>2, <1>3, MovesPixels
<1>5. Shown(m, Clear) = Shown(img, Clear) /\ \A u, v : Within(m, u, v) <=> Within(img, u, v)
  BY <1>2 DEF Shown, Within
<1>6. getPixel(Moved(m, -dx, -dy), x, y)
      = IF Within(img, x + dx, y + dy) THEN getPixel(m, x + dx, y + dy) ELSE Shown(img, Clear)
  BY <1>3, <1>4, <1>5
<1>7. ASSUME Within(img, x + dx, y + dy) PROVE getPixel(m, x + dx, y + dy) = getPixel(img, x, y)
  <2>1. x + dx \in 0..(img.w - 1) /\ y + dy \in 0..(img.h - 1)
    BY <1>7 DEF Within
  <2>2. x + dx - dx = x /\ y + dy - dy = y
    OBVIOUS
  <2>3. Within(img, x, y)
    BY DEF Within
  <2> QED BY <1>1, <2>1, <2>2, <2>3
<1> QED BY <1>6, <1>7 DEF m

\* An image of four channels all of whose pixels are clear.
LEMMA ClearIsTransparent ==
  ASSUME WrapAssumption, NEW img \in Images, img.chans = 4,
         \A x \in 0..(img.w - 1), y \in 0..(img.h - 1) : getPixel(img, x, y) = Clear
  PROVE  isFullyTransparent(img)
<1> DEFINE m == img.w * img.h
<1>1. img.w \in Nat /\ img.h \in Nat /\ m * 4 < Wrap
  BY DEF Images
<1>2. m \in Nat
  BY <1>1
<1>3. ASSUME NEW i \in 1..(m * 4), i % 4 = 0 PROVE img.data[i] = 0
  <2> HIDE DEF m
  <2>1. PICK n \in 0..(m - 1) : i = n * 4 + 4
    <3>1. i = 4 * (i \div 4)
      BY <1>2, <1>3
    <3>2. i \div 4 \in Int
      BY <1>2
    <3>3. i \div 4 - 1 \in 0..(m - 1) /\ i = (i \div 4 - 1) * 4 + 4
      BY <1>2, <3>1, <3>2
    <3> QED BY <3>3
  <2>2. PICK x \in 0..(img.w - 1), y \in 0..(img.h - 1) : n = CellNo(img.w, x, y)
    BY <1>1, CellOf DEF m
  <2>3. ByteAt(img, x, y, 3) = CellNo(img.w, x, y) * img.chans + 3 + 1
    <3>1. 3 \in 0..(img.chans - 1)
      OBVIOUS
    <3> QED BY <3>1, InMemory
  <2>4. ByteAt(img, x, y, 4 - 1) = i
    BY <1>2, <2>1, <2>2, <2>3
  <2>5. getPixel(img, x, y)[4] = img.data[ByteAt(img, x, y, 4 - 1)]
    BY DEF getPixel
  <2>6. Clear[4] = 0
    BY DEF Clear
  <2> QED BY <2>4, <2>5, <2>6
<1>4. u32(m * 4) = m * 4
  <2>1. m * 4 \in Nat /\ m * 4 \in u32s
    BY <1>1, <1>2 DEF u32s, WrapAssumption
  <2> QED BY <2>1, Unwrapped
<1> QED BY <1>3, <1>4 DEF isFullyTransparent

-----------------------------------------------------------------------------
(* Images: all operations keep them in memory *)

\* fill() keeps the shape.
LEMMA FillKeeps ==
  ASSUME NEW img \in Images, NEW clr \in Colours
  PROVE  Filled(img, clr) \in Shaped(img)
<1> DEFINE n == Len(img.data)
<1>1. img.chans \in {3, 4} /\ img.data \in Seq(Byte) /\ n \in Nat /\ DOMAIN img.data = 1..n
  BY DEF Images
<1>2. ASSUME NEW i \in 1..n
      PROVE  (IF i <= u32(img.w * img.h * img.chans) THEN clr[((i - 1) % img.chans) + 1] ELSE img.data[i])
               \in Byte
  <2>1. ((i - 1) % img.chans) + 1 \in 1..4
    <3>1. i - 1 \in Nat
      BY <1>1
    <3>2. \A m \in Nat : \A c \in {3, 4} : (m % c) + 1 \in 1..4
      OBVIOUS
    <3> QED BY <1>1, <3>1, <3>2
  <2> QED BY <1>1, <2>1 DEF Colours
<1>3. Filling(img, clr)
      = [i \in 1..n |-> IF i <= u32(img.w * img.h * img.chans)
                        THEN clr[((i - 1) % img.chans) + 1] ELSE img.data[i]]
  BY <1>1 DEF Filling
<1>4. Filling(img, clr) \in [1..n -> Byte]
  BY <1>2, <1>3
<1>5. Filling(img, clr) \in Seq(Byte) /\ Len(Filling(img, clr)) = n
  BY <1>1, <1>4
<1> QED BY <1>5, NewData DEF Filled

\* allocate() gives memory for the size that is asked for.
LEMMA AllocateKeeps ==
  ASSUME WrapAssumption, NEW img \in Images, NEW w \in Nat, NEW h \in Nat, w * h * 4 < Wrap,
         NEW chans \in {3, 4}, NEW bg \in Colours
  PROVE  LET d == Allocated(img, w, h, bg, chans)
         IN  d \in Images /\ d.w = w /\ d.h = h /\ d.chans = chans
<1> DEFINE new == [w |-> w, h |-> h, chans |-> chans, data |-> [i \in 1..u32(w * h * chans) |-> 0]]
           old == IF <<w, h, chans>> = <<img.w, img.h, img.chans>> /\ img.data # <<>> THEN img ELSE new
<1>1. w * h * chans \in Nat /\ u32(w * h * chans) = w * h * chans
  <2> DEFINE m == w * h
  <2>1. m \in Nat /\ m * 4 < Wrap
    OBVIOUS
  <2> HIDE DEF m
  <2> DEFINE n == m * chans
  <2>2. n \in Nat /\ n < Wrap
    BY <2>1 DEF WrapAssumption
  <2>3. n \in u32s
    BY <2>2 DEF u32s, WrapAssumption
  <2> HIDE DEF n
  <2>4. u32(n) = n
    BY <2>2, <2>3, Unwrapped
  <2> QED BY <2>2, <2>4 DEF n, m
<1>2. new \in Images
  <2>1. [i \in 1..u32(w * h * chans) |-> 0] \in [1..(w * h * chans) -> Byte]
    BY <1>1 DEF Byte
  <2>2. /\ [i \in 1..u32(w * h * chans) |-> 0] \in Seq(Byte)
        /\ Len([i \in 1..u32(w * h * chans) |-> 0]) = w * h * chans
    BY <1>1, <2>1
  <2> DEFINE data == [i \in 1..u32(w * h * chans) |-> 0]
  <2>3. data \in Seq(Byte) /\ Len(data) = w * h * chans
    BY <2>2
  <2>4. new = [w |-> w, h |-> h, chans |-> chans, data |-> data]
    OBVIOUS
  <2> HIDE DEF data, new
  <2>5. new \in [w : Nat, h : Nat, chans : {3, 4}, data : Seq(Byte)]
    BY <2>3, <2>4
  <2>6. new.w = w /\ new.h = h /\ new.chans = chans /\ new.data = data
    BY <2>4
  <2>7. new.w * new.h * new.chans <= Len(new.data)
    BY <1>1, <2>3, <2>6
  <2> QED BY <2>5, <2>6, <2>7 DEF Images
<1>3. old \in Images /\ old.w = w /\ old.h = h /\ old.chans = chans
  <2>1. new.w = w /\ new.h = h /\ new.chans = chans
    OBVIOUS
  <2> HIDE DEF new
  <2> QED BY <1>2, <2>1
<1> HIDE DEF old
<1>4. Filled(old, bg) \in Shaped(old)
  BY <1>3, FillKeeps
<1>5. Allocated(img, w, h, bg, chans) = Filled(old, bg)
  BY DEF Allocated, old
<1> QED BY <1>3, <1>4, <1>5 DEF Shaped

\* nearestDownscale() gives an image whose memory holds its pixels, with three
\* channels as well as with four.
LEMMA DownscaleKeeps ==
  ASSUME WrapAssumption, NEW img \in Images, NEW division \in Nat \ {0}
  PROVE  Downscaled(img, division) \in Images
<1> DEFINE newW == img.w \div division
           newH == img.h \div division
           bg == <<255, 255, 255, Opaque>>
           blank == Allocated(PngImage0, newW, newH, bg, 4)
           fn == [y \in 0..(newH - 1) |-> [x \in 0..(newW - 1) |->
                   getPixel(img, (x \div newW) * img.w, (y \div newH) * img.h)]]
           e == applyTransform(blank, fn)
           d == [img EXCEPT !.w = newW, !.h = newH, !.data = e.data]
<1>1. /\ img.w \in Nat /\ img.h \in Nat /\ img.chans \in {3, 4}
      /\ img.w * img.h * 4 < Wrap
  BY DEF Images
<1>2. newW \in 0..img.w /\ newH \in 0..img.h
  <2>1. \A n \in Nat : n \div division \in 0..n
    OBVIOUS
  <2> QED BY <1>1, <2>1
<1>3. newW \in Nat /\ newH \in Nat /\ newW <= img.w /\ newH <= img.h
  BY <1>1, <1>2
<1>4. Downscaled(img, division) = d
  BY DEF Downscaled
<1>5. newW * newH * 4 < Wrap
  <2> DEFINE W == img.w
             H == img.h
  <2>1. W \in Nat /\ H \in Nat /\ W * H * 4 < Wrap /\ newW <= W /\ newH <= H
    BY <1>1, <1>3
  <2> HIDE DEF W, H, newW, newH
  <2>2. newW * newH <= W * newH
    BY <1>3, <2>1, Product
  <2>3. newH * W <= H * W
    BY <1>3, <2>1, Product
  <2>4. newH * W = W * newH /\ H * W = W * H /\ newW * newH \in Nat /\ W * newH \in Nat /\ W * H \in Nat
    BY <1>3, <2>1
  <2> QED BY <2>1, <2>2, <2>3, <2>4 DEF WrapAssumption
<1>6. /\ PngImage0 \in Images /\ bg \in Colours
  <2> DEFINE none == <<>>
  <2>1. none \in Seq(Byte) /\ Len(none) = 0
    OBVIOUS
  <2>2. PngImage0 = [w |-> 0, h |-> 0, chans |-> 4, data |-> none]
    BY DEF PngImage0
  <2> HIDE DEF none
  <2>3. PngImage0 \in Images
    BY <2>1, <2>2 DEF Images, WrapAssumption
  <2>4. bg \in Colours
    BY DEF Colours, Byte, Opaque
  <2> QED BY <2>3, <2>4
<1> HIDE DEF newW, newH, bg
<1>7. blank \in Images /\ blank.w = newW /\ blank.h = newH /\ blank.chans = 4
  BY <1>3, <1>5, <1>6, AllocateKeeps
<1> HIDE DEF blank
<1>8. ASSUME NEW y \in 0..(newH - 1), NEW x \in 0..(newW - 1)
      PROVE  fn[y][x] \in Colours
  <2>1. fn[y][x] = getPixel(img, (x \div newW) * img.w, (y \div newH) * img.h)
    OBVIOUS
  <2>2. x \div newW = 0 /\ y \div newH = 0
    <3>1. \A n \in Nat \ {0} : \A m \in 0..(n - 1) : m \div n = 0
      OBVIOUS
    <3>2. newW \in Nat \ {0} /\ newH \in Nat \ {0}
      BY <1>3
    <3> QED BY <3>1, <3>2
  <2>3. (x \div newW) * img.w = 0 /\ (y \div newH) * img.h = 0
    BY <1>1, <2>2
  <2>4. 0 \in 0..(img.w - 1) /\ 0 \in 0..(img.h - 1)
    BY <1>1, <1>3
  <2>5. getPixel(img, 0, 0) \in Colours
    BY <2>4, PixelType
  <2> QED BY <2>1, <2>3, <2>5
<1> HIDE DEF fn
<1>9. e \in Shaped(blank)
  BY <1>7, <1>8, Transforms
<1> HIDE DEF e
<1>10. e.data \in Seq(Byte) /\ newW * newH * 4 <= Len(e.data) /\ Len(e.data) \in Nat
  BY <1>7, <1>9 DEF Shaped, Images
<1>11. /\ d \in [w : Nat, h : Nat, chans : {3, 4}, data : Seq(Byte)]
       /\ d.w = newW /\ d.h = newH /\ d.chans = img.chans /\ d.data = e.data
  BY <1>3, <1>10 DEF Images
<1>12. newW * newH * img.chans <= newW * newH * 4
  <2> DEFINE m == newW * newH
             c == img.chans
  <2>1. m \in Nat /\ c \in {3, 4}
    BY <1>1, <1>3
  <2> HIDE DEF m, c
  <2>2. m * c <= m * 4
    BY <2>1
  <2> QED BY <2>2 DEF m, c
<1>13. newW * newH * img.chans <= Len(e.data)
  <2>1. newW * newH * img.chans \in Nat /\ newW * newH * 4 \in Nat
    BY <1>1, <1>3
  <2> QED BY <1>10, <1>12, <2>1
<1> HIDE DEF d
<1>14. d \in Images
  BY <1>5, <1>11, <1>13 DEF Images
<1> QED BY <1>4, <1>14

\* Images are well formed at the beginning.
LEMMA ImagesInit == PngAssumption /\ PngInit => PngTypeOK
<1> SUFFICES ASSUME PngAssumption, PngInit PROVE PngTypeOK
  OBVIOUS
<1> DEFINE none == <<>>
<1>1. none \in Seq(Byte) /\ Len(none) = 0
  OBVIOUS
<1>2. PngImage0 = [w |-> 0, h |-> 0, chans |-> 4, data |-> none]
  BY DEF PngImage0
<1> HIDE DEF none
<1>3. PngImage0 \in Images
  BY <1>1, <1>2 DEF Images, PngAssumption
<1> QED BY <1>3 DEF PngInit, PngTypeOK

\* Every operation keeps them so.
LEMMA ImagesNext == PngAssumption /\ PngTypeOK /\ [PngNext]_imageVars => PngTypeOK'
<1> SUFFICES ASSUME PngAssumption, PngTypeOK, [PngNext]_imageVars PROVE PngTypeOK'
  OBVIOUS
<1>1. canvas \in Images /\ stamp \in Stamps /\ WrapAssumption /\ Wrap \in Nat \ {0}
  BY Constants DEF PngTypeOK, PngAssumption
<1>2. SUFFICES ASSUME PngNext PROVE PngTypeOK'
  BY DEF PngTypeOK, imageVars
<1>3. ASSUME NEW w \in Sides, NEW h \in Sides, NEW bg \in Inks, NEW chans \in {3, 4},
             allocate(w, h, bg, chans)
      PROVE  PngTypeOK'
  <2>1. w \in Nat /\ h \in Nat /\ w * h * 4 < Wrap /\ bg \in Colours
    BY DEF PngAssumption, u32s, Colours
  <2>2. Allocated(canvas, w, h, bg, chans) \in Images
    BY <1>1, <2>1, AllocateKeeps
  <2> QED BY <1>1, <1>3, <2>2 DEF allocate, PngTypeOK
<1>4. ASSUME NEW clr \in Inks, fill(clr) PROVE PngTypeOK'
  <2>1. clr \in Colours
    BY DEF PngAssumption, Colours
  <2> QED BY <1>1, <1>4, <2>1, FillKeeps DEF fill, PngTypeOK, Shaped
<1>5. ASSUME NEW x \in Extents, NEW y \in Extents, NEW blending \in BOOLEAN, paste(x, y, blending)
      PROVE  PngTypeOK'
  <2>1. Pasted(canvas, stamp, x, y, blending) \in Shaped(canvas)
    BY <1>1, PasteLays
  <2> QED BY <1>1, <1>5, <2>1 DEF paste, PngTypeOK, Shaped
<1>6. ASSUME NEW offX \in Offsets, NEW offY \in Offsets, move(offX, offY) PROVE PngTypeOK'
  <2>1. offX \in Int /\ offY \in Int
    BY <1>1 DEF PngAssumption
  <2>2. Moved(canvas, offX, offY) \in Shaped(canvas)
    BY <1>1, <2>1, MovesPixels
  <2> QED BY <1>1, <1>6, <2>2 DEF move, PngTypeOK, Shaped
<1>7. ASSUME NEW division \in Divisions, nearestDownscale(division) PROVE PngTypeOK'
  <2>1. division \in Nat \ {0}
    BY DEF PngAssumption, u32s
  <2>2. Downscaled(canvas, division) \in Images
    BY <1>1, <2>1, DownscaleKeeps
  <2> QED BY <1>1, <1>7, <2>2 DEF nearestDownscale, PngTypeOK
<1>8. ASSUME freeMem PROVE PngTypeOK'
  <2> DEFINE none == <<>>
             d == [canvas EXCEPT !.w = 0, !.h = 0, !.data = none]
  <2>1. none \in Seq(Byte) /\ Len(none) = 0
    OBVIOUS
  <2>2. canvas' = d
    BY <1>8 DEF freeMem
  <2> HIDE DEF none
  <2>3. d \in [w : Nat, h : Nat, chans : {3, 4}, data : Seq(Byte)]
        /\ d.w = 0 /\ d.h = 0 /\ d.chans \in {3, 4} /\ d.data = none
    BY <1>1, <2>1 DEF Images
  <2> HIDE DEF d
  <2>4. d.w * d.h * 4 = 0 /\ d.w * d.h * d.chans = 0
    BY <2>3
  <2>5. d \in Images
    BY <1>1, <2>1, <2>3, <2>4 DEF Images
  <2> QED BY <1>1, <1>8, <2>2, <2>5 DEF freeMem, PngTypeOK
<1> QED BY <1>2, <1>3, <1>4, <1>5, <1>6, <1>7, <1>8 DEF PngNext

\* An image's memory holds all its pixels, whatever was done to it, also when
\* nearestDownscale() gave it memory of another number of channels.
THEOREM ImagesTypeCorrect == ASSUME PngAssumption PROVE PngSpec => []PngTypeOK
BY ImagesInit, ImagesNext, PTL DEF PngSpec

\* Of well-formed images the property holds.
LEMMA ImagesExact == PngAssumption /\ PngTypeOK => PixelsExact
<1> SUFFICES ASSUME PngAssumption, PngTypeOK PROVE PixelsExact
  OBVIOUS
<1>1. canvas \in Images /\ stamp \in Stamps /\ WrapAssumption
  BY Constants DEF PngTypeOK
<1>2. PastesRectangle
  BY <1>1, PasteLays DEF PastesRectangle
<1>3. Len(canvas.data) >= canvas.w * canvas.h * canvas.chans
  <2> DEFINE n == canvas.w * canvas.h * canvas.chans
  <2>1. n <= Len(canvas.data) /\ Len(canvas.data) \in Nat /\ n \in Nat
    BY <1>1 DEF Images
  <2> HIDE DEF n
  <2>2. Len(canvas.data) >= n
    BY <2>1
  <2> QED BY <2>2 DEF n
<1>4. ASSUME NEW dx \in Offsets, NEW dy \in Offsets
      PROVE  LET moved == Moved(canvas, dx, dy)
                 back == Moved(moved, -dx, -dy)
                 stays(x, y) == x + dx \in 0..(canvas.w - 1) /\ y + dy \in 0..(canvas.h - 1)
             IN  /\ \A x \in 0..(canvas.w - 1), y \in 0..(canvas.h - 1) :
                      getPixel(back, x, y) =
                        IF stays(x, y) THEN getPixel(canvas, x, y) ELSE Shown(canvas, Clear)
                 /\ /\ canvas.chans = 4
                    /\ \A x \in 0..(canvas.w - 1), y \in 0..(canvas.h - 1) : ~stays(x, y)
                    => isFullyTransparent(moved)
  <2> DEFINE moved == Moved(canvas, dx, dy)
  <2>1. dx \in Int /\ dy \in Int
    BY <1>1 DEF PngAssumption, WrapAssumption
  <2>2. \A x \in 0..(canvas.w - 1), y \in 0..(canvas.h - 1) :
          getPixel(Moved(moved, -dx, -dy), x, y) =
            IF Within(canvas, x + dx, y + dy) THEN getPixel(canvas, x, y) ELSE Shown(canvas, Clear)
    BY <1>1, <2>1, MovesBack
  <2>3. ASSUME canvas.chans = 4,
               \A x \in 0..(canvas.w - 1), y \in 0..(canvas.h - 1) : ~Within(canvas, x + dx, y + dy)
        PROVE  isFullyTransparent(moved)
    <3>1. /\ moved \in Shaped(canvas)
          /\ \A x \in 0..(canvas.w - 1), y \in 0..(canvas.h - 1) :
               getPixel(moved, x, y) = IF Within(canvas, x - dx, y - dy)
                                       THEN getPixel(canvas, x - dx, y - dy) ELSE Shown(canvas, Clear)
      BY <1>1, <2>1, MovesPixels
    <3> HIDE DEF moved
    <3>2. moved \in Images /\ moved.chans = 4 /\ moved.w = canvas.w /\ moved.h = canvas.h
      BY <2>3, <3>1 DEF Shaped
    <3>3. ASSUME NEW x \in 0..(canvas.w - 1), NEW y \in 0..(canvas.h - 1)
          PROVE  getPixel(moved, x, y) = Clear
      <4>1. ~Within(canvas, x - dx, y - dy)
        <5>1. SUFFICES ASSUME Within(canvas, x - dx, y - dy) PROVE FALSE
          OBVIOUS
        <5>2. x - dx \in 0..(canvas.w - 1) /\ y - dy \in 0..(canvas.h - 1)
          BY <5>1 DEF Within
        <5>3. ~Within(canvas, x - dx + dx, y - dy + dy)
          BY <2>3, <5>2
        <5>4. x - dx + dx = x /\ y - dy + dy = y
          BY <2>1
        <5> QED BY <5>3, <5>4 DEF Within
      <4>2. Shown(canvas, Clear) = Clear
        BY <2>3 DEF Shown
      <4> QED BY <3>1, <4>1, <4>2
    <3> QED BY <1>1, <3>2, <3>3, ClearIsTransparent
  <2> QED BY <2>2, <2>3 DEF Within
<1> QED BY <1>2, <1>3, <1>4 DEF PixelsExact, MovesWithinMemory

(***************************************************************************)
(* paste() lays the rectangle it is asked for, clipped by both images, and *)
(* nothing if an end wraps; move() brings back what it moved away, and     *)
(* leaves nothing of what moved out, for images of every size that can be  *)
(* allocated. (PngImage.cpp:309-355, 402-421)                              *)
(***************************************************************************)
THEOREM PixelsAreExact == ASSUME PngAssumption PROVE PngSpec => []PixelsExact
BY ImagesTypeCorrect, ImagesExact, PTL

-----------------------------------------------------------------------------
(* Varints: powers of two *)

\* Doubling n times.
Doubles(f, n) == f = [i \in 0..n |-> IF i = 0 THEN 1 ELSE 2 * f[i - 1]]

\* It can be done.
LEMMA DoublesExists ==
  ASSUME NEW n \in Nat
  PROVE  \E f : Doubles(f, n) /\ f[n] \in Nat \ {0}
<1> DEFINE S == [i \in 0..n |-> Nat \ {0}]
           F == [i \in 1..n |-> [x \in Nat \ {0} |-> 2 * x]]
<1>1. ASSUME NEW i \in 1..n, NEW x \in S[i - 1] PROVE F[i][x] = 2 * x /\ F[i][x] \in S[i]
  <2>1. i \in 0..n /\ i - 1 \in 0..n
    OBVIOUS
  <2>2. S[i] = Nat \ {0} /\ S[i - 1] = Nat \ {0}
    BY <2>1
  <2>3. F[i][x] = 2 * x
    BY <2>2
  <2> HIDE DEF S, F
  <2>4. x \in Nat \ {0}
    BY <2>2
  <2>5. 2 * x \in Nat \ {0}
    BY <2>4
  <2> QED BY <2>2, <2>3, <2>5
<1>2. 1 \in S[0] /\ S[n] = Nat \ {0}
  OBVIOUS
<1>3. \A i \in 1..n : i - 1 \in 0..n
  OBVIOUS
<1> HIDE DEF S, F
<1>4. PICK f : IsLoop(f, n, 1, F) /\ \A i \in 0..n : f[i] \in S[i]
  BY <1>1, <1>2, LoopExists
<1>5. ASSUME NEW i \in 0..n PROVE f[i] = IF i = 0 THEN 1 ELSE 2 * f[i - 1]
  <2>1. f[i] = IF i = 0 THEN 1 ELSE F[i][f[i - 1]]
    BY <1>4 DEF IsLoop
  <2>2. i # 0 => i \in 1..n
    OBVIOUS
  <2> QED BY <1>1, <1>3, <1>4, <2>1, <2>2
<1>6. f = [i \in 0..n |-> f[i]]
  BY <1>4 DEF IsLoop
<1>7. Doubles(f, n)
  BY <1>5, <1>6 DEF Doubles
<1>8. f[n] \in S[n]
  BY <1>4
<1> QED BY <1>2, <1>7, <1>8

\* And comes to the same, however often it goes on.
LEMMA DoublesAgree ==
  ASSUME NEW n \in Nat, NEW m \in Nat, NEW f, NEW g, Doubles(f, n), Doubles(g, m),
         NEW k \in Nat, k <= n, k <= m
  PROVE  f[k] = g[k]
<1> DEFINE T == {i \in 0..k : f[i] = g[i]}
<1>1. 0 \in T
  BY DEF Doubles
<1>2. ASSUME NEW i \in 1..k, i - 1 \in T PROVE i \in T
  <2>1. f[i] = 2 * f[i - 1] /\ g[i] = 2 * g[i - 1]
    BY DEF Doubles
  <2> QED BY <1>2, <2>1
<1> HIDE DEF T
<1>3. k \in T
  BY <1>1, <1>2, Induction
<1> QED BY <1>3 DEF T

\* Hence there are powers, and each is twice the one before.
LEMMA PowerDef ==
  /\ Power[0] = 1
  /\ \A n \in Nat : Power[n] \in Nat \ {0} /\ Power[n + 1] = 2 * Power[n]
<1> DEFINE D(n) == CHOOSE f : Doubles(f, n)
           P == [n \in Nat |-> D(n)[n]]
           IsPower(p) == p = [n \in Nat |-> IF n = 0 THEN 1 ELSE 2 * p[n - 1]]
<1>1. ASSUME NEW n \in Nat PROVE Doubles(D(n), n) /\ D(n)[n] \in Nat \ {0}
  <2>1. PICK f : Doubles(f, n) /\ f[n] \in Nat \ {0}
    BY DoublesExists
  <2>2. Doubles(D(n), n)
    BY <2>1
  <2>3. D(n)[n] = f[n]
    BY <2>1, <2>2, DoublesAgree
  <2> QED BY <2>1, <2>2, <2>3
<1>2. P = [n \in Nat |-> P[n]] /\ \A n \in Nat : P[n] = D(n)[n]
  OBVIOUS
<1> HIDE DEF D, P
<1>3. ASSUME NEW n \in Nat PROVE P[n] = IF n = 0 THEN 1 ELSE 2 * P[n - 1]
  <2>1. D(n)[n] = IF n = 0 THEN 1 ELSE 2 * D(n)[n - 1]
    <3>1. Doubles(D(n), n) /\ n \in 0..n
      BY <1>1
    <3> QED BY <3>1 DEF Doubles
  <2>2. CASE n = 0
    BY <1>2, <2>1, <2>2
  <2>3. CASE n # 0
    <3>1. n - 1 \in Nat
      BY <2>3
    <3>2. D(n)[n - 1] = D(n - 1)[n - 1]
      BY <1>1, <3>1, DoublesAgree
    <3> QED BY <1>2, <2>1, <2>3, <3>1, <3>2
  <2> QED BY <2>2, <2>3
<1>4. IsPower(P)
  BY <1>2, <1>3
<1>5. Power = CHOOSE p : IsPower(p)
  BY DEF Power
<1>6. IsPower(Power)
  BY <1>4, <1>5
<1>7. \A n \in Nat : Power[n] = IF n = 0 THEN 1 ELSE 2 * Power[n - 1]
  BY <1>6
<1> HIDE DEF IsPower
<1>8. ASSUME NEW n \in Nat PROVE Power[n] \in Nat \ {0}
  <2> DEFINE T == {i \in 0..n : Power[i] \in Nat \ {0}}
  <2>1. 0 \in T
    BY <1>7
  <2>2. ASSUME NEW i \in 1..n, i - 1 \in T PROVE i \in T
    <3>1. Power[i] = 2 * Power[i - 1]
      BY <1>7
    <3> QED BY <2>2, <3>1
  <2> HIDE DEF T
  <2>3. n \in T
    BY <2>1, <2>2, Induction
  <2> QED BY <2>3 DEF T
<1>9. ASSUME NEW n \in Nat PROVE Power[n + 1] = 2 * Power[n]
  <2>1. n + 1 \in Nat /\ n + 1 # 0 /\ n + 1 - 1 = n
    OBVIOUS
  <2> QED BY <1>7, <2>1
<1> QED BY <1>7, <1>8, <1>9

\* The power of a sum is the product of the powers.
LEMMA PowerSum ==
  ASSUME NEW m \in Nat, NEW n \in Nat
  PROVE  Power[m + n] = Power[m] * Power[n]
<1> DEFINE T == {i \in 0..n : Power[m + i] = Power[m] * Power[i]}
<1>1. 0 \in T
  <2>1. Power[m] \in Nat /\ Power[0] = 1 /\ m + 0 = m
    BY PowerDef
  <2> QED BY <2>1
<1>2. ASSUME NEW i \in 1..n, i - 1 \in T PROVE i \in T
  <2>1. Power[m + (i - 1) + 1] = 2 * Power[m + (i - 1)] /\ Power[i - 1 + 1] = 2 * Power[i - 1]
    BY PowerDef
  <2>2. m + (i - 1) + 1 = m + i /\ i - 1 + 1 = i
    OBVIOUS
  <2>3. Power[m + (i - 1)] = Power[m] * Power[i - 1]
    BY <1>2
  <2>4. Power[m] \in Nat /\ Power[i - 1] \in Nat
    BY PowerDef
  <2>5. 2 * (Power[m] * Power[i - 1]) = Power[m] * (2 * Power[i - 1])
    BY <2>4
  <2> QED BY <2>1, <2>2, <2>3, <2>5
<1> HIDE DEF T
<1>3. n \in T
  BY <1>1, <1>2, Induction
<1> QED BY <1>3 DEF T

\* A larger number has no smaller power.
LEMMA PowerGrows ==
  ASSUME NEW m \in Nat, NEW n \in Nat, m <= n
  PROVE  Power[m] <= Power[n]
<1>1. n - m \in Nat /\ m + (n - m) = n
  OBVIOUS
<1>2. Power[n] = Power[m] * Power[n - m]
  BY <1>1, PowerSum
<1>3. Power[m] \in Nat /\ Power[n - m] \in Nat \ {0}
  BY <1>1, PowerDef
<1>4. \A a \in Nat : \A b \in Nat \ {0} : a <= a * b
  OBVIOUS
<1> QED BY <1>2, <1>3, <1>4

\* The numbers of the groups and of the words.
LEMMA Sizes ==
  /\ GroupBits \in Nat \ {0} /\ WordBytes \in Nat \ {0} /\ WordBits \in Nat \ {0}
  /\ Group \in Nat /\ Group >= 2 /\ Word \in Nat /\ Word >= 2
  /\ \E half \in Nat \ {0} : Word = 2 * half
<1>1. GroupBits \in Nat \ {0} /\ WordBytes \in Nat \ {0}
  BY VarintsAssumption
<1>2. WordBits \in Nat \ {0}
  <2>1. \A a, b \in Nat \ {0} : a * (b + 1) \in Nat \ {0}
    OBVIOUS
  <2> QED BY <1>1, <2>1 DEF WordBits
<1>3. ASSUME NEW n \in Nat \ {0} PROVE \E half \in Nat \ {0} : Power[n] = 2 * half
  <2>1. n - 1 \in Nat /\ n - 1 + 1 = n
    OBVIOUS
  <2>2. Power[n] = 2 * Power[n - 1] /\ Power[n - 1] \in Nat \ {0}
    BY <2>1, PowerDef
  <2> QED BY <2>2
<1>4. \A n : (\E half \in Nat \ {0} : n = 2 * half) => n \in Nat /\ n >= 2
  OBVIOUS
<1> QED BY <1>1, <1>2, <1>3, <1>4 DEF Group, Word

\* A number is made of its quotient and its remainder, and its quotient is less.
LEMMA Divided ==
  ASSUME NEW G \in Nat, G >= 2, NEW r \in Nat
  PROVE  /\ r \div G \in Nat /\ r % G \in 0..(G - 1) /\ r = G * (r \div G) + (r % G)
         /\ r >= G => r \div G >= 1 /\ r \div G < r
         /\ r < G => r % G = r
         /\ (G + (r % G)) % G = r % G
<1>1. r \div G \in Nat /\ r % G \in 0..(G - 1) /\ r = G * (r \div G) + (r % G)
  OBVIOUS
<1>2. r < G => r % G = r
  OBVIOUS
<1>3. ASSUME r >= G PROVE r \div G >= 1 /\ r \div G < r
  <2> DEFINE q == r \div G
             m == r % G
  <2>1. q \in Nat /\ m \in 0..(G - 1) /\ r = G * q + m
    BY <1>1
  <2> HIDE DEF q, m
  <2>2. q # 0
    BY <1>3, <2>1
  <2>3. 2 * q <= G * q
    BY <2>1, Product
  <2>4. q >= 1 /\ q < r
    BY <2>1, <2>2, <2>3
  <2> QED BY <2>4 DEF q
<1>4. ASSUME NEW m \in 0..(G - 1) PROVE (G + m) % G = m
  OBVIOUS
<1> QED BY <1>1, <1>2, <1>3, <1>4

-----------------------------------------------------------------------------
(* Varints: encoding, which goes on with the quotient *)

\* A function of numbers that is given by B below G, and by C of others from the
\* value of their quotient.
Leads(G, M, R, B, C) ==
  /\ \A v \in 0..M : v < G => B[v] \in R
  /\ \A v \in 0..M : v >= G => \A x \in R : C[v][x] \in R

ByQuotient(f, G, M, R, B, C) ==
  /\ f \in [0..M -> R]
  /\ \A v \in 0..M : f[v] = IF v < G THEN B[v] ELSE C[v][f[v \div G]]

\* There is one.
LEMMA Quotients ==
  ASSUME NEW G \in Nat, G >= 2, NEW M \in Nat, NEW R, NEW B, NEW C, Leads(G, M, R, B, C)
  PROVE  \E f : ByQuotient(f, G, M, R, B, C)
<1> DEFINE Value(g, v) == IF v < G THEN B[v] ELSE C[v][g[v \div G]]
           S == [i \in 0..M |-> {g \in [0..i -> R] : \A v \in 0..i : g[v] = Value(g, v)}]
           Longer(g, i) == [v \in 0..i |-> IF v = i THEN Value(g, i) ELSE g[v]]
           F == [i \in 1..M |-> [g \in S[i - 1] |-> Longer(g, i)]]
           b == [v \in 0..0 |-> B[0]]
<1>1. b \in S[0]
  <2>1. B[0] \in R /\ 0 < G
    BY DEF Leads
  <2>2. b \in [0..0 -> R] /\ \A v \in 0..0 : v = 0 /\ b[v] = B[0]
    BY <2>1
  <2> HIDE DEF b
  <2>3. \A v \in 0..0 : b[v] = Value(b, v)
    BY <2>1, <2>2
  <2> QED BY <2>2, <2>3
<1>2. ASSUME NEW i \in 1..M, NEW g \in S[i - 1] PROVE F[i][g] \in S[i]
  <2>1. i \in 0..M /\ i - 1 \in 0..M /\ i \in Nat \ {0}
    OBVIOUS
  <2>2. g \in [0..(i - 1) -> R] /\ \A v \in 0..(i - 1) : g[v] = Value(g, v)
    BY <2>1
  <2>3. F[i][g] = Longer(g, i)
    OBVIOUS
  <2>4. ASSUME NEW v \in 0..M, v >= G PROVE v \div G \in 0..(v - 1)
    <3>1. v \in Nat
      OBVIOUS
    <3>2. v \div G \in Nat /\ v \div G < v
      BY <2>4, <3>1, Divided
    <3> QED BY <3>1, <3>2
  <2>5. Value(g, i) \in R
    <3>1. CASE i < G
      BY <2>1, <3>1 DEF Leads
    <3>2. CASE i >= G
      <4>1. i \div G \in 0..(i - 1)
        BY <2>1, <2>4, <3>2
      <4>2. g[i \div G] \in R
        BY <2>2, <4>1
      <4>3. C[i][g[i \div G]] \in R
        BY <2>1, <3>2, <4>2 DEF Leads
      <4>4. Value(g, i) = C[i][g[i \div G]]
        BY <2>1, <3>2
      <4> QED BY <4>3, <4>4
    <3> QED BY <2>1, <3>1, <3>2
  <2> DEFINE h == Longer(g, i)
  <2> HIDE DEF Value
  <2>6. \A v \in 0..(i - 1) : v \in 0..i /\ v # i
    BY <2>1
  <2>7. h \in [0..i -> R]
    <3>1. \A v \in 0..i : v # i => v \in 0..(i - 1)
      BY <2>1
    <3> QED BY <2>2, <2>5, <3>1
  <2>8. h[i] = Value(g, i) /\ \A v \in 0..(i - 1) : h[v] = g[v]
    BY <2>1, <2>6
  <2> HIDE DEF h
  <2>9. ASSUME NEW v \in 0..i PROVE Value(h, v) = Value(g, v)
    <3>1. CASE v < G
      BY <3>1 DEF Value
    <3>2. CASE v >= G
      <4>1. v \div G \in 0..(i - 1)
        <5>1. v \div G \in 0..(v - 1)
          <6>1. v \in 0..M
            BY <2>1
          <6> QED BY <2>4, <3>2, <6>1
        <5>2. v - 1 <= i - 1 /\ v \in Nat
          BY <2>1
        <5> DEFINE q == v \div G
        <5>3. q \in 0..(v - 1)
          BY <5>1
        <5> HIDE DEF q
        <5>4. q \in 0..(i - 1)
          BY <2>1, <5>2, <5>3
        <5> QED BY <5>4 DEF q
      <4> QED BY <2>8, <4>1 DEF Value
    <3> QED BY <2>1, <3>1, <3>2
  <2>10. \A v \in 0..i : h[v] = Value(h, v)
    <3>1. \A v \in 0..i : v = i \/ v \in 0..(i - 1)
      BY <2>1
    <3> QED BY <2>2, <2>8, <2>9, <3>1
  <2>11. F[i][g] = h
    BY <2>3 DEF h
  <2>12. S[i] = {e \in [0..i -> R] : \A v \in 0..i : e[v] = Value(e, v)}
    BY <2>1 DEF Value
  <2> QED BY <2>7, <2>10, <2>11, <2>12
<1> HIDE DEF F, b
<1>3. PICK f : IsLoop(f, M, b, F) /\ \A i \in 0..M : f[i] \in S[i]
  <2> HIDE DEF S
  <2>1. \A i \in 1..M : \A x \in S[i - 1] : F[i][x] \in S[i]
    BY <1>2
  <2> QED BY <1>1, <2>1, LoopExists
<1>4. f[M] \in S[M] /\ M \in 0..M
  <2>1. M \in 0..M
    OBVIOUS
  <2> HIDE DEF S
  <2> QED BY <1>3, <2>1
<1>5. f[M] \in [0..M -> R] /\ \A v \in 0..M : f[M][v] = Value(f[M], v)
  BY <1>4
<1>6. ByQuotient(f[M], G, M, R, B, C)
  BY <1>5 DEF ByQuotient
<1> QED BY <1>6

\* What is encoded, by groups.
LEMMA Encodes ==
  \A v \in Unsigned :
    /\ encodeUnsignedVarint[v] \in Seq(ByteRange)
    /\ encodeUnsignedVarint[v] =
         IF v < Group THEN <<v>> ELSE <<Group + (v % Group)>> \o encodeUnsignedVarint[v \div Group]
<1> DEFINE R == Seq(ByteRange)
           B == [v \in Unsigned |-> <<v>>]
           C == [v \in Unsigned |-> [x \in R |-> <<Group + (v % Group)>> \o x]]
           Is(f) == f = [v \in Unsigned |-> IF v < Group THEN <<v>>
                                            ELSE <<Group + (v % Group)>> \o f[v \div Group]]
<1>1. Group \in Nat /\ Group >= 2 /\ Word \in Nat /\ Word >= 2
  BY Sizes
<1>2. ASSUME NEW v \in Unsigned PROVE v \in Nat /\ v % Group \in 0..(Group - 1)
  <2>1. v \in Nat
    BY <1>1 DEF Unsigned
  <2> QED BY <1>1, <2>1, Divided
<1>3. ASSUME NEW v \in Unsigned, v < Group PROVE B[v] \in R /\ B[v] = <<v>>
  <2>1. v \in ByteRange
    BY <1>1, <1>2, <1>3 DEF ByteRange
  <2> QED BY <2>1
<1>4. ASSUME NEW v \in Unsigned, NEW x \in R
      PROVE  C[v][x] \in R /\ C[v][x] = <<Group + (v % Group)>> \o x
  <2>1. Group + (v % Group) \in ByteRange
    <3> DEFINE m == v % Group
    <3>1. m \in 0..(Group - 1)
      BY <1>2
    <3> HIDE DEF m
    <3>2. Group + m \in ByteRange
      BY <1>1, <3>1 DEF ByteRange
    <3> QED BY <3>2 DEF m
  <2>2. <<Group + (v % Group)>> \in Seq(ByteRange)
    BY <2>1
  <2>3. C[v][x] = <<Group + (v % Group)>> \o x
    OBVIOUS
  <2>4. \A s, t \in Seq(ByteRange) : s \o t \in Seq(ByteRange)
    OBVIOUS
  <2> QED BY <2>2, <2>3, <2>4
<1> HIDE DEF R, B, C
<1> DEFINE M == Word - 1
<1>5. M \in Nat /\ Unsigned = 0..M /\ \A v \in Unsigned : ~(v < Group) <=> v >= Group
  BY <1>1 DEF Unsigned
<1> HIDE DEF M
<1>6. PICK f \in [0..M -> R] :
        \A v \in 0..M : f[v] = IF v < Group THEN B[v] ELSE C[v][f[v \div Group]]
  <2>1. \A v \in 0..M : v < Group => B[v] \in R
    BY <1>3, <1>5
  <2>2. \A v \in 0..M : v >= Group => \A x \in R : C[v][x] \in R
    BY <1>4, <1>5
  <2>3. Leads(Group, M, R, B, C)
    BY <2>1, <2>2 DEF Leads
  <2>4. PICK f : ByQuotient(f, Group, M, R, B, C)
    BY <1>1, <1>5, <2>3, Quotients
  <2> QED BY <2>4 DEF ByQuotient
<1>7. ASSUME NEW v \in Unsigned, ~(v < Group) PROVE f[v \div Group] \in R
  <2>1. v \div Group \in Nat /\ v \div Group < v /\ v \in Nat
    <3>1. v >= Group /\ v \in Nat
      BY <1>2, <1>5, <1>7
    <3> QED BY <1>1, <3>1, Divided
  <2> DEFINE q == v \div Group
  <2>2. q \in Nat /\ q < v
    BY <2>1
  <2> HIDE DEF q
  <2>3. q \in 0..M
    BY <1>1, <1>5, <2>1, <2>2
  <2> QED BY <1>6, <2>3 DEF q
<1>8. ASSUME NEW v \in Unsigned
      PROVE  f[v] = IF v < Group THEN <<v>> ELSE <<Group + (v % Group)>> \o f[v \div Group]
  BY <1>3, <1>4, <1>5, <1>6, <1>7
<1>9. Is(f)
  BY <1>5, <1>6, <1>8
<1>10. encodeUnsignedVarint = CHOOSE g : Is(g)
  BY DEF encodeUnsignedVarint
<1>11. Is(encodeUnsignedVarint)
  BY <1>9, <1>10
<1>12. ASSUME NEW v \in Unsigned
       PROVE  encodeUnsignedVarint[v] = IF v < Group THEN <<v>>
                ELSE <<Group + (v % Group)>> \o encodeUnsignedVarint[v \div Group]
  BY <1>11
<1> DEFINE e == encodeUnsignedVarint
           T == {v \in Unsigned : e[v] \notin R}
<1>13. T = {}
  <2> SUFFICES ASSUME T # {} PROVE FALSE
    OBVIOUS
  <2>1. T \subseteq Nat
    BY <1>2
  <2> HIDE DEF T
  <2>2. PICK v \in T : \A k \in T : v <= k
    BY <2>1, Least
  <2>3. v \in Unsigned /\ e[v] \notin R /\ v \in Nat
    BY <1>2, <2>2 DEF T
  <2>4. CASE v < Group
    BY <1>3, <1>12, <2>3, <2>4
  <2>5. CASE ~(v < Group)
    <3> DEFINE q == v \div Group
    <3>1. q \in Nat /\ q < v
      <4>1. v >= Group
        BY <1>5, <2>3, <2>5
      <4> QED BY <1>1, <2>3, <4>1, Divided
    <3>2. e[v] = <<Group + (v % Group)>> \o e[q]
      BY <1>12, <2>3, <2>5
    <3> HIDE DEF q, e
    <3>3. q \in Unsigned
      BY <1>1, <1>5, <2>3, <3>1
    <3>4. q \notin T
      BY <2>2, <2>3, <3>1
    <3>5. e[q] \in R
      BY <3>3, <3>4 DEF T
    <3> QED BY <1>4, <2>3, <3>2, <3>5
  <2> QED BY <2>4, <2>5
<1>14. ASSUME NEW v \in Unsigned PROVE encodeUnsignedVarint[v] \in Seq(ByteRange)
  BY <1>13 DEF R
<1> QED BY <1>12, <1>14

\* The size is that of what is encoded.
LEMMA SizeIsLength ==
  \A v \in Unsigned : unsignedVarintSize[v] = Len(encodeUnsignedVarint[v])
<1> DEFINE R == Nat
           B == [v \in Unsigned |-> 1]
           C == [v \in Unsigned |-> [x \in R |-> 1 + x]]
           Is(f) == f = [v \in Unsigned |-> IF v < Group THEN 1 ELSE 1 + f[v \div Group]]
           M == Word - 1
<1>1. Group \in Nat /\ Group >= 2 /\ Word \in Nat /\ Word >= 2
  BY Sizes
<1>2. M \in Nat /\ Unsigned = 0..M /\ \A v \in Unsigned : v \in Nat /\ (~(v < Group) <=> v >= Group)
  BY <1>1 DEF Unsigned
<1>3. \A v \in Unsigned : B[v] = 1 /\ B[v] \in R
  OBVIOUS
<1>4. \A v \in Unsigned : \A x \in R : C[v][x] \in R /\ C[v][x] = 1 + x
  OBVIOUS
<1> HIDE DEF R, B, C, M
<1>5. PICK f \in [0..M -> R] :
        \A v \in 0..M : f[v] = IF v < Group THEN B[v] ELSE C[v][f[v \div Group]]
  <2>1. \A v \in 0..M : v < Group => B[v] \in R
    BY <1>3, <1>2
  <2>2. \A v \in 0..M : v >= Group => \A x \in R : C[v][x] \in R
    BY <1>4, <1>2
  <2>3. Leads(Group, M, R, B, C)
    BY <2>1, <2>2 DEF Leads
  <2>4. PICK f : ByQuotient(f, Group, M, R, B, C)
    BY <1>1, <1>2, <2>3, Quotients
  <2> QED BY <2>4 DEF ByQuotient
<1>6. ASSUME NEW v \in Unsigned, ~(v < Group) PROVE v \div Group \in Unsigned /\ v \div Group < v
  <2>1. v \div Group \in Nat /\ v \div Group < v /\ v \in Nat /\ v <= M
    <3>1. v \in Nat /\ v >= Group /\ v \in 0..M
      BY <1>2, <1>6
    <3>2. v \div Group \in Nat /\ v \div Group < v
      BY <1>1, <3>1, Divided
    <3>3. v <= M
      BY <1>2, <3>1
    <3> QED BY <3>1, <3>2, <3>3
  <2> DEFINE q == v \div Group
  <2>2. q \in Nat /\ q < v
    BY <2>1
  <2> HIDE DEF q
  <2>3. q \in 0..M
    BY <1>2, <2>1, <2>2
  <2> QED BY <1>2, <2>2, <2>3 DEF q
<1>7. ASSUME NEW v \in Unsigned PROVE f[v] = IF v < Group THEN 1 ELSE 1 + f[v \div Group]
  BY <1>2, <1>3, <1>4, <1>5, <1>6
<1>8. Is(f)
  BY <1>2, <1>5, <1>7
<1>9. unsignedVarintSize = CHOOSE g : Is(g)
  BY DEF unsignedVarintSize
<1>10. Is(unsignedVarintSize)
  BY <1>8, <1>9
<1> DEFINE u == unsignedVarintSize
           e == encodeUnsignedVarint
<1>11. \A v \in Unsigned : u[v] = IF v < Group THEN 1 ELSE 1 + u[v \div Group]
  BY <1>10
<1>12. \A v \in Unsigned :
         /\ e[v] \in Seq(ByteRange)
         /\ e[v] = IF v < Group THEN <<v>> ELSE <<Group + (v % Group)>> \o e[v \div Group]
  BY Encodes
<1> HIDE DEF u, e
<1> DEFINE T == {v \in Unsigned : u[v] # Len(e[v])}
<1>13. T = {}
  <2> SUFFICES ASSUME T # {} PROVE FALSE
    OBVIOUS
  <2>1. T \subseteq Nat
    BY <1>2
  <2> HIDE DEF T
  <2>2. PICK v \in T : \A k \in T : v <= k
    BY <2>1, Least
  <2>3. v \in Unsigned /\ u[v] # Len(e[v]) /\ v \in Nat
    BY <1>2, <2>2 DEF T
  <2>4. CASE v < Group
    <3>1. Len(<<v>>) = 1
      OBVIOUS
    <3> QED BY <1>11, <1>12, <2>3, <2>4, <3>1
  <2>5. CASE ~(v < Group)
    <3> DEFINE q == v \div Group
               m == Group + (v % Group)
    <3>1. q \in Unsigned /\ q < v
      BY <1>6, <2>3, <2>5
    <3>2. e[v] = <<m>> \o e[q] /\ u[v] = 1 + u[q]
      BY <1>11, <1>12, <2>3, <2>5
    <3> HIDE DEF q, m
    <3>3. q \notin T
      BY <1>2, <2>2, <2>3, <3>1
    <3>4. u[q] = Len(e[q])
      BY <3>1, <3>3 DEF T
    <3>5. Len(<<m>> \o e[q]) = 1 + Len(e[q])
      <4>1. e[q] \in Seq(ByteRange)
        BY <1>12, <3>1
      <4> QED BY <4>1
    <3> QED BY <2>3, <3>2, <3>4, <3>5
  <2> QED BY <2>4, <2>5
<1>14. \A v \in Unsigned : u[v] = Len(e[v])
  BY <1>13
<1> QED BY <1>14 DEF u, e

-----------------------------------------------------------------------------
(* Varints: what is encoded is decoded *)

\* The bytes of an encoded number stand in a buffer from at on.
Holds(data, at, bytes) ==
  \A k \in 1..Len(bytes) : at + k - 1 \in DOMAIN data /\ data[at + k - 1] = bytes[k]

\* The values of the decoder's loop, of which the last is the result's.
Adds(f, data, at, n) == f = [k \in 0..n |-> IF k = 0 THEN 0 ELSE f[k - 1] + Shifted(data, at, k - 1)]

\* The loop has these values, and they are numbers.
LEMMA AddsExists ==
  ASSUME NEW data \in Seq(ByteRange), NEW at \in Nat, NEW n \in Nat
  PROVE  \E f : /\ Adds(f, data, at, n) /\ \A k \in 0..n : f[k] \in Nat
                /\ DecodedValue(data, at, n) = f[n] % Word
<1> DEFINE S == [k \in 0..n |-> Nat]
           F == [k \in 1..n |-> [x \in Nat |-> x + Shifted(data, at, k - 1)]]
<1>1. ASSUME NEW k \in Nat PROVE Shifted(data, at, k) \in Nat
  <2>1. At(data, at + k) \in Nat
    <3>1. \A i \in DOMAIN data : data[i] \in ByteRange
      OBVIOUS
    <3>2. ByteRange \subseteq Nat
      BY Sizes DEF ByteRange
    <3> QED BY <3>1, <3>2 DEF At
  <2>2. At(data, at + k) % Group \in Nat
    <3>1. At(data, at + k) % Group \in 0..(Group - 1)
      BY <2>1, Sizes, Divided
    <3> QED BY <3>1
  <2>3. (k * GroupBits) % WordBits \in Nat
    <3>1. k * GroupBits \in Nat
      BY Sizes
    <3>2. \A a \in Nat : \A b \in Nat \ {0} : a % b \in Nat
      OBVIOUS
    <3> QED BY <3>1, <3>2, Sizes
  <2>4. Power[(k * GroupBits) % WordBits] \in Nat
    BY <2>3, PowerDef
  <2>5. \A a, b \in Nat : a * b \in Nat
    OBVIOUS
  <2> QED BY <2>2, <2>4, <2>5 DEF Shifted
<1>2. ASSUME NEW k \in 1..n
      PROVE  \A x \in Nat : F[k][x] = x + Shifted(data, at, k - 1) /\ F[k][x] \in Nat
  <2>1. k - 1 \in Nat
    OBVIOUS
  <2>2. Shifted(data, at, k - 1) \in Nat
    BY <1>1, <2>1
  <2>3. \A x \in Nat : F[k][x] = x + Shifted(data, at, k - 1)
    OBVIOUS
  <2>4. \A x, y \in Nat : x + y \in Nat
    OBVIOUS
  <2> HIDE DEF F
  <2> QED BY <2>2, <2>3, <2>4
<1>3. \A k \in 0..n : S[k] = Nat
  OBVIOUS
<1>4. \A k \in 1..n : k \in 0..n /\ k - 1 \in 0..n
  OBVIOUS
<1> HIDE DEF S, F
<1>5. PICK f : IsLoop(f, n, 0, F) /\ \A k \in 0..n : f[k] \in S[k]
  <2>1. \A k \in 1..n : \A x \in S[k - 1] : F[k][x] \in S[k]
    BY <1>2, <1>3, <1>4
  <2>2. 0 \in S[0]
    BY <1>3
  <2> QED BY <2>1, <2>2, LoopExists
<1>6. ASSUME NEW k \in 0..n PROVE f[k] = IF k = 0 THEN 0 ELSE f[k - 1] + Shifted(data, at, k - 1)
  <2>1. f[k] = IF k = 0 THEN 0 ELSE F[k][f[k - 1]]
    BY <1>5 DEF IsLoop
  <2>2. k # 0 => k \in 1..n
    OBVIOUS
  <2> QED BY <1>2, <1>3, <1>4, <1>5, <2>1, <2>2
<1>7. Adds(f, data, at, n)
  <2>1. f = [k \in 0..n |-> f[k]]
    BY <1>5 DEF IsLoop
  <2> QED BY <1>6, <2>1 DEF Adds
<1> DEFINE g == CHOOSE h : Adds(h, data, at, n)
<1>8. Adds(g, data, at, n)
  BY <1>7
<1>9. DecodedValue(data, at, n) = g[n] % Word
  BY DEF DecodedValue, Adds
<1> HIDE DEF g
<1>10. ASSUME NEW k \in 0..n PROVE g[k] = f[k]
  <2> DEFINE T == {j \in 0..n : g[j] = f[j]}
  <2>1. 0 \in T
    BY <1>7, <1>8 DEF Adds
  <2>2. ASSUME NEW j \in 1..n, j - 1 \in T PROVE j \in T
    <3>1. /\ j \in 0..n /\ g[j] = g[j - 1] + Shifted(data, at, j - 1)
          /\ f[j] = f[j - 1] + Shifted(data, at, j - 1)
      BY <1>7, <1>8 DEF Adds
    <3> QED BY <2>2, <3>1
  <2> HIDE DEF T
  <2>3. k \in T
    BY <2>1, <2>2, Induction
  <2> QED BY <2>3 DEF T
<1>11. g[n] = f[n]
  <2>1. n \in 0..n
    OBVIOUS
  <2> QED BY <1>10, <2>1
<1> QED BY <1>3, <1>5, <1>7, <1>9, <1>11

\* The shift of a group of a number is less than the word's bits.
LEMMA ShiftFits ==
  ASSUME NEW v \in Unsigned, NEW k \in Nat, NEW rest \in Nat \ {0}, NEW sum \in Nat,
         v = sum + rest * Power[k * GroupBits]
  PROVE  (k * GroupBits) % WordBits = k * GroupBits
<1> DEFINE s == k * GroupBits
<1>1. s \in Nat
  BY Sizes
<1> HIDE DEF s
<1>2. Power[s] \in Nat /\ Power[s] <= v
  <2>1. Power[s] \in Nat
    BY <1>1, PowerDef
  <2>2. v = sum + rest * Power[s]
    BY DEF s
  <2> DEFINE p == Power[s]
  <2>3. p \in Nat /\ v = sum + rest * p
    BY <2>1, <2>2
  <2> HIDE DEF p
  <2>4. 1 * p <= rest * p
    BY <2>3, Product
  <2>5. p <= v
    BY <2>3, <2>4
  <2> QED BY <2>1, <2>5 DEF p
<1>3. v < Power[WordBits] /\ v \in Nat
  BY Sizes DEF Unsigned, Word
<1>4. s < WordBits
  <2> SUFFICES ASSUME WordBits <= s PROVE FALSE
    BY <1>1, Sizes
  <2>1. Power[WordBits] <= Power[s] /\ Power[WordBits] \in Nat
    BY <1>1, Sizes, PowerGrows, PowerDef
  <2> QED BY <1>2, <1>3, <2>1
<1>5. s \in 0..(WordBits - 1) /\ WordBits \in Nat \ {0}
  BY <1>1, <1>4, Sizes
<1>6. s % WordBits = s
  BY <1>5, NoWrap
<1> QED BY <1>6 DEF s

\* Longer than one byte is what has a quotient.
LEMMA FirstByte ==
  ASSUME NEW v \in Unsigned
  PROVE  LET e == encodeUnsignedVarint
             q == v \div Group
         IN  /\ Len(e[v]) \in Nat \ {0}
             /\ v < Group => e[v] = <<v>> /\ Len(e[v]) = 1 /\ e[v][1] = v
             /\ v >= Group => /\ q \in Unsigned /\ q >= 1
                              /\ Len(e[v]) = Len(e[q]) + 1 /\ Len(e[v]) >= 2
                              /\ e[v][1] = Group + (v % Group)
                              /\ \A i \in 1..Len(e[q]) : e[v][i + 1] = e[q][i]
<1> DEFINE e == encodeUnsignedVarint
           q == v \div Group
<1>1. /\ Group \in Nat /\ Group >= 2 /\ v \in Nat /\ v < Word /\ Word \in Nat
      /\ Unsigned = 0..(Word - 1)
  BY Sizes DEF Unsigned
<1>2. \A w \in Unsigned : /\ e[w] \in Seq(ByteRange)
                          /\ e[w] = IF w < Group THEN <<w>> ELSE <<Group + (w % Group)>> \o e[w \div Group]
  BY Encodes
<1> HIDE DEF e
<1>3. ASSUME NEW b, NEW s \in Seq(ByteRange)
      PROVE  /\ Len(<<b>> \o s) = Len(s) + 1 /\ (<<b>> \o s)[1] = b
             /\ \A i \in 1..Len(s) : (<<b>> \o s)[i + 1] = s[i]
  OBVIOUS
<1>4. ASSUME v < Group PROVE e[v] = <<v>> /\ Len(e[v]) = 1 /\ e[v][1] = v
  <2>1. Len(<<v>>) = 1 /\ <<v>>[1] = v
    OBVIOUS
  <2> QED BY <1>2, <1>4, <2>1
<1>5. ASSUME NEW w \in Unsigned, w >= Group
      PROVE  /\ w \div Group \in Unsigned /\ w \div Group >= 1
             /\ Len(e[w]) = Len(e[w \div Group]) + 1
             /\ e[w][1] = Group + (w % Group)
             /\ \A i \in 1..Len(e[w \div Group]) : e[w][i + 1] = e[w \div Group][i]
             /\ Len(e[w]) \in Nat /\ Len(e[w \div Group]) \in Nat
  <2> DEFINE x == w \div Group
             b == Group + (w % Group)
  <2>1. w \in Nat /\ w < Word
    BY <1>1
  <2>2. x \in Nat /\ x >= 1 /\ x < w
    BY <1>1, <1>5, <2>1, Divided
  <2>3. ~(w < Group)
    BY <1>1, <1>5, <2>1
  <2>4. e[w] = <<b>> \o e[x]
    BY <1>2, <2>3
  <2> HIDE DEF x, b
  <2>5. x \in Unsigned
    BY <1>1, <2>1, <2>2
  <2>6. e[x] \in Seq(ByteRange) /\ e[w] \in Seq(ByteRange)
    BY <1>2, <2>5
  <2>7. Len(e[x]) \in Nat /\ Len(e[w]) \in Nat
    BY <2>6
  <2>8. /\ Len(e[w]) = Len(e[x]) + 1 /\ e[w][1] = b
        /\ \A i \in 1..Len(e[x]) : e[w][i + 1] = e[x][i]
    BY <1>3, <2>4, <2>6
  <2> QED BY <2>2, <2>5, <2>7, <2>8 DEF x, b
<1>6. ASSUME NEW w \in Unsigned PROVE Len(e[w]) \in Nat \ {0}
  <2>1. w \in Nat
    BY <1>1
  <2>2. CASE w < Group
    <3>1. Len(<<w>>) = 1
      OBVIOUS
    <3>2. e[w] = <<w>>
      BY <1>2, <2>2
    <3>3. Len(e[w]) = 1
      BY <3>1, <3>2
    <3> QED BY <3>3
  <2>3. CASE w >= Group
    BY <1>5, <2>3
  <2> QED BY <1>1, <2>1, <2>2, <2>3
<1>7. ASSUME v >= Group PROVE Len(e[v]) >= 2
  <2> DEFINE a == Len(e[v])
             c == Len(e[v \div Group])
  <2>1. a = c + 1 /\ c \in Nat \ {0}
    BY <1>5, <1>6, <1>7
  <2> HIDE DEF a, c
  <2>2. a >= 2
    BY <2>1
  <2> QED BY <2>2 DEF a
<1>8. v >= Group => /\ q \in Unsigned /\ q >= 1
                    /\ Len(e[v]) = Len(e[q]) + 1 /\ Len(e[v]) >= 2
                    /\ e[v][1] = Group + (v % Group)
                    /\ \A i \in 1..Len(e[q]) : e[v][i + 1] = e[q][i]
  BY <1>5, <1>7
<1> QED BY <1>4, <1>6, <1>8 DEF e

\* After k groups, r is what remains of a number v.
Remains(v, f, k, r) ==
  LET e == encodeUnsignedVarint
  IN  /\ r \in Unsigned /\ (k = 0 \/ r >= 1)
      /\ Len(e[v]) = Len(e[r]) + k
      /\ \A i \in 1..Len(e[r]) : e[v][k + i] = e[r][i]
      /\ \A i \in 1..k : e[v][i] >= Group
      /\ v = f[k] + r * Power[k * GroupBits]

\* A turn of the loop takes the next group of it.
LEMMA GroupTurn ==
  ASSUME NEW data \in Seq(ByteRange), NEW at \in Nat, NEW v \in Unsigned,
         Holds(data, at, encodeUnsignedVarint[v]),
         NEW f, NEW k \in Nat, f[k] \in Nat, f[k + 1] = f[k] + Shifted(data, at, k),
         NEW r, Remains(v, f, k, r), r >= Group
  PROVE  Remains(v, f, k + 1, r \div Group)
<1> DEFINE e == encodeUnsignedVarint
           q == r \div Group
           m == r % Group
           p == Power[k * GroupBits]
<1>1. /\ r \in Unsigned /\ Len(e[v]) = Len(e[r]) + k
      /\ \A i \in 1..Len(e[r]) : e[v][k + i] = e[r][i]
      /\ \A i \in 1..k : e[v][i] >= Group
      /\ v = f[k] + r * p
  BY DEF Remains
<1>2. /\ q \in Unsigned /\ q >= 1 /\ Len(e[r]) = Len(e[q]) + 1
      /\ e[r][1] = Group + m /\ \A i \in 1..Len(e[q]) : e[r][i + 1] = e[q][i]
  BY <1>1, FirstByte
<1>3. Len(e[q]) \in Nat /\ Len(e[r]) \in Nat /\ Len(e[v]) \in Nat
  BY <1>1, <1>2, FirstByte
<1>4. Group \in Nat /\ Group >= 2 /\ GroupBits \in Nat \ {0} /\ r \in Nat /\ q \in Nat
  BY <1>1, <1>2, Sizes DEF Unsigned
<1>5. m \in 0..(Group - 1) /\ r = Group * q + m /\ (Group + m) % Group = m
  BY <1>4, Divided
<1>6. k * GroupBits \in Nat /\ (k + 1) * GroupBits = k * GroupBits + GroupBits
  BY <1>4
<1>7. p \in Nat /\ Power[(k + 1) * GroupBits] = p * Group
  BY <1>4, <1>6, PowerSum, PowerDef DEF Group
<1>8. (k * GroupBits) % WordBits = k * GroupBits
  BY <1>1, <1>4, ShiftFits
<1> HIDE DEF e, q, m
<1>9. e[v][k + 1] = Group + m
  BY <1>1, <1>2, <1>3
<1>10. At(data, at + k) = Group + m
  <2>1. k + 1 \in 1..Len(e[v]) /\ at + (k + 1) - 1 = at + k
    BY <1>1, <1>2, <1>3
  <2>2. at + k \in DOMAIN data /\ data[at + k] = e[v][k + 1]
    BY <2>1 DEF Holds, e
  <2> QED BY <1>9, <2>2 DEF At
<1>11. Shifted(data, at, k) = m * p
  BY <1>5, <1>8, <1>10 DEF Shifted
<1> HIDE DEF p
<1>12. v = f[k + 1] + q * (p * Group)
  <2>1. v = f[k] + (Group * q + m) * p
    BY <1>1, <1>5
  <2>2. (Group * q + m) * p = m * p + q * (p * Group)
    BY <1>4, <1>5, <1>7
  <2>3. m * p \in Nat /\ q * (p * Group) \in Nat
    BY <1>4, <1>5, <1>7
  <2> DEFINE a == m * p
             b == q * (p * Group)
  <2>4. a \in Nat /\ b \in Nat /\ v = f[k] + (a + b) /\ f[k + 1] = f[k] + a
    BY <1>11, <2>1, <2>2, <2>3
  <2> HIDE DEF a, b
  <2>5. v = f[k + 1] + b
    BY <2>4
  <2> QED BY <2>5 DEF b
<1>13. \A i \in 1..Len(e[q]) : e[v][(k + 1) + i] = e[q][i]
  <2> SUFFICES ASSUME NEW i \in 1..Len(e[q]) PROVE e[v][(k + 1) + i] = e[q][i]
    OBVIOUS
  <2>1. i + 1 \in 1..Len(e[r]) /\ k + (i + 1) = (k + 1) + i
    BY <1>2, <1>3
  <2> QED BY <1>1, <1>2, <2>1
<1>14. \A i \in 1..(k + 1) : e[v][i] >= Group
  <2>1. Group + m >= Group
    BY <1>4, <1>5
  <2>2. \A i \in 1..(k + 1) : i \in 1..k \/ i = k + 1
    OBVIOUS
  <2> QED BY <1>1, <1>9, <2>1, <2>2
<1>15. Len(e[v]) = Len(e[q]) + (k + 1)
  <2> DEFINE a == Len(e[v])
             b == Len(e[r])
             c == Len(e[q])
  <2>1. a = b + k /\ b = c + 1 /\ a \in Nat /\ b \in Nat /\ c \in Nat
    BY <1>1, <1>2, <1>3
  <2> HIDE DEF a, b, c
  <2>2. a = c + (k + 1)
    BY <2>1
  <2> QED BY <2>2 DEF a, c
<1>16. v = f[k + 1] + q * Power[(k + 1) * GroupBits]
  BY <1>7, <1>12
<1> QED BY <1>2, <1>13, <1>14, <1>15, <1>16 DEF Remains, e, q

\* What is encoded ends with its last byte, and is decoded to what it was.
LEMMA DecodesEncoded ==
  ASSUME NEW data \in Seq(ByteRange), NEW at \in Nat, NEW v \in Unsigned,
         Holds(data, at, encodeUnsignedVarint[v])
  PROVE  LET n == Len(encodeUnsignedVarint[v])
         IN  /\ n \in Nat \ {0} /\ DecodedValue(data, at, n) = v
             /\ \A i \in Nat \ {0} : Decodes(data, at, i) <=> i = n
<1> DEFINE e == encodeUnsignedVarint
           n == Len(e[v])
<1>1. n \in Nat \ {0} /\ v \in Nat /\ v < Word /\ Word \in Nat /\ GroupBits \in Nat \ {0}
      /\ WordBits \in Nat \ {0} /\ Group \in Nat /\ Group >= 2
  BY FirstByte, Sizes DEF Unsigned
<1> HIDE DEF e
<1>2. PICK f : /\ Adds(f, data, at, n) /\ \A k \in 0..n : f[k] \in Nat
               /\ DecodedValue(data, at, n) = f[n] % Word
  BY <1>1, AddsExists
<1> DEFINE T == {k \in 0..(n - 1) : \E r : Remains(v, f, k, r)}
<1> HIDE DEF n
<1>3. n - 1 \in Nat /\ n \in 0..n /\ n - 1 \in 0..n
  BY <1>1
<1>4. f[0] = 0 /\ \A k \in 0..(n - 1) : f[k + 1] = f[k] + Shifted(data, at, k)
  <2>1. \A k \in 0..(n - 1) : k + 1 \in 0..n /\ k + 1 # 0 /\ k + 1 - 1 = k
    BY <1>1
  <2>2. 0 \in 0..n
    BY <1>1
  <2>3. \A k \in 0..n : f[k] = IF k = 0 THEN 0 ELSE f[k - 1] + Shifted(data, at, k - 1)
    BY <1>2 DEF Adds
  <2>4. ASSUME NEW k \in 0..(n - 1) PROVE f[k + 1] = f[k] + Shifted(data, at, k)
    <3>1. f[k + 1] = IF k + 1 = 0 THEN 0 ELSE f[k + 1 - 1] + Shifted(data, at, k + 1 - 1)
      BY <2>1, <2>3
    <3> QED BY <2>1, <3>1
  <2> QED BY <2>2, <2>3, <2>4
<1>5. 0 \in T
  <2>1. 0 * GroupBits = 0 /\ Power[0] = 1 /\ v = 0 + v * 1
    BY <1>1, PowerDef
  <2>2. n = n + 0 /\ \A i \in 1..n : 0 + i = i
    BY <1>1
  <2>3. \A i \in 1..0 : FALSE
    OBVIOUS
  <2>4. Remains(v, f, 0, v)
    BY <1>4, <2>1, <2>2, <2>3 DEF Remains, e, n
  <2>5. 0 \in 0..(n - 1)
    BY <1>1
  <2> QED BY <2>4, <2>5
<1>6. ASSUME NEW k \in 1..(n - 1), k - 1 \in T PROVE k \in T
  <2>1. PICK r : Remains(v, f, k - 1, r)
    BY <1>6
  <2>2. r \in Unsigned /\ n = Len(e[r]) + (k - 1)
    BY <2>1 DEF Remains, e, n
  <2>3. r >= Group
    <3>1. r \in Nat
      BY <2>2, <1>1, Sizes DEF Unsigned
    <3>2. SUFFICES ASSUME r < Group PROVE FALSE
      BY <1>1, <3>1
    <3>3. Len(e[r]) = 1
      BY <2>2, <3>2, FirstByte DEF e
    <3> QED BY <1>1, <2>2, <3>3
  <2>4. k - 1 \in Nat /\ k - 1 \in 0..(n - 1) /\ k - 1 \in 0..n /\ k - 1 + 1 = k /\ k \in 0..(n - 1)
    BY <1>1
  <2>5. f[k - 1] \in Nat /\ f[k - 1 + 1] = f[k - 1] + Shifted(data, at, k - 1)
    BY <1>2, <1>4, <2>4
  <2>6. Remains(v, f, k - 1 + 1, r \div Group)
    BY <2>1, <2>3, <2>4, <2>5, GroupTurn
  <2> QED BY <2>4, <2>6
<1>7. n - 1 \in T
  <2> HIDE DEF T
  <2>1. \A i \in 0..(n - 1) : i \in T
    BY <1>3, <1>5, <1>6, Induction
  <2>2. n - 1 \in 0..(n - 1)
    BY <1>3
  <2> QED BY <2>1, <2>2
<1>8. PICK r : Remains(v, f, n - 1, r)
  BY <1>7
<1> HIDE DEF T
<1> DEFINE p == Power[(n - 1) * GroupBits]
<1>9. /\ r \in Unsigned /\ (n - 1 = 0 \/ r >= 1)
      /\ n = Len(e[r]) + (n - 1)
      /\ \A i \in 1..Len(e[r]) : e[v][n - 1 + i] = e[r][i]
      /\ \A i \in 1..(n - 1) : e[v][i] >= Group
      /\ v = f[n - 1] + r * p
  BY <1>8 DEF Remains, e, n
<1>10. r \in Nat /\ r < Group /\ e[r][1] = r /\ Len(e[r]) = 1
  <2>1. r \in Nat
    BY <1>1, <1>9, Sizes DEF Unsigned
  <2>2. Len(e[r]) \in Nat
    BY <1>9, FirstByte DEF e
  <2>3. Len(e[r]) = 1
    <3> DEFINE l == Len(e[r])
    <3>1. n = l + (n - 1) /\ l \in Nat
      BY <1>9, <2>2
    <3> HIDE DEF l
    <3>2. l = 1
      BY <1>1, <3>1
    <3> QED BY <3>2 DEF l
  <2>4. ~(r >= Group)
    <3>1. SUFFICES ASSUME r >= Group PROVE FALSE
      OBVIOUS
    <3>2. Len(e[r]) >= 2
      BY <1>9, <3>1, FirstByte DEF e
    <3> QED BY <2>3, <3>2
  <2>5. r < Group
    BY <1>1, <2>1, <2>4
  <2> QED BY <1>9, <2>1, <2>3, <2>5, FirstByte DEF e
<1>11. e[v][n] = r
  <2>1. 1 \in 1..Len(e[r]) /\ n - 1 + 1 = n
    BY <1>1, <1>10
  <2> QED BY <1>9, <1>10, <2>1
<1>12. \A i \in 1..n : At(data, at + i - 1) = e[v][i]
  BY DEF Holds, At, e, n
<1>13. Shifted(data, at, n - 1) = r * p
  <2>1. At(data, at + (n - 1)) = r
    <3>1. n \in 1..n /\ at + n - 1 = at + (n - 1)
      BY <1>1
    <3> QED BY <1>11, <1>12, <3>1
  <2>2. r % Group = r
    BY <1>1, <1>10, Divided
  <2>3. ((n - 1) * GroupBits) % WordBits = (n - 1) * GroupBits
    <3>1. CASE n - 1 = 0
      <4>1. 0 * GroupBits = 0 /\ 0 % WordBits = 0
        BY <1>1
      <4> QED BY <3>1, <4>1
    <3>2. CASE r >= 1
      <4>1. r \in Nat \ {0} /\ f[n - 1] \in Nat
        BY <1>2, <1>3, <1>10, <3>2
      <4> QED BY <1>3, <1>9, <4>1, ShiftFits
    <3> QED BY <1>9, <3>1, <3>2
  <2> QED BY <2>1, <2>2, <2>3 DEF Shifted
<1>14. f[n] = v
  <2>1. n - 1 \in 0..(n - 1) /\ n - 1 + 1 = n
    BY <1>3
  <2>2. f[n] = f[n - 1] + Shifted(data, at, n - 1)
    BY <1>4, <2>1
  <2> QED BY <1>9, <1>13, <2>2
<1>15. DecodedValue(data, at, n) = v
  <2>1. v % Word = v
    BY <1>1
  <2> QED BY <1>2, <1>14, <2>1
<1>16. ASSUME NEW i \in Nat \ {0} PROVE Decodes(data, at, i) <=> i = n
  <2>1. CASE i = n
    <3>1. At(data, at + n - 1) < Group
      <4>1. n \in 1..n
        BY <1>1
      <4> QED BY <1>10, <1>11, <1>12, <4>1
    <3>2. \A j \in 1..(n - 1) : At(data, at + j - 1) >= Group
      <4>1. \A j \in 1..(n - 1) : j \in 1..n
        BY <1>1
      <4> QED BY <1>9, <1>12, <4>1
    <3> QED BY <2>1, <3>1, <3>2 DEF Decodes
  <2>2. CASE i < n
    <3>1. i \in 1..n /\ i \in 1..(n - 1)
      BY <1>1, <2>2
    <3>2. At(data, at + i - 1) = e[v][i] /\ e[v][i] >= Group
      BY <1>9, <1>12, <3>1
    <3>3. At(data, at + i - 1) \in Nat
      <4>1. e[v] \in Seq(ByteRange)
        BY Encodes DEF e
      <4>2. e[v][i] \in ByteRange
        BY <3>1, <4>1 DEF n
      <4> QED BY <1>1, <3>2, <4>2 DEF ByteRange
    <3>4. ~(At(data, at + i - 1) < Group)
      BY <1>1, <3>2, <3>3
    <3> QED BY <1>1, <2>2, <3>4 DEF Decodes
  <2>3. CASE i > n
    <3>1. n \in 1..(i - 1) /\ n \in 1..n
      BY <1>1, <2>3
    <3>2. At(data, at + n - 1) = r
      BY <1>11, <1>12, <3>1
    <3>3. ~(At(data, at + n - 1) >= Group)
      BY <1>1, <1>10, <3>2
    <3>4. ~Decodes(data, at, i)
      BY <3>1, <3>3 DEF Decodes
    <3> QED BY <1>1, <2>3, <3>4
  <2> QED BY <1>1, <2>1, <2>2, <2>3
<1> QED BY <1>1, <1>15, <1>16 DEF n, e

(***************************************************************************)
(* What encodeUnsignedVarint() writes has the size that                    *)
(* unsignedVarintSize() gives, and decodeUnsignedVarint() gives the number *)
(* back wherever it stands in a buffer, if it may look at that many bytes, *)
(* and else throws, for every number of words and groups of every size.    *)
(* (varints.cpp:12-65)                                                     *)
(***************************************************************************)
THEOREM UnsignedVarintsRoundTrip ==
  \A v \in Unsigned, data \in Seq(ByteRange), at \in Nat, maxBytes \in Nat :
    Holds(data, at, encodeUnsignedVarint[v]) =>
      LET n == unsignedVarintSize[v]
          decoded == decodeUnsignedVarint(data, at, maxBytes)
      IN  /\ n = Len(encodeUnsignedVarint[v])
          /\ n <= maxBytes =>
               decoded = [ok |-> TRUE, last |-> at + n - 1, decodedBytes |-> n, value |-> v]
          /\ n > maxBytes => decoded = [ok |-> FALSE, last |-> at + maxBytes - 1]
<1> SUFFICES ASSUME NEW v \in Unsigned, NEW data \in Seq(ByteRange), NEW at \in Nat, NEW maxBytes \in Nat,
                    Holds(data, at, encodeUnsignedVarint[v])
    PROVE  LET n == unsignedVarintSize[v]
               decoded == decodeUnsignedVarint(data, at, maxBytes)
           IN  /\ n = Len(encodeUnsignedVarint[v])
               /\ n <= maxBytes =>
                    decoded = [ok |-> TRUE, last |-> at + n - 1, decodedBytes |-> n, value |-> v]
               /\ n > maxBytes => decoded = [ok |-> FALSE, last |-> at + maxBytes - 1]
  OBVIOUS
<1> DEFINE n == unsignedVarintSize[v]
           decoded == decodeUnsignedVarint(data, at, maxBytes)
           lengths == {i \in 1..maxBytes : Decodes(data, at, i)}
           d == CHOOSE i \in lengths : TRUE
<1>1. n = Len(encodeUnsignedVarint[v])
  BY SizeIsLength
<1>2. /\ n \in Nat \ {0} /\ DecodedValue(data, at, n) = v
      /\ \A i \in Nat \ {0} : Decodes(data, at, i) <=> i = n
  BY <1>1, DecodesEncoded
<1> HIDE DEF n
<1>3. lengths = IF n <= maxBytes THEN {n} ELSE {}
  <2>1. \A i \in 1..maxBytes : i \in Nat \ {0}
    OBVIOUS
  <2>2. n <= maxBytes <=> n \in 1..maxBytes
    BY <1>2
  <2> QED BY <1>2, <2>1, <2>2
<1>4. decoded = IF lengths = {} THEN [ok |-> FALSE, last |-> at + maxBytes - 1]
                ELSE [ok |-> TRUE, last |-> at + d - 1, decodedBytes |-> d,
                      value |-> DecodedValue(data, at, d)]
  BY DEF decodeUnsignedVarint
<1> HIDE DEF lengths, decoded
<1>5. CASE n <= maxBytes
  <2>1. lengths = {n} /\ lengths # {}
    BY <1>3, <1>5
  <2>2. d = n
    BY <2>1
  <2> HIDE DEF d
  <2>3. decoded = [ok |-> TRUE, last |-> at + n - 1, decodedBytes |-> n, value |-> v]
    BY <1>2, <1>4, <2>1, <2>2
  <2>4. ~(n > maxBytes)
    BY <1>2, <1>5
  <2> QED BY <1>1, <2>3, <2>4 DEF n, decoded
<1>6. CASE n > maxBytes
  <2>1. lengths = {} /\ ~(n <= maxBytes)
    BY <1>2, <1>3, <1>6
  <2> QED BY <1>1, <1>4, <2>1 DEF n, decoded
<1> QED BY <1>2, <1>5, <1>6 DEF n, decoded

\* The sign is the lowest bit, and is taken from it again.
LEMMA SignsReturn ==
  \A v \in Signed : ToUnsigned(v) \in Unsigned /\ ToSigned(ToUnsigned(v)) = v
<1> SUFFICES ASSUME NEW v \in Signed PROVE ToUnsigned(v) \in Unsigned /\ ToSigned(ToUnsigned(v)) = v
  OBVIOUS
<1>1. PICK half \in Nat \ {0} : Word = 2 * half
  BY Sizes
<1>2. Word \div 2 = half
  BY <1>1
<1>3. v \in Int /\ -half <= v /\ v <= half - 1
  BY <1>2 DEF Signed
<1>4. Unsigned = 0..(2 * half - 1)
  BY <1>1 DEF Unsigned
<1>5. CASE v < 0
  <2>1. ToUnsigned(v) = 2 * (-v - 1) + 1
    BY <1>5 DEF ToUnsigned
  <2> DEFINE k == -v - 1
  <2>2. k \in 0..(half - 1) /\ v = -k - 1
    BY <1>3, <1>5
  <2> HIDE DEF k
  <2>3. 2 * k + 1 \in 0..(2 * half - 1)
    BY <1>1, <2>2
  <2>4. (2 * k + 1) % 2 = 1 /\ (2 * k + 1) \div 2 = k
    BY <1>1, <2>2
  <2>5. ToUnsigned(v) = 2 * k + 1
    BY <2>1 DEF k
  <2> QED BY <1>4, <2>2, <2>3, <2>4, <2>5 DEF ToSigned
<1>6. CASE v >= 0
  <2>1. ToUnsigned(v) = 2 * v
    BY <1>3, <1>6 DEF ToUnsigned
  <2>2. 2 * v \in 0..(2 * half - 1) /\ (2 * v) % 2 = 0 /\ (2 * v) \div 2 = v
    BY <1>1, <1>3, <1>6
  <2> QED BY <1>4, <2>1, <2>2 DEF ToSigned
<1> QED BY <1>3, <1>5, <1>6

(***************************************************************************)
(* The same of signed numbers. (varints.cpp:67-83)                         *)
(***************************************************************************)
THEOREM SignedVarintsRoundTrip ==
  \A v \in Signed, data \in Seq(ByteRange), at \in Nat, maxBytes \in Nat :
    Holds(data, at, encodeSignedVarint(v)) =>
      LET n == signedVarintSize(v)
          decoded == decodeSignedVarint(data, at, maxBytes)
      IN  /\ n = Len(encodeSignedVarint(v))
          /\ n <= maxBytes =>
               decoded = [ok |-> TRUE, last |-> at + n - 1, decodedBytes |-> n, value |-> v]
          /\ n > maxBytes => decoded = [ok |-> FALSE, last |-> at + maxBytes - 1]
<1> SUFFICES ASSUME NEW v \in Signed, NEW data \in Seq(ByteRange), NEW at \in Nat, NEW maxBytes \in Nat,
                    Holds(data, at, encodeSignedVarint(v))
    PROVE  LET n == signedVarintSize(v)
               decoded == decodeSignedVarint(data, at, maxBytes)
           IN  /\ n = Len(encodeSignedVarint(v))
               /\ n <= maxBytes =>
                    decoded = [ok |-> TRUE, last |-> at + n - 1, decodedBytes |-> n, value |-> v]
               /\ n > maxBytes => decoded = [ok |-> FALSE, last |-> at + maxBytes - 1]
  OBVIOUS
<1> DEFINE u == ToUnsigned(v)
           n == unsignedVarintSize[u]
           ur == decodeUnsignedVarint(data, at, maxBytes)
<1>1. u \in Unsigned /\ ToSigned(u) = v
  BY SignsReturn
<1>2. Holds(data, at, encodeUnsignedVarint[u])
  BY DEF encodeSignedVarint
<1>3. signedVarintSize(v) = n /\ encodeSignedVarint(v) = encodeUnsignedVarint[u]
  BY DEF signedVarintSize, encodeSignedVarint
<1>4. decodeSignedVarint(data, at, maxBytes) = IF ur.ok THEN [ur EXCEPT !.value = ToSigned(@)] ELSE ur
  BY DEF decodeSignedVarint
<1> HIDE DEF u
<1>5. /\ n = Len(encodeUnsignedVarint[u])
      /\ n <= maxBytes => ur = [ok |-> TRUE, last |-> at + n - 1, decodedBytes |-> n, value |-> u]
      /\ n > maxBytes => ur = [ok |-> FALSE, last |-> at + maxBytes - 1]
  BY <1>1, <1>2, UnsignedVarintsRoundTrip
<1> HIDE DEF n, ur
<1>6. ASSUME n <= maxBytes
      PROVE  decodeSignedVarint(data, at, maxBytes)
             = [ok |-> TRUE, last |-> at + n - 1, decodedBytes |-> n, value |-> v]
  <2>1. ur = [ok |-> TRUE, last |-> at + n - 1, decodedBytes |-> n, value |-> u]
    BY <1>5, <1>6
  <2>2. ur.ok /\ ur.value = u
    BY <2>1
  <2>3. [ur EXCEPT !.value = ToSigned(@)] = [ur EXCEPT !.value = v]
    BY <1>1, <2>2
  <2>4. [ur EXCEPT !.value = v] = [ok |-> TRUE, last |-> at + n - 1, decodedBytes |-> n, value |-> v]
    <3> DEFINE l == at + n - 1
               new == [ur EXCEPT !.value = v]
    <3>1. ur = [ok |-> TRUE, last |-> l, decodedBytes |-> n, value |-> u]
      BY <2>1
    <3> HIDE DEF l
    <3>2. ur \in [ok : {TRUE}, last : {l}, decodedBytes : {n}, value : {u}]
      BY <3>1
    <3>3. new \in [ok : {TRUE}, last : {l}, decodedBytes : {n}, value : {v}]
      BY <3>2
    <3> HIDE DEF new
    <3>4. new = [ok |-> TRUE, last |-> l, decodedBytes |-> n, value |-> v]
      BY <3>3
    <3> QED BY <3>4 DEF new, l
  <2> QED BY <1>4, <2>2, <2>3, <2>4
<1>7. ASSUME n > maxBytes
      PROVE  decodeSignedVarint(data, at, maxBytes) = [ok |-> FALSE, last |-> at + maxBytes - 1]
  BY <1>4, <1>5, <1>7
<1> QED BY <1>3, <1>5, <1>6, <1>7

=============================================================================
