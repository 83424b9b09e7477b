---------------------------- MODULE PacketsProofs ----------------------------
(***************************************************************************)
(* A packet is read inside its message, whatever the message holds, and    *)
(* what is written is what is read, for packets of all types, however they *)
(* are nested.                                                             *)
(*                                                                         *)
(* A reader is a function of the types, whose parts are less deeply        *)
(* nested; what it does is shown for the types up to a depth, one depth    *)
(* after the other.                                                        *)
(***************************************************************************)
EXTENDS Packets, DataProofs

-----------------------------------------------------------------------------
(* Readers *)

\* What is read from at on, of what remains, stays within it.
Inside(r, at, remaining) ==
  /\ r.ok \in BOOLEAN /\ r.last \in Int /\ r.last <= at + remaining - 1
  /\ r.ok => r.at \in Int /\ at <= r.at /\ r.at <= at + remaining

\* An outcome stays inside if its places do.
LEMMA ReadInside ==
  ASSUME NEW v, NEW at \in Nat, NEW remaining \in Nat, NEW e \in Int, NEW last \in Int,
         at <= e, e <= at + remaining, last <= at + remaining - 1
  PROVE  Inside(Reads(v, e, last), at, remaining)
<1> DEFINE r == Reads(v, e, last)
<1>1. r = [ok |-> TRUE, val |-> v, at |-> e, last |-> last]
  BY DEF Reads
<1>2. r.ok = TRUE /\ r.at = e /\ r.last = last
  BY <1>1
<1> HIDE DEF r
<1> QED BY <1>2 DEF Inside, r

\* So does an exception, of which only the last byte counts.
LEMMA ThrownInside ==
  ASSUME NEW at \in Nat, NEW remaining \in Nat, NEW last \in Int, last <= at + remaining - 1
  PROVE  Inside(Throws(last), at, remaining)
<1> DEFINE r == Throws(last)
<1>1. r = [ok |-> FALSE, last |-> last]
  BY DEF Throws
<1>2. r.ok = FALSE /\ r.last = last
  BY <1>1
<1> HIDE DEF r
<1> QED BY <1>2 DEF Inside, r

\* A reader that stays within messages of a length, wherever it begins.
IsReader(reader, length) ==
  \A at \in Nat \ {0}, remaining \in Nat :
    at + remaining <= length + 1 => Inside(reader[at][remaining], at, remaining)

\* A varint is within the bytes that it may take.
LEMMA DecodesInside ==
  ASSUME NEW data \in Seq(ByteRange), NEW at \in Nat, NEW maxBytes \in Nat
  PROVE  LET r == decodeUnsignedVarint(data, at, maxBytes)
         IN  /\ r.ok \in BOOLEAN /\ r.last \in Int /\ r.last <= at + maxBytes - 1
             /\ r.ok => r.decodedBytes \in 1..maxBytes /\ r.value \in Nat
<1> DEFINE lengths == {n \in 1..maxBytes : Decodes(data, at, n)}
           d == CHOOSE n \in lengths : TRUE
           r == decodeUnsignedVarint(data, at, maxBytes)
<1>1. r = IF lengths = {} THEN [ok |-> FALSE, last |-> at + maxBytes - 1]
          ELSE [ok |-> TRUE, last |-> at + d - 1, decodedBytes |-> d,
                value |-> DecodedValue(data, at, d)]
  BY DEF decodeUnsignedVarint
<1>2. lengths # {} => d \in 1..maxBytes
  OBVIOUS
<1> HIDE DEF lengths, d, r
<1>3. CASE lengths = {}
  BY <1>1, <1>3 DEF r
<1>4. CASE lengths # {}
  <2>1. d \in Nat /\ d \in 1..maxBytes
    BY <1>2, <1>4
  <2>2. DecodedValue(data, at, d) \in Nat
    <3>1. PICK f : \A k \in 0..d : f[k] \in Nat /\ DecodedValue(data, at, d) = f[d] % Word
      BY <2>1, AddsExists
    <3>2. f[d] \in Nat /\ DecodedValue(data, at, d) = f[d] % Word
      BY <2>1, <3>1
    <3> QED BY <3>2, Sizes
  <2> QED BY <1>1, <1>4, <2>1, <2>2 DEF r
<1> QED BY <1>3, <1>4

\* A number is refused if its bytes do not remain.
LEMMA NumberInside ==
  ASSUME NEW T, sizeOf(T) \in Nat \ {0}, NEW data, NEW at \in Nat \ {0}, NEW remaining \in Nat
  PROVE  Inside(ReadNumber(T, data, at, remaining), at, remaining)
<1> DEFINE w == sizeOf(T)
           v == NumberOf(T, readBE(data, at, w))
<1>1. ReadNumber(T, data, at, remaining) = IF remaining < w THEN [ok |-> FALSE, last |-> 0]
        ELSE [ok |-> TRUE, val |-> v, at |-> at + w, last |-> at + w - 1]
  BY DEF ReadNumber, Throws, Reads
<1>2. w \in Nat \ {0}
  OBVIOUS
<1> HIDE DEF w, v
<1> QED BY <1>1, <1>2 DEF Inside

\* A varint takes what remains at most.
LEMMA VarintInside ==
  ASSUME NEW T, NEW data \in Seq(ByteRange), NEW at \in Nat \ {0}, NEW remaining \in Nat
  PROVE  Inside(ReadVarint(T, data, at, remaining), at, remaining)
<1> DEFINE maxBytes == IF remaining < WordBytes THEN remaining ELSE WordBytes
           u == decodeUnsignedVarint(data, at, maxBytes)
           s == decodeSignedVarint(data, at, maxBytes)
           r == IF T.k = "uvar" THEN u ELSE s
<1>1. maxBytes \in Nat /\ maxBytes <= remaining
  BY Sizes
<1> HIDE DEF maxBytes
<1>2. /\ u.ok \in BOOLEAN /\ u.last \in Int /\ u.last <= at + maxBytes - 1
      /\ u.ok => u.decodedBytes \in 1..maxBytes
  BY <1>1, DecodesInside
<1>3. s.ok = u.ok /\ s.last = u.last /\ (u.ok => s.decodedBytes = u.decodedBytes)
  <2>1. s = IF u.ok THEN [u EXCEPT !.value = ToSigned(@)] ELSE u
    BY DEF decodeSignedVarint
  <2>2. u = IF u.ok THEN [ok |-> TRUE, last |-> u.last, decodedBytes |-> u.decodedBytes,
                          value |-> u.value]
            ELSE u
    BY DEF decodeUnsignedVarint
  <2> HIDE DEF u, s
  <2> QED BY <2>1, <2>2
<1> HIDE DEF u, s
<1>4. /\ r.ok \in BOOLEAN /\ r.last \in Int /\ r.last <= at + maxBytes - 1
      /\ r.ok => r.decodedBytes \in 1..maxBytes
  BY <1>2, <1>3
<1>5. ReadVarint(T, data, at, remaining) =
        IF r.ok THEN [ok |-> TRUE, val |-> r.value, at |-> at + r.decodedBytes, last |-> r.last]
        ELSE [ok |-> FALSE, last |-> r.last]
  BY DEF ReadVarint, Throws, Reads, u, s, maxBytes
<1> HIDE DEF r
<1> QED BY <1>1, <1>4, <1>5 DEF Inside

\* So does a container of numbers, also when the product that counts its bytes wraps.
LEMMA NumbersInside ==
  ASSUME NEW T, sizeOf(T) \in Nat \ {0}, NEW data \in Seq(ByteRange),
         NEW at \in Nat \ {0}, NEW remaining \in Nat
  PROVE  Inside(ReadNumbers(T, data, at, remaining), at, remaining)
<1> DEFINE size == decodeUnsignedVarint(data, at, remaining)
           w == sizeOf(T)
           bytes == (size.value * w) % Word
           from == at + size.decodedBytes
           v == [i \in 1..(bytes \div w) |-> NumberOf(T, readHost(data, from + (i - 1) * w, w))]
<1>1. /\ size.ok \in BOOLEAN /\ size.last \in Int /\ size.last <= at + remaining - 1
      /\ size.ok => size.decodedBytes \in 1..remaining /\ size.value \in Nat
  BY DecodesInside
<1>2. size.ok => bytes \in Nat
  <2>1. size.ok => size.value * w \in Nat
    <3> DEFINE x == size.value
    <3>1. w \in Nat /\ (size.ok => x \in Nat)
      BY <1>1
    <3> HIDE DEF size, w, x
    <3>2. size.ok => x * w \in Nat
      BY <3>1
    <3> QED BY <3>2 DEF x
  <2> DEFINE y == size.value * w
  <2> HIDE DEF y
  <2>2. size.ok => y % Word \in Nat
    BY <2>1, Sizes DEF y
  <2> QED BY <2>2 DEF y
<1>3. ReadNumbers(T, data, at, remaining) =
        IF ~size.ok THEN [ok |-> FALSE, last |-> size.last]
        ELSE IF remaining - size.decodedBytes < bytes THEN [ok |-> FALSE, last |-> size.last]
        ELSE [ok |-> TRUE, val |-> v, at |-> from + bytes, last |-> from + bytes - 1]
  BY DEF ReadNumbers, Throws, Reads
<1> DEFINE r == ReadNumbers(T, data, at, remaining)
<1> HIDE DEF size, w, bytes, v, r
<1>4. CASE ~size.ok \/ remaining - size.decodedBytes < bytes
  <2>1. r = [ok |-> FALSE, last |-> size.last]
    BY <1>3, <1>4 DEF r
  <2> QED BY <1>1, <2>1 DEF Inside, r
<1>5. CASE size.ok /\ ~(remaining - size.decodedBytes < bytes)
  <2> DEFINE e == from + bytes
             l == from + bytes - 1
  <2>1. e \in Int /\ at <= e /\ e <= at + remaining /\ l \in Int /\ l <= at + remaining - 1
    BY <1>1, <1>2, <1>5
  <2>2. r = Reads(v, e, l)
    BY <1>3, <1>5 DEF Reads, r
  <2> HIDE DEF e, l
  <2> QED BY <2>1, <2>2, ReadInside DEF r
<1> QED BY <1>1, <1>4, <1>5

-----------------------------------------------------------------------------
(* Readers one after the other *)

\* The loop of ReadAll().
ReadsOn(f, readers, n, start, remaining) ==
  f = [i \in 0..n |-> IF i = 0 THEN Reads(<<>>, start, 0)
                      ELSE ReadNext(f[i - 1], readers[i], start, remaining)]

\* It has a value after every turn.
LEMMA ReadsOnExists ==
  ASSUME NEW n \in Nat, NEW readers, NEW start, NEW remaining
  PROVE  \E f : ReadsOn(f, readers, n, start, remaining)
<1> DEFINE T == {m \in 0..n : \E f : ReadsOn(f, readers, m, start, remaining)}
           b == Reads(<<>>, start, 0)
<1>1. 0 \in T
  <2> DEFINE f == [i \in 0..0 |-> b]
  <2>1. \A i \in 0..0 : i = 0
    OBVIOUS
  <2>2. f = [i \in 0..0 |-> IF i = 0 THEN b ELSE ReadNext(f[i - 1], readers[i], start, remaining)]
    BY <2>1
  <2>3. ReadsOn(f, readers, 0, start, remaining)
    BY <2>2 DEF ReadsOn
  <2> QED BY <2>3
<1>2. ASSUME NEW i \in 1..n, i - 1 \in T PROVE i \in T
  <2>1. PICK f : ReadsOn(f, readers, i - 1, start, remaining)
    BY <1>2
  <2> DEFINE Next(k, c) == ReadNext(c, readers[k], start, remaining)
             g == [k \in 0..i |-> IF k = i THEN Next(i, f[i - 1]) ELSE f[k]]
  <2>2. \A k \in 0..(i - 1) : f[k] = IF k = 0 THEN b ELSE Next(k, f[k - 1])
    BY <2>1 DEF ReadsOn
  <2> HIDE DEF b, Next
  <2>3. \A k \in 0..i : g[k] = IF k = i THEN Next(i, f[i - 1]) ELSE f[k]
    OBVIOUS
  <2>4. ASSUME NEW k \in 0..i PROVE g[k] = IF k = 0 THEN b ELSE Next(k, g[k - 1])
    <3>1. CASE k = i
      <4>1. i - 1 \in 0..i /\ i - 1 # i /\ k # 0
        BY <3>1
      <4>2. g[i - 1] = f[i - 1]
        BY <2>3, <4>1
      <4> QED BY <2>3, <3>1, <4>1, <4>2
    <3>2. CASE k # i
      <4>1. k \in 0..(i - 1) /\ (k # 0 => k - 1 \in 0..i /\ k - 1 # i)
        BY <3>2
      <4> QED BY <2>2, <2>3, <3>2, <4>1
    <3> QED BY <3>1, <3>2
  <2>5. g = [k \in 0..i |-> g[k]]
    OBVIOUS
  <2> HIDE DEF g
  <2>6. g = [k \in 0..i |-> IF k = 0 THEN b ELSE Next(k, g[k - 1])]
    BY <2>4, <2>5
  <2>7. ReadsOn(g, readers, i, start, remaining)
    BY <2>6 DEF ReadsOn, b, Next
  <2> QED BY <2>7
<1> HIDE DEF T
<1>3. n \in T
  BY <1>1, <1>2, Induction
<1> QED BY <1>3 DEF T

\* Hence what readers that stay inside read stays inside.
LEMMA AllInside ==
  ASSUME NEW length \in Nat, NEW n \in Nat, NEW readers, Len(readers) = n,
         \A i \in 1..n : IsReader(readers[i], length),
         NEW start \in Nat \ {0}, NEW remaining \in Nat, start + remaining <= length + 1
  PROVE  Inside(ReadAll(readers, start, remaining), start, remaining)
<1> DEFINE f == CHOOSE g : ReadsOn(g, readers, n, start, remaining)
<1>1. ReadAll(readers, start, remaining) = f[n]
  BY DEF ReadAll, ReadsOn
<1>2. ReadsOn(f, readers, n, start, remaining)
  BY ReadsOnExists
<1> HIDE DEF f
<1> DEFINE T == {i \in 0..n : Inside(f[i], start, remaining)}
<1>3. 0 \in T
  <2>1. f[0] = Reads(<<>>, start, 0)
    BY <1>2 DEF ReadsOn
  <2>2. start <= start + remaining /\ 0 <= start + remaining - 1
    OBVIOUS
  <2>3. Inside(f[0], start, remaining)
    BY <2>1, <2>2, ReadInside
  <2> QED BY <2>3
<1>4. ASSUME NEW i \in 1..n, i - 1 \in T PROVE i \in T
  <2> DEFINE c == f[i - 1]
             r == readers[i][c.at][remaining - (c.at - start)]
             v == Append(c.val, r.val)
             last == Larger(c.last, r.last)
  <2>1. f[i] = IF ~c.ok THEN c
               ELSE IF r.ok THEN [ok |-> TRUE, val |-> v, at |-> r.at, last |-> last]
               ELSE [ok |-> FALSE, last |-> last]
    <3>1. f[i] = ReadNext(f[i - 1], readers[i], start, remaining)
      BY <1>2 DEF ReadsOn
    <3> QED BY <3>1 DEF ReadNext, Reads, Throws
  <2>2. Inside(c, start, remaining)
    BY <1>4
  <2>3. ASSUME c.ok PROVE Inside(r, c.at, remaining - (c.at - start))
    <3>1. c.at \in Int /\ start <= c.at /\ c.at <= start + remaining
      BY <2>2, <2>3 DEF Inside
    <3> DEFINE at == c.at
               left == remaining - (at - start)
    <3> HIDE DEF c
    <3>2. at \in Nat \ {0} /\ left \in Nat /\ at + left <= length + 1
      BY <3>1
    <3>3. Inside(readers[i][at][left], at, left)
      BY <3>2 DEF IsReader
    <3> QED BY <3>3
  <2>4. c.ok /\ r.last \in Int => last = IF c.last > r.last THEN c.last ELSE r.last
    BY DEF Larger
  <2> HIDE DEF c, r, v, last
  <2>5. CASE ~c.ok
    BY <2>1, <2>2, <2>5
  <2>6. CASE c.ok
    <3>1. /\ c.at \in Int /\ start <= c.at /\ c.at <= start + remaining
          /\ c.last \in Int /\ c.last <= start + remaining - 1
      BY <2>2, <2>6 DEF Inside
    <3>2. /\ r.ok \in BOOLEAN /\ r.last \in Int /\ r.last <= start + remaining - 1
          /\ r.ok => r.at \in Int /\ start <= r.at /\ r.at <= start + remaining
      BY <2>3, <2>6, <3>1 DEF Inside
    <3>3. last \in Int /\ last <= start + remaining - 1
      BY <2>4, <2>6, <3>1, <3>2
    <3>4. Inside(f[i], start, remaining)
      BY <2>1, <2>6, <3>2, <3>3 DEF Inside
    <3> QED BY <3>4
  <2> QED BY <2>2, <2>5, <2>6 DEF Inside
<1> HIDE DEF T
<1>5. \A i \in 0..n : i \in T
  <2>1. \A i \in 1..n : i - 1 \in T => i \in T
    BY <1>4
  <2> QED BY <1>3, <2>1, Induction, Zenon
<1>6. n \in T
  BY <1>5
<1> QED BY <1>1, <1>6 DEF T

\* The same of one reader again and again.
LEMMA CopiesInside ==
  ASSUME NEW length \in Nat, NEW n \in Nat, NEW reader, IsReader(reader, length),
         NEW start \in Nat \ {0}, NEW remaining \in Nat, start + remaining <= length + 1
  PROVE  Inside(ReadAll([i \in 1..n |-> reader], start, remaining), start, remaining)
<1> DEFINE readers == [i \in 1..n |-> reader]
<1>1. Len(readers) = n /\ \A i \in 1..n : readers[i] = reader
  OBVIOUS
<1> HIDE DEF readers
<1>2. Inside(ReadAll(readers, start, remaining), start, remaining)
  BY <1>1, AllInside
<1> QED BY <1>2 DEF readers

\* Containers of other values, arrays and optional values go by the reader of what
\* they contain.
LEMMA ElementsInside ==
  ASSUME NEW length \in Nat, NEW reader, IsReader(reader, length), NEW data \in Seq(ByteRange),
         NEW at \in Nat \ {0}, NEW remaining \in Nat, at + remaining <= length + 1
  PROVE  Inside(ReadElements(reader, data, at, remaining), at, remaining)
<1> DEFINE size == decodeUnsignedVarint(data, at, remaining)
           start == at + size.decodedBytes
           left == remaining - size.decodedBytes
           n == size.value
           r == ReadElements(reader, data, at, remaining)
           all == ReadAll([i \in 1..n |-> reader], start, left)
<1>1. /\ size.ok \in BOOLEAN /\ size.last \in Int /\ size.last <= at + remaining - 1
      /\ size.ok => size.decodedBytes \in 1..remaining /\ n \in Nat
  BY DecodesInside
<1>2. r = IF ~size.ok THEN Throws(size.last) ELSE IF left < n THEN Throws(size.last) ELSE all
  BY DEF ReadElements
<1> HIDE DEF size, n, r, all
<1>3. CASE ~size.ok \/ left < n
  <2>1. r = Throws(size.last)
    BY <1>2, <1>3
  <2> QED BY <1>1, <2>1, ThrownInside DEF r
<1>4. CASE size.ok /\ ~(left < n)
  <2>1. /\ start \in Nat \ {0} /\ left \in Nat /\ start + left <= length + 1
        /\ at <= start /\ start + left = at + remaining
    BY <1>1, <1>4
  <2> HIDE DEF start, left
  <2>2. Inside(all, start, left)
    BY <1>1, <1>4, <2>1, CopiesInside DEF all
  <2>3. Inside(all, at, remaining)
    <3>1. /\ all.ok \in BOOLEAN /\ all.last \in Int /\ all.last <= start + left - 1
          /\ all.ok => all.at \in Int /\ start <= all.at /\ all.at <= start + left
      BY <2>2 DEF Inside
    <3>2. all.ok => at <= all.at
      BY <2>1, <3>1
    <3> QED BY <2>1, <3>1, <3>2 DEF Inside
  <2>4. r = all
    BY <1>2, <1>4
  <2> QED BY <2>3, <2>4 DEF r
<1> QED BY <1>1, <1>3, <1>4

\* An array.
LEMMA ArrayInside ==
  ASSUME NEW length \in Nat, NEW T, T.n \in Nat, NEW reader, IsReader(reader, length),
         NEW at \in Nat \ {0}, NEW remaining \in Nat, at + remaining <= length + 1
  PROVE  Inside(ReadArray(T, reader, at, remaining), at, remaining)
<1>1. Inside(ReadAll([i \in 1..T.n |-> reader], at, remaining), at, remaining)
  BY CopiesInside
<1>2. Inside(Throws(0), at, remaining)
  <2>1. 0 <= at + remaining - 1
    OBVIOUS
  <2> QED BY <2>1, ThrownInside
<1> QED BY <1>1, <1>2 DEF ReadArray

\* An optional value, of which one byte has been read.
LEMMA OptionalInside ==
  ASSUME NEW length \in Nat, NEW reader, IsReader(reader, length), NEW data,
         NEW at \in Nat \ {0}, NEW remaining \in Nat, at + remaining <= length + 1
  PROVE  Inside(ReadOptional(reader, data, at, remaining), at, remaining)
<1> DEFINE Bool == [k |-> "bool"]
           present == ReadNumber(Bool, data, at, remaining)
           r == reader[at + 1][remaining - 1]
           result_ == ReadOptional(reader, data, at, remaining)
<1>1. result_ = IF ~present.ok THEN present
                ELSE IF ~present.val THEN Reads(<<>>, at + 1, at)
                ELSE IF ~r.ok THEN r
                ELSE Reads(<<r.val>>, r.at, r.last)
  BY DEF ReadOptional
<1>2. sizeOf(Bool) = 1
  BY DEF sizeOf
<1>3. Inside(present, at, remaining)
  BY <1>2, NumberInside
<1>4. present.ok => remaining >= 1
  <2>1. remaining < 1 => present = [ok |-> FALSE, last |-> 0]
    BY <1>2 DEF ReadNumber, Throws
  <2> QED BY <2>1
<1> HIDE DEF present, result_
<1>5. CASE ~present.ok
  BY <1>1, <1>3, <1>5 DEF result_
<1>6. CASE present.ok
  <2>1. Inside(r, at + 1, remaining - 1)
    <3>1. at + 1 \in Nat \ {0} /\ remaining - 1 \in Nat /\ (at + 1) + (remaining - 1) <= length + 1
      BY <1>4, <1>6
    <3> QED BY <3>1 DEF IsReader
  <2> HIDE DEF r
  <2>2. /\ r.ok \in BOOLEAN /\ r.last \in Int /\ r.last <= at + remaining - 1
        /\ r.ok => r.at \in Int /\ at <= r.at /\ r.at <= at + remaining
    BY <1>4, <1>6, <2>1 DEF Inside
  <2>3. Inside(Reads(<<>>, at + 1, at), at, remaining)
    <3>1. at <= at + 1 /\ at + 1 <= at + remaining /\ at <= at + remaining - 1
      BY <1>4, <1>6
    <3> QED BY <3>1, ReadInside
  <2>4. Inside(r, at, remaining)
    BY <2>2 DEF Inside
  <2>5. r.ok => Inside(Reads(<<r.val>>, r.at, r.last), at, remaining)
    BY <2>2, ReadInside
  <2> QED BY <1>1, <1>6, <2>2, <2>3, <2>4, <2>5 DEF result_
<1> QED BY <1>3, <1>5, <1>6 DEF Inside

-----------------------------------------------------------------------------
(* Readers of types *)

\* What is read of a type goes by the readers of its parts.
LEMMA SameParts ==
  ASSUME TypesAssumption, NEW T \in Types, NEW R, NEW Q, \A U \in PartsOf(T) : R[U] = Q[U],
         NEW data, NEW at, NEW remaining
  PROVE  readFromBuf(R, T, data, at, remaining) = readFromBuf(Q, T, data, at, remaining)
<1>1. T.k \in {"container", "array", "optional"} => R[T.t] = Q[T.t]
  <2> SUFFICES ASSUME T.k \in {"container", "array", "optional"} PROVE R[T.t] = Q[T.t]
    OBVIOUS
  <2>1. PartsOf(T) = {T.t}
    BY DEF PartsOf, isMadeOfParts
  <2> QED BY <2>1
<1>2. T.k = "tuple" => [i \in DOMAIN T.ts |-> R[T.ts[i]]] = [i \in DOMAIN T.ts |-> Q[T.ts[i]]]
  <2> SUFFICES ASSUME T.k = "tuple"
               PROVE  [i \in DOMAIN T.ts |-> R[T.ts[i]]] = [i \in DOMAIN T.ts |-> Q[T.ts[i]]]
    OBVIOUS
  <2>1. PartsOf(T) = {T.ts[i] : i \in DOMAIN T.ts}
    BY DEF PartsOf, isMadeOfParts
  <2>2. \A i \in DOMAIN T.ts : R[T.ts[i]] = Q[T.ts[i]]
    BY <2>1
  <2> QED BY <2>2
<1>3. T.k \in {"num", "bool", "uvar", "ivar", "tuple", "container", "array", "optional"}
  BY DEF TypesAssumption, isMadeOfParts
<1>4. CASE isArithmetic(T)
  BY <1>4 DEF readFromBuf, isArithmetic
<1>5. CASE T.k \in {"uvar", "ivar"}
  BY <1>5 DEF readFromBuf, isArithmetic
<1>6. CASE T.k = "tuple"
  BY <1>2, <1>6 DEF readFromBuf, isArithmetic
<1>7. CASE T.k = "container"
  <2>1. CASE T.t.k \in {"num", "bool"}
    BY <1>7, <2>1 DEF readFromBuf, isArithmetic
  <2>2. CASE ~(T.t.k \in {"num", "bool"})
    BY <1>1, <1>7, <2>2 DEF readFromBuf, isArithmetic
  <2> QED BY <2>1, <2>2
<1>8. CASE T.k = "array"
  BY <1>1, <1>8 DEF readFromBuf, isArithmetic
<1>9. CASE T.k = "optional"
  BY <1>1, <1>9 DEF readFromBuf, isArithmetic
<1> QED BY <1>3, <1>4, <1>5, <1>6, <1>7, <1>8, <1>9 DEF isArithmetic

\* Readers from those of the parts, R, and from those again.
Made(R, data) ==
  [T \in Types |-> [at \in Int |-> [remaining \in Int |-> readFromBuf(R, T, data, at, remaining)]]]

MadeTimes(f, n, data) == f = [i \in 0..n |-> IF i = 0 THEN <<>> ELSE Made(f[i - 1], data)]

\* They can be made as often as one likes.
LEMMA MadeTimesExists ==
  ASSUME NEW n \in Nat, NEW data
  PROVE  \E f : MadeTimes(f, n, data)
<1> DEFINE T == {m \in 0..n : \E f : MadeTimes(f, m, data)}
           M(R) == Made(R, data)
<1>1. 0 \in T
  <2> DEFINE f == [i \in 0..0 |-> <<>>]
  <2>1. \A i \in 0..0 : i = 0
    OBVIOUS
  <2>2. f = [i \in 0..0 |-> IF i = 0 THEN <<>> ELSE M(f[i - 1])]
    BY <2>1
  <2>3. MadeTimes(f, 0, data)
    BY <2>2 DEF MadeTimes
  <2> QED BY <2>3
<1>2. ASSUME NEW i \in 1..n, i - 1 \in T PROVE i \in T
  <2>1. PICK f : MadeTimes(f, i - 1, data)
    BY <1>2
  <2> DEFINE g == [k \in 0..i |-> IF k = i THEN M(f[i - 1]) ELSE f[k]]
  <2>2. \A k \in 0..(i - 1) : f[k] = IF k = 0 THEN <<>> ELSE M(f[k - 1])
    BY <2>1 DEF MadeTimes
  <2> HIDE DEF M
  <2>3. \A k \in 0..i : g[k] = IF k = i THEN M(f[i - 1]) ELSE f[k]
    OBVIOUS
  <2>4. ASSUME NEW k \in 0..i PROVE g[k] = IF k = 0 THEN <<>> ELSE M(g[k - 1])
    <3>1. CASE k = i
      <4>1. i - 1 \in 0..i /\ i - 1 # i /\ k # 0
        BY <3>1
      <4>2. g[i - 1] = f[i - 1]
        BY <2>3, <4>1
      <4> QED BY <2>3, <3>1, <4>1, <4>2
    <3>2. CASE k # i
      <4>1. k \in 0..(i - 1) /\ (k # 0 => k - 1 \in 0..i /\ k - 1 # i)
        BY <3>2
      <4> QED BY <2>2, <2>3, <3>2, <4>1
    <3> QED BY <3>1, <3>2
  <2>5. g = [k \in 0..i |-> g[k]]
    OBVIOUS
  <2> HIDE DEF g
  <2>6. g = [k \in 0..i |-> IF k = 0 THEN <<>> ELSE M(g[k - 1])]
    BY <2>4, <2>5
  <2>7. MadeTimes(g, i, data)
    BY <2>6 DEF MadeTimes, M
  <2> QED BY <2>7
<1> HIDE DEF T
<1>3. n \in T
  BY <1>1, <1>2, Induction
<1> QED BY <1>3 DEF T

\* After as many times as types are nested, nothing changes, so that there are
\* readers that are made of themselves.
LEMMA ReadersMade ==
  ASSUME TypesAssumption, NEW data
  PROVE  ReadersOf(data) = Made(ReadersOf(data), data)
<1> DEFINE n == MaxNesting + 1
<1>1. MaxNesting \in Nat /\ n \in Nat
  BY DEF TypesAssumption
<1>2. PICK f : MadeTimes(f, n, data)
  BY <1>1, MadeTimesExists
<1> DEFINE M(R) == Made(R, data)
           Stays(i) == \A T \in Types : Nesting(T) < i => M(f[i])[T] = f[i][T]
           S == {i \in 0..n : Stays(i)}
<1>3. \A i \in 1..n : f[i] = M(f[i - 1])
  <2>1. \A i \in 1..n : i \in 0..n /\ i # 0
    OBVIOUS
  <2>2. \A i \in 0..n : f[i] = IF i = 0 THEN <<>> ELSE M(f[i - 1])
    BY <1>2 DEF MadeTimes
  <2> QED BY <2>1, <2>2
<1>4. 0 \in S
  <2>1. \A T \in Types : ~(Nesting(T) < 0)
    BY DEF TypesAssumption
  <2> QED BY <1>1, <2>1
<1>5. ASSUME NEW i \in 1..n, i - 1 \in S PROVE i \in S
  <2> SUFFICES ASSUME NEW T \in Types, Nesting(T) < i PROVE M(f[i])[T] = f[i][T]
    OBVIOUS
  <2>1. ASSUME NEW U \in PartsOf(T) PROVE f[i][U] = f[i - 1][U]
    <3>1. U \in Types /\ Nesting(U) < Nesting(T) /\ Nesting(U) \in Nat /\ Nesting(T) \in Nat
      BY DEF TypesAssumption
    <3>2. Nesting(U) < i - 1
      BY <3>1
    <3>3. M(f[i - 1])[U] = f[i - 1][U]
      BY <1>5, <3>1, <3>2
    <3>4. f[i] = M(f[i - 1])
      BY <1>3
    <3> QED BY <3>3, <3>4
  <2>2. \A at, remaining : readFromBuf(f[i], T, data, at, remaining)
                           = readFromBuf(f[i - 1], T, data, at, remaining)
    BY <2>1, SameParts
  <2>3. M(f[i])[T] = M(f[i - 1])[T]
    BY <2>2 DEF Made
  <2> HIDE DEF M
  <2> QED BY <1>3, <2>3
<1> HIDE DEF S
<1>6. n \in S
  BY <1>1, <1>4, <1>5, Induction
<1>7. M(f[n]) = f[n]
  <2>1. \A T \in Types : M(f[n])[T] = f[n][T]
    <3>1. \A T \in Types : Nesting(T) < n
      BY DEF TypesAssumption
    <3> HIDE DEF M
    <3> QED BY <1>6, <3>1 DEF S
  <2>2. f[n] = M(f[n - 1])
    <3>1. n \in 1..n
      BY <1>1
    <3> QED BY <1>3, <3>1
  <2>3. M(f[n]) = [T \in Types |-> M(f[n])[T]] /\ M(f[n - 1]) = [T \in Types |-> M(f[n - 1])[T]]
    BY DEF Made
  <2> HIDE DEF M
  <2> QED BY <2>1, <2>2, <2>3
<1>8. ReadersOf(data) = CHOOSE R : R = M(R)
  BY DEF ReadersOf, Made
<1> HIDE DEF M
<1>9. ReadersOf(data) = M(ReadersOf(data))
  BY <1>7, <1>8
<1> QED BY <1>9 DEF M

\* One type, if the readers of its parts stay inside.
LEMMA TypeInside ==
  ASSUME TypesAssumption, NEW data \in Seq(ByteRange), NEW T \in Types, NEW R,
         \A U \in PartsOf(T) : IsReader(R[U], Len(data)),
         NEW at \in Nat \ {0}, NEW remaining \in Nat, at + remaining <= Len(data) + 1
  PROVE  Inside(readFromBuf(R, T, data, at, remaining), at, remaining)
<1> DEFINE r == readFromBuf(R, T, data, at, remaining)
           length == Len(data)
<1>1. length \in Nat
  OBVIOUS
<1>2. /\ T.k \in {"num", "bool", "uvar", "ivar", "tuple", "container", "array", "optional"}
      /\ T.k = "num" => T.w \in Nat \ {0}
      /\ T.k = "tuple" => T.ts \in Seq(Types)
      /\ T.k = "array" => T.n \in Nat
      /\ \A U \in PartsOf(T) : U \in Types
  <2>1. \A n \in Unsigned : n \in Nat
    BY Sizes DEF Unsigned
  <2> QED BY <2>1 DEF TypesAssumption, isMadeOfParts
<1>3. \A U \in Types : sizeOf(U) \in Nat \ {0}
  BY DEF TypesAssumption, sizeOf
<1>4. T.k \in {"container", "array", "optional"} => T.t \in Types /\ IsReader(R[T.t], length)
  <2> SUFFICES ASSUME T.k \in {"container", "array", "optional"}
               PROVE  T.t \in Types /\ IsReader(R[T.t], length)
    OBVIOUS
  <2>1. PartsOf(T) = {T.t}
    BY DEF PartsOf, isMadeOfParts
  <2> QED BY <1>2, <2>1
<1> HIDE DEF length
<1>5. at + remaining <= length + 1
  BY DEF length
<1>6. CASE isArithmetic(T)
  <2>1. r = ReadNumber(T, data, at, remaining)
    BY <1>6 DEF readFromBuf, isArithmetic
  <2> QED BY <1>3, <2>1, NumberInside
<1>7. CASE T.k \in {"uvar", "ivar"}
  <2>1. r = ReadVarint(T, data, at, remaining)
    BY <1>7 DEF readFromBuf, isArithmetic
  <2> QED BY <2>1, VarintInside
<1>8. CASE T.k = "tuple"
  <2> DEFINE readers == [i \in DOMAIN T.ts |-> R[T.ts[i]]]
             k == Len(T.ts)
  <2>1. r = ReadAll(readers, at, remaining)
    BY <1>8 DEF readFromBuf, isArithmetic
  <2>2. T.ts \in Seq(Types) /\ k \in Nat /\ DOMAIN T.ts = 1..k
    BY <1>2, <1>8
  <2>3. Len(readers) = k
    BY <2>2
  <2>4. \A i \in 1..k : IsReader(readers[i], length)
    <3>1. PartsOf(T) = {T.ts[i] : i \in DOMAIN T.ts}
      BY <1>8 DEF PartsOf, isMadeOfParts
    <3>2. \A i \in 1..k : readers[i] = R[T.ts[i]] /\ T.ts[i] \in PartsOf(T)
      BY <2>2, <3>1
    <3> HIDE DEF readers, k
    <3> QED BY <3>2 DEF length
  <2> HIDE DEF readers, k
  <2>5. Inside(ReadAll(readers, at, remaining), at, remaining)
    BY <1>1, <1>5, <2>2, <2>3, <2>4, AllInside
  <2> QED BY <2>1, <2>5
<1>9. CASE T.k = "container"
  <2>1. CASE T.t.k \in {"num", "bool"}
    <3>1. r = ReadNumbers(T.t, data, at, remaining)
      BY <1>9, <2>1 DEF readFromBuf, isArithmetic
    <3> QED BY <1>3, <1>4, <1>9, <3>1, NumbersInside
  <2>2. CASE ~(T.t.k \in {"num", "bool"})
    <3>1. r = ReadElements(R[T.t], data, at, remaining)
      BY <1>9, <2>2 DEF readFromBuf, isArithmetic
    <3> QED BY <1>1, <1>4, <1>5, <1>9, <3>1, ElementsInside
  <2> QED BY <2>1, <2>2
<1>10. CASE T.k = "array"
  <2>1. r = ReadArray(T, R[T.t], at, remaining)
    BY <1>10 DEF readFromBuf, isArithmetic
  <2> QED BY <1>1, <1>2, <1>4, <1>5, <1>10, <2>1, ArrayInside
<1>11. CASE T.k = "optional"
  <2>1. r = ReadOptional(R[T.t], data, at, remaining)
    BY <1>11 DEF readFromBuf, isArithmetic
  <2> QED BY <1>1, <1>4, <1>5, <1>11, <2>1, OptionalInside
<1> QED BY <1>2, <1>6, <1>7, <1>8, <1>9, <1>10, <1>11 DEF isArithmetic

\* All types, by how deep they are nested.
LEMMA TypesInside ==
  ASSUME TypesAssumption, NEW data \in Seq(ByteRange)
  PROVE  \A T \in Types : IsReader(ReadersOf(data)[T], Len(data))
<1> DEFINE R == ReadersOf(data)
           length == Len(data)
           S == {i \in 0..(MaxNesting + 1) :
                   \A T \in Types : Nesting(T) < i => IsReader(R[T], length)}
<1>1. R = Made(R, data)
  BY ReadersMade
<1> HIDE DEF R
<1>2. MaxNesting \in Nat /\ \A T \in Types : Nesting(T) \in 0..MaxNesting
  BY DEF TypesAssumption
<1>3. 0 \in S
  BY <1>2
<1>4. ASSUME NEW i \in 1..(MaxNesting + 1), i - 1 \in S PROVE i \in S
  <2> SUFFICES ASSUME NEW T \in Types, Nesting(T) < i PROVE IsReader(R[T], length)
    BY <1>2
  <2>1. \A U \in PartsOf(T) : IsReader(R[U], length)
    <3>1. \A U \in PartsOf(T) : U \in Types /\ Nesting(U) < Nesting(T)
      BY DEF TypesAssumption
    <3>2. \A U \in PartsOf(T) : Nesting(U) < i - 1
      BY <1>2, <3>1
    <3> HIDE DEF length
    <3> QED BY <1>4, <3>1, <3>2
  <2>2. ASSUME NEW at \in Nat \ {0}, NEW remaining \in Nat, at + remaining <= length + 1
        PROVE  Inside(R[T][at][remaining], at, remaining)
    <3>1. R[T][at][remaining] = readFromBuf(R, T, data, at, remaining)
      <4>1. at \in Int /\ remaining \in Int
        OBVIOUS
      <4>2. Made(R, data)[T][at][remaining] = readFromBuf(R, T, data, at, remaining)
        BY <4>1 DEF Made
      <4> QED BY <1>1, <4>2
    <3>2. Inside(readFromBuf(R, T, data, at, remaining), at, remaining)
      BY <2>1, <2>2, TypeInside
    <3> QED BY <3>1, <3>2
  <2> HIDE DEF length
  <2> QED BY <2>2 DEF IsReader
<1> HIDE DEF S
<1>5. MaxNesting + 1 \in S
  <2>1. MaxNesting + 1 \in Nat
    BY <1>2
  <2>2. \A i \in 1..(MaxNesting + 1) : i - 1 \in S => i \in S
    BY <1>4
  <2>3. \A i \in 0..(MaxNesting + 1) : i \in S
    BY <1>3, <2>1, <2>2, Induction, Zenon
  <2> QED BY <2>1, <2>3
<1>6. \A T \in Types : Nesting(T) < MaxNesting + 1
  BY <1>2
<1> QED BY <1>5, <1>6 DEF S, R

-----------------------------------------------------------------------------
(* Messages *)

\* A message is read behind its opcode.
LEMMA MessageInside ==
  ASSUME TypesAssumption, NEW args \in Seq(Types), NEW data \in Seq(ByteRange), data # <<>>
  PROVE  LET out == fromBuffer(args, data, Len(data) - 1)
         IN  out.last <= Len(data) /\ (out.ok => out.at <= Len(data) + 1)
<1> DEFINE size == Len(data) - 1
           readers == [i \in DOMAIN args |-> ReadersOf(data)[args[i]]]
           out == fromBuffer(args, data, size)
           n == Len(args)
           length == Len(data)
<1>1. length \in Nat /\ size \in Nat /\ 2 + size <= length + 1 /\ 2 + size = length + 1
  OBVIOUS
<1>2. n \in Nat /\ DOMAIN args = 1..n /\ \A i \in 1..n : args[i] \in Types
  OBVIOUS
<1>3. Len(readers) = n
  BY <1>2
<1>4. \A i \in 1..n : IsReader(readers[i], length)
  <2>1. \A i \in 1..n : readers[i] = ReadersOf(data)[args[i]]
    BY <1>2
  <2> HIDE DEF readers, n
  <2> QED BY <1>2, <2>1, TypesInside
<1>5. out = Throws(0) \/ out = ReadAll(readers, 2, size)
  BY DEF fromBuffer
<1> HIDE DEF size, readers, out, n, length
<1>6. Inside(ReadAll(readers, 2, size), 2, size)
  BY <1>1, <1>2, <1>3, <1>4, AllInside
<1>7. Inside(Throws(0), 2, size)
  BY <1>1, ThrownInside
<1>8. Inside(out, 2, size)
  BY <1>5, <1>6, <1>7
<1>9. out.last <= length /\ (out.ok => out.at <= length + 1)
  BY <1>1, <1>8 DEF Inside
<1> QED BY <1>9 DEF out, length, size

-----------------------------------------------------------------------------
(* Sums and joined sequences *)

Sums(f, s, n) == f = [i \in 0..n |-> IF i = 0 THEN 0 ELSE f[i - 1] + s[i]]

\* What Total() goes through.
LEMMA TotalSums ==
  ASSUME NEW n \in Nat, NEW s, Len(s) = n, \A i \in 1..n : s[i] \in Nat
  PROVE  \E f : Sums(f, s, n) /\ Total(s) = f[n] /\ \A i \in 0..n : f[i] \in Nat
<1> DEFINE S == [i \in 0..n |-> Nat]
           F == [i \in 1..n |-> [x \in Nat |-> x + s[i]]]
<1>1. \A i \in 1..n : \A x \in Nat : F[i][x] = x + s[i] /\ F[i][x] \in Nat
  <2>1. \A i \in 1..n : \A x \in Nat : F[i][x] = x + s[i]
    OBVIOUS
  <2>2. \A x, y \in Nat : x + y \in Nat
    OBVIOUS
  <2> HIDE DEF F
  <2> QED BY <2>1, <2>2
<1>2. \A i \in 0..n : S[i] = Nat
  OBVIOUS
<1>3. \A i \in 1..n : i \in 0..n /\ i - 1 \in 0..n
  OBVIOUS
<1> HIDE DEF S, F
<1>4. PICK h : IsLoop(h, n, 0, F) /\ \A i \in 0..n : h[i] \in S[i]
  <2>1. \A i \in 1..n : \A x \in S[i - 1] : F[i][x] \in S[i]
    BY <1>1, <1>2, <1>3
  <2>2. 0 \in S[0]
    BY <1>2
  <2> QED BY <2>1, <2>2, LoopExists
<1>5. Sums(h, s, n)
  <2>1. ASSUME NEW i \in 0..n PROVE h[i] = IF i = 0 THEN 0 ELSE h[i - 1] + s[i]
    <3>1. h[i] = IF i = 0 THEN 0 ELSE F[i][h[i - 1]]
      BY <1>4 DEF IsLoop
    <3>2. i # 0 => i \in 1..n
      OBVIOUS
    <3> QED BY <1>1, <1>2, <1>3, <1>4, <3>1, <3>2
  <2>2. h = [i \in 0..n |-> h[i]]
    BY <1>4 DEF IsLoop
  <2> QED BY <2>1, <2>2 DEF Sums
<1> DEFINE f == CHOOSE g : Sums(g, s, n)
<1>6. Sums(f, s, n)
  BY <1>5
<1>7. Total(s) = f[n]
  BY DEF Total, Sums
<1> HIDE DEF f
<1>8. ASSUME NEW k \in 0..n PROVE f[k] \in Nat
  <2> DEFINE T == {i \in 0..n : f[i] \in Nat}
  <2>1. 0 \in T
    BY <1>6 DEF Sums
  <2>2. ASSUME NEW i \in 1..n, i - 1 \in T PROVE i \in T
    <3>1. f[i] = f[i - 1] + s[i]
      BY <1>6 DEF Sums
    <3> QED BY <2>2, <3>1
  <2> HIDE DEF T
  <2>3. k \in T
    BY <2>1, <2>2, Induction
  <2> QED BY <2>3 DEF T
<1> QED BY <1>6, <1>7, <1>8

\* The sum of larger numbers is larger.
LEMMA TotalGrows ==
  ASSUME NEW n \in Nat, NEW s, NEW t, Len(s) = n, Len(t) = n,
         \A i \in 1..n : s[i] \in Nat /\ t[i] \in Nat /\ s[i] <= t[i]
  PROVE  Total(s) \in Nat /\ Total(t) \in Nat /\ Total(s) <= Total(t)
<1>1. PICK f : Sums(f, s, n) /\ Total(s) = f[n] /\ \A i \in 0..n : f[i] \in Nat
  BY TotalSums
<1>2. PICK g : Sums(g, t, n) /\ Total(t) = g[n] /\ \A i \in 0..n : g[i] \in Nat
  BY TotalSums
<1> DEFINE T == {i \in 0..n : f[i] <= g[i]}
<1>3. 0 \in T
  BY <1>1, <1>2 DEF Sums
<1>4. ASSUME NEW i \in 1..n, i - 1 \in T PROVE i \in T
  <2>1. f[i] = f[i - 1] + s[i] /\ g[i] = g[i - 1] + t[i]
    BY <1>1, <1>2 DEF Sums
  <2>2. i \in 0..n /\ i - 1 \in 0..n
    OBVIOUS
  <2>3. f[i - 1] \in Nat /\ g[i - 1] \in Nat /\ f[i - 1] <= g[i - 1]
    BY <1>1, <1>2, <1>4, <2>2
  <2> QED BY <2>1, <2>2, <2>3
<1> HIDE DEF T
<1>5. n \in T /\ n \in 0..n
  <2>1. \A i \in 1..n : i - 1 \in T => i \in T
    BY <1>4
  <2>2. \A i \in 0..n : i \in T
    BY <1>3, <2>1, Induction, Zenon
  <2> QED BY <2>2
<1> QED BY <1>1, <1>2, <1>5 DEF T

Joins(f, s, n) ==
  /\ f = [i \in 0..n |-> IF i = 0 THEN <<>> ELSE f[i - 1] \o s[i]]
  /\ \A i \in 1..n : s[i] \in Seq(ByteRange)
  /\ \A i \in 0..n : f[i] \in Seq(ByteRange)

\* What Joined() goes through: each stays at the beginning of the next.
LEMMA JoinedJoins ==
  ASSUME NEW n \in Nat, NEW s, Len(s) = n, \A i \in 1..n : s[i] \in Seq(ByteRange)
  PROVE  \E f : Joins(f, s, n) /\ Joined(s) = f[n]
<1> DEFINE Loop(f) == f = [i \in 0..n |-> IF i = 0 THEN <<>> ELSE f[i - 1] \o s[i]]
           B == Seq(ByteRange)
           S == [i \in 0..n |-> B]
           F == [i \in 1..n |-> [x \in B |-> x \o s[i]]]
<1>1. \A i \in 1..n : \A x \in B : F[i][x] = x \o s[i] /\ F[i][x] \in B
  <2>1. \A i \in 1..n : \A x \in B : F[i][x] = x \o s[i]
    OBVIOUS
  <2>2. \A x, y \in B : x \o y \in B
    OBVIOUS
  <2> HIDE DEF F, B
  <2>3. \A i \in 1..n : s[i] \in B
    BY DEF B
  <2> QED BY <2>1, <2>2, <2>3
<1>2. (\A i \in 0..n : S[i] = B) /\ <<>> \in B
  OBVIOUS
<1>3. \A i \in 1..n : i \in 0..n /\ i - 1 \in 0..n
  OBVIOUS
<1>4. \A i \in 1..n : s[i] \in B
  OBVIOUS
<1> HIDE DEF S, F, B
<1>5. PICK h : IsLoop(h, n, <<>>, F) /\ \A i \in 0..n : h[i] \in S[i]
  <2>1. \A i \in 1..n : \A x \in S[i - 1] : F[i][x] \in S[i]
    BY <1>1, <1>2, <1>3
  <2>2. <<>> \in S[0]
    BY <1>2
  <2> QED BY <2>1, <2>2, LoopExists
<1>6. Loop(h)
  <2>1. ASSUME NEW i \in 0..n PROVE h[i] = IF i = 0 THEN <<>> ELSE h[i - 1] \o s[i]
    <3>1. h[i] = IF i = 0 THEN <<>> ELSE F[i][h[i - 1]]
      BY <1>5 DEF IsLoop
    <3>2. i # 0 => i \in 1..n
      OBVIOUS
    <3>3. CASE i = 0
      BY <3>1, <3>3
    <3>4. CASE i # 0
      <4>1. i \in 1..n /\ h[i - 1] \in B
        BY <1>2, <1>3, <1>5, <3>2, <3>4
      <4>2. F[i][h[i - 1]] = h[i - 1] \o s[i]
        BY <1>1, <4>1
      <4> QED BY <3>1, <3>4, <4>2
    <3> QED BY <3>3, <3>4
  <2>2. h = [i \in 0..n |-> h[i]]
    BY <1>5 DEF IsLoop
  <2> QED BY <2>1, <2>2
<1> DEFINE f == CHOOSE g : Loop(g)
<1>7. Loop(f)
  BY <1>6
<1>8. Joined(s) = f[n]
  BY DEF Joined
<1> HIDE DEF f
<1>9. ASSUME NEW k \in 0..n PROVE f[k] \in B
  <2> DEFINE T == {i \in 0..n : f[i] \in B}
  <2>1. 0 \in T
    BY <1>2, <1>7
  <2>2. ASSUME NEW i \in 1..n, i - 1 \in T PROVE i \in T
    <3>1. f[i] = f[i - 1] \o s[i]
      <4>1. i \in 0..n /\ i # 0
        OBVIOUS
      <4> QED BY <1>7, <4>1
    <3>2. \A x, y \in B : x \o y \in B
      BY DEF B
    <3>3. i \in 0..n /\ f[i - 1] \in B /\ s[i] \in B
      BY <1>3, <1>4, <2>2
    <3>4. f[i - 1] \o s[i] \in B
      BY <3>2, <3>3
    <3> QED BY <3>1, <3>3, <3>4
  <2> HIDE DEF T
  <2>3. \A i \in 1..n : i - 1 \in T => i \in T
    BY <2>2
  <2>4. \A i \in 0..n : i \in T
    BY <2>1, <2>3, Induction, Zenon
  <2> QED BY <2>4 DEF T
<1> QED BY <1>4, <1>7, <1>8, <1>9 DEF B, Joins

\* A sequence that goes on with another one, and one that others begin with.
Continues(z, x, y) ==
  /\ Len(z) = Len(x) + Len(y)
  /\ \A k \in 1..Len(y) : z[Len(x) + k] = y[k]
  /\ \A k \in 1..Len(x) : z[k] = x[k]

Begins(x, z) == Len(x) <= Len(z) /\ \A k \in 1..Len(x) : z[k] = x[k]

LEMMA ContinuesBegins ==
  ASSUME NEW w \in Seq(ByteRange), NEW x \in Seq(ByteRange), NEW y \in Seq(ByteRange),
         NEW z \in Seq(ByteRange), Begins(w, x), Continues(z, x, y)
  PROVE  Begins(w, z)
<1>1. /\ Len(w) \in Nat /\ Len(x) \in Nat /\ Len(y) \in Nat /\ Len(z) = Len(x) + Len(y)
      /\ Len(w) <= Len(x)
  BY DEF Begins, Continues
<1>2. ASSUME NEW k \in 1..Len(w) PROVE z[k] = w[k]
  <2>1. k \in 1..Len(x)
    BY <1>1
  <2> QED BY <2>1 DEF Begins, Continues
<1>3. Len(w) <= Len(z)
  BY <1>1
<1> QED BY <1>2, <1>3 DEF Begins

\* Where the parts are in what is joined.
LEMMA JoinedParts ==
  ASSUME NEW n \in Nat, NEW s, NEW f, Joins(f, s, n)
  PROVE  /\ f[0] = <<>>
         /\ \A i \in 1..n : Continues(f[i], f[i - 1], s[i]) /\ Len(f[i]) = Len(f[i - 1]) + Len(s[i])
         /\ \A i \in 0..n : Begins(f[i], f[n])
<1>1. f[0] = <<>>
  BY DEF Joins
<1>2. (\A i \in 0..n : f[i] \in Seq(ByteRange)) /\ \A i \in 1..n : s[i] \in Seq(ByteRange)
  BY DEF Joins
<1>3. ASSUME NEW i \in 1..n
      PROVE  Continues(f[i], f[i - 1], s[i]) /\ Len(f[i]) = Len(f[i - 1]) + Len(s[i])
  <2> DEFINE x == f[i - 1]
             y == s[i]
             z == f[i]
  <2>1. i \in 0..n /\ i # 0 /\ i - 1 \in 0..n
    OBVIOUS
  <2>2. z = x \o y
    BY <2>1 DEF Joins
  <2>3. x \in Seq(ByteRange) /\ y \in Seq(ByteRange)
    BY <1>2, <2>1
  <2> HIDE DEF x, y, z
  <2>4. Continues(z, x, y) /\ Len(z) = Len(x) + Len(y)
    BY <2>2, <2>3 DEF Continues
  <2> QED BY <2>4 DEF x, y, z
<1> DEFINE T == {m \in 0..n : \A i \in 0..m : Begins(f[i], f[m])}
<1>4. \A x : x \in Seq(ByteRange) => Begins(x, x)
  BY DEF Begins
<1>5. 0 \in T
  <2>1. Begins(f[0], f[0]) /\ 0 \in 0..n
    BY <1>2, <1>4
  <2> QED BY <2>1
<1>6. ASSUME NEW m \in 1..n, m - 1 \in T PROVE m \in T
  <2> SUFFICES ASSUME NEW i \in 0..m PROVE Begins(f[i], f[m])
    OBVIOUS
  <2>1. i \in 0..n /\ m - 1 \in 0..n /\ m \in 0..n
    OBVIOUS
  <2>2. CASE i = m
    BY <1>2, <1>4, <2>1, <2>2
  <2>3. CASE i # m
    <3>1. i \in 0..(m - 1)
      BY <2>3
    <3>2. Begins(f[i], f[m - 1])
      BY <1>6, <3>1
    <3>3. Continues(f[m], f[m - 1], s[m])
      BY <1>3
    <3>4. f[i] \in Seq(ByteRange) /\ f[m - 1] \in Seq(ByteRange) /\ f[m] \in Seq(ByteRange)
          /\ s[m] \in Seq(ByteRange)
      BY <1>2, <2>1
    <3> QED BY <3>2, <3>3, <3>4, ContinuesBegins
  <2> QED BY <2>2, <2>3
<1> HIDE DEF T
<1>7. n \in T
  <2>1. \A m \in 1..n : m - 1 \in T => m \in T
    BY <1>6
  <2>2. \A m \in 0..n : m \in T
    BY <1>5, <2>1, Induction, Zenon
  <2> QED BY <2>2
<1> QED BY <1>1, <1>3, <1>7 DEF T

-----------------------------------------------------------------------------
(* What is made of values by way of their parts *)

\* What is written of a value, what is expected of it, and whether it holds an
\* array, from its parts.
What(of, T, v, parts) ==
  IF of = "written" THEN [size |-> getSize(T, v, parts), bytes |-> writeToBuf(T, v, parts)]
  ELSE IF of = "expected" THEN [readable |-> Readable(T, v, parts), received |-> Received(T, v, parts)]
  ELSE T.k = "array" \/ \E i \in DOMAIN parts : parts[i]

FromParts(of, F) == [T \in Types |-> [v \in ValuesOf(T) |-> What(of, T, v, OfParts(F, T, v))]]

FromPartsTimes(f, n, of) ==
  f = [i \in 0..n |-> IF i = 0 THEN <<>> ELSE FromParts(of, f[i - 1])]

LEMMA FromPartsTimesExists ==
  ASSUME NEW n \in Nat, NEW of
  PROVE  \E f : FromPartsTimes(f, n, of)
<1> DEFINE T == {m \in 0..n : \E f : FromPartsTimes(f, m, of)}
           M(F) == FromParts(of, F)
<1>1. 0 \in T
  <2> DEFINE f == [i \in 0..0 |-> <<>>]
  <2>1. \A i \in 0..0 : i = 0
    OBVIOUS
  <2>2. f = [i \in 0..0 |-> IF i = 0 THEN <<>> ELSE M(f[i - 1])]
    BY <2>1
  <2>3. FromPartsTimes(f, 0, of)
    BY <2>2 DEF FromPartsTimes
  <2> QED BY <2>3
<1>2. ASSUME NEW i \in 1..n, i - 1 \in T PROVE i \in T
  <2>1. PICK f : FromPartsTimes(f, i - 1, of)
    BY <1>2
  <2> DEFINE g == [k \in 0..i |-> IF k = i THEN M(f[i - 1]) ELSE f[k]]
  <2>2. \A k \in 0..(i - 1) : f[k] = IF k = 0 THEN <<>> ELSE M(f[k - 1])
    BY <2>1 DEF FromPartsTimes
  <2> HIDE DEF M
  <2>3. \A k \in 0..i : g[k] = IF k = i THEN M(f[i - 1]) ELSE f[k]
    OBVIOUS
  <2>4. ASSUME NEW k \in 0..i PROVE g[k] = IF k = 0 THEN <<>> ELSE M(g[k - 1])
    <3>1. CASE k = i
      <4>1. i - 1 \in 0..i /\ i - 1 # i /\ k # 0
        BY <3>1
      <4>2. g[i - 1] = f[i - 1]
        BY <2>3, <4>1
      <4> QED BY <2>3, <3>1, <4>1, <4>2
    <3>2. CASE k # i
      <4>1. k \in 0..(i - 1) /\ (k # 0 => k - 1 \in 0..i /\ k - 1 # i)
        BY <3>2
      <4> QED BY <2>2, <2>3, <3>2, <4>1
    <3> QED BY <3>1, <3>2
  <2>5. g = [k \in 0..i |-> g[k]]
    OBVIOUS
  <2> HIDE DEF g
  <2>6. g = [k \in 0..i |-> IF k = 0 THEN <<>> ELSE M(g[k - 1])]
    BY <2>4, <2>5
  <2>7. FromPartsTimes(g, i, of)
    BY <2>6 DEF FromPartsTimes, M
  <2> QED BY <2>7
<1> HIDE DEF T
<1>3. n \in T
  BY <1>1, <1>2, Induction
<1> QED BY <1>3 DEF T

\* A part of a value has a type of the value's parts.
LEMMA PartTypes ==
  ASSUME TypesAssumption, ValuesAssumption, NEW T \in Types, isMadeOfParts(T),
         NEW v \in ValuesOf(T), NEW i \in 1..Len(v)
  PROVE  PartOf(T, i) \in PartsOf(T) /\ PartOf(T, i) \in Types /\ v[i] \in ValuesOf(PartOf(T, i))
         /\ Nesting(PartOf(T, i)) < Nesting(T)
<1>1. v[i] \in ValuesOf(PartOf(T, i))
  BY DEF ValuesAssumption
<1>2. PartOf(T, i) \in PartsOf(T)
  <2>1. CASE T.k = "tuple"
    <3>1. T.ts \in Seq(Types) /\ Len(v) = Len(T.ts)
      BY <2>1 DEF TypesAssumption, ValuesAssumption
    <3>2. i \in DOMAIN T.ts
      BY <3>1
    <3> QED BY <2>1, <3>2 DEF PartOf, PartsOf
  <2>2. CASE T.k # "tuple"
    BY <2>2 DEF PartOf, PartsOf
  <2> QED BY <2>1, <2>2
<1> QED BY <1>1, <1>2 DEF TypesAssumption

LEMMA SameOfParts ==
  ASSUME TypesAssumption, ValuesAssumption, NEW T \in Types, NEW v \in ValuesOf(T),
         NEW F, NEW G, \A U \in PartsOf(T) : F[U] = G[U]
  PROVE  OfParts(F, T, v) = OfParts(G, T, v)
<1>1. CASE isMadeOfParts(T)
  <2>1. \A i \in 1..Len(v) : F[PartOf(T, i)] = G[PartOf(T, i)]
    BY <1>1, PartTypes
  <2>2. \A i \in 1..Len(v) : F[PartOf(T, i)][v[i]] = G[PartOf(T, i)][v[i]]
    BY <2>1
  <2> QED BY <1>1, <2>2 DEF OfParts
<1>2. CASE ~isMadeOfParts(T)
  BY <1>2 DEF OfParts
<1> QED BY <1>1, <1>2

LEMMA FromPartsExists ==
  ASSUME TypesAssumption, ValuesAssumption, NEW of
  PROVE  \E F : F = FromParts(of, F)
<1> DEFINE n == MaxNesting + 1
<1>1. MaxNesting \in Nat /\ n \in Nat
  BY DEF TypesAssumption
<1>2. PICK f : FromPartsTimes(f, n, of)
  BY <1>1, FromPartsTimesExists
<1> DEFINE M(F) == FromParts(of, F)
           Stays(i) == \A T \in Types : Nesting(T) < i => M(f[i])[T] = f[i][T]
           S == {i \in 0..n : Stays(i)}
<1>3. \A i \in 1..n : f[i] = M(f[i - 1])
  <2>1. \A i \in 1..n : i \in 0..n /\ i # 0
    OBVIOUS
  <2>2. \A i \in 0..n : f[i] = IF i = 0 THEN <<>> ELSE M(f[i - 1])
    BY <1>2 DEF FromPartsTimes
  <2> QED BY <2>1, <2>2
<1>4. 0 \in S
  <2>1. \A T \in Types : ~(Nesting(T) < 0)
    BY DEF TypesAssumption
  <2> QED BY <1>1, <2>1
<1>5. ASSUME NEW i \in 1..n, i - 1 \in S PROVE i \in S
  <2> SUFFICES ASSUME NEW T \in Types, Nesting(T) < i PROVE M(f[i])[T] = f[i][T]
    OBVIOUS
  <2>1. ASSUME NEW U \in PartsOf(T) PROVE f[i][U] = f[i - 1][U]
    <3>1. U \in Types /\ Nesting(U) < Nesting(T) /\ Nesting(U) \in Nat /\ Nesting(T) \in Nat
      BY DEF TypesAssumption
    <3>2. Nesting(U) < i - 1
      BY <3>1
    <3>3. M(f[i - 1])[U] = f[i - 1][U]
      BY <1>5, <3>1, <3>2
    <3>4. f[i] = M(f[i - 1])
      BY <1>3
    <3> QED BY <3>3, <3>4
  <2>2. \A v \in ValuesOf(T) : OfParts(f[i], T, v) = OfParts(f[i - 1], T, v)
    BY <2>1, SameOfParts
  <2>3. M(f[i])[T] = M(f[i - 1])[T]
    <3>1. [v \in ValuesOf(T) |-> What(of, T, v, OfParts(f[i], T, v))]
          = [v \in ValuesOf(T) |-> What(of, T, v, OfParts(f[i - 1], T, v))]
      BY <2>2
    <3> QED BY <3>1 DEF FromParts
  <2> HIDE DEF M
  <2> QED BY <1>3, <2>3
<1> HIDE DEF S
<1>6. n \in S
  <2>1. \A i \in 1..n : i - 1 \in S => i \in S
    BY <1>5
  <2>2. \A i \in 0..n : i \in S
    BY <1>1, <1>4, <2>1, Induction, Zenon
  <2> QED BY <1>1, <2>2
<1>7. M(f[n]) = f[n]
  <2>1. \A T \in Types : M(f[n])[T] = f[n][T]
    <3>1. \A T \in Types : Nesting(T) < n
      BY DEF TypesAssumption
    <3> HIDE DEF M
    <3> QED BY <1>6, <3>1 DEF S
  <2>2. f[n] = M(f[n - 1])
    <3>1. n \in 1..n
      BY <1>1
    <3> QED BY <1>3, <3>1
  <2>3. M(f[n]) = [T \in Types |-> M(f[n])[T]] /\ M(f[n - 1]) = [T \in Types |-> M(f[n - 1])[T]]
    BY DEF FromParts
  <2> HIDE DEF M
  <2> QED BY <2>1, <2>2, <2>3
<1> QED BY <1>7

\* The compiler's overloads are made from those for the parts.
LEMMA WritersWrite ==
  ASSUME TypesAssumption, ValuesAssumption, NEW T \in Types, NEW v \in ValuesOf(T)
  PROVE  LET parts == OfParts(Writers, T, v)
         IN  Writers[T][v] = [size |-> getSize(T, v, parts), bytes |-> writeToBuf(T, v, parts)]
<1>1. Writers = CHOOSE F : F = FromParts("written", F)
  BY DEF Writers, FromParts, What
<1>2. Writers = FromParts("written", Writers)
  BY <1>1, FromPartsExists
<1>3. FromParts("written", Writers)[T][v] = What("written", T, v, OfParts(Writers, T, v))
  BY DEF FromParts
<1> QED BY <1>2, <1>3 DEF What

LEMMA ExpectedExpects ==
  ASSUME TypesAssumption, ValuesAssumption, NEW T \in Types, NEW v \in ValuesOf(T)
  PROVE  LET parts == OfParts(Expected, T, v)
         IN  Expected[T][v] = [readable |-> Readable(T, v, parts), received |-> Received(T, v, parts)]
<1>1. Expected = CHOOSE F : F = FromParts("expected", F)
  BY DEF Expected, FromParts, What
<1>2. Expected = FromParts("expected", Expected)
  BY <1>1, FromPartsExists
<1>3. FromParts("expected", Expected)[T][v] = What("expected", T, v, OfParts(Expected, T, v))
  BY DEF FromParts
<1> QED BY <1>2, <1>3 DEF What

LEMMA ArraysHeld ==
  ASSUME TypesAssumption, ValuesAssumption, NEW T \in Types, NEW v \in ValuesOf(T)
  PROVE  LET parts == OfParts(HoldsArray, T, v)
         IN  HoldsArray[T][v] = (T.k = "array" \/ \E i \in DOMAIN parts : parts[i])
<1>1. HoldsArray = CHOOSE F : F = FromParts("arrays", F)
  BY DEF HoldsArray, FromParts, What
<1>2. HoldsArray = FromParts("arrays", HoldsArray)
  BY <1>1, FromPartsExists
<1>3. FromParts("arrays", HoldsArray)[T][v] = What("arrays", T, v, OfParts(HoldsArray, T, v))
  BY DEF FromParts
<1> QED BY <1>2, <1>3 DEF What

-----------------------------------------------------------------------------
(* What is written *)

\* A value's bytes do not take more than their size.
IsWritten(r) == r.bytes \in Seq(ByteRange) /\ r.size \in Nat /\ Len(r.bytes) <= r.size

LEMMA OneBehind ==
  ASSUME NEW x \in Seq(ByteRange), NEW y \in Seq(ByteRange)
  PROVE  x \o y \in Seq(ByteRange) /\ Len(x \o y) = Len(x) + Len(y) /\ Begins(x, x \o y)
BY DEF Begins

\* Nor do joined bytes.
LEMMA JoinedSize ==
  ASSUME NEW n \in Nat, NEW s, Len(s) = n, NEW z, Len(z) = n,
         \A i \in 1..n : s[i] \in Seq(ByteRange) /\ z[i] \in Nat /\ Len(s[i]) <= z[i]
  PROVE  Joined(s) \in Seq(ByteRange) /\ Total(z) \in Nat /\ Len(Joined(s)) <= Total(z)
<1>1. PICK f : Joins(f, s, n) /\ Joined(s) = f[n]
  BY JoinedJoins
<1>2. PICK g : Sums(g, z, n) /\ Total(z) = g[n] /\ \A i \in 0..n : g[i] \in Nat
  BY TotalSums
<1>3. f[0] = <<>> /\ \A i \in 1..n : Len(f[i]) = Len(f[i - 1]) + Len(s[i])
  BY <1>1, JoinedParts
<1>4. \A i \in 0..n : Len(f[i]) \in Nat
  <2>1. \A i \in 0..n : f[i] \in Seq(ByteRange)
    BY <1>1 DEF Joins
  <2> QED BY <2>1
<1> DEFINE T == {i \in 0..n : Len(f[i]) <= g[i]}
<1>5. 0 \in T
  BY <1>2, <1>3 DEF Sums
<1>6. ASSUME NEW i \in 1..n, i - 1 \in T PROVE i \in T
  <2>1. i \in 0..n /\ i - 1 \in 0..n /\ i # 0
    OBVIOUS
  <2>2. g[i] = g[i - 1] + z[i]
    BY <1>2, <2>1 DEF Sums
  <2> DEFINE a == Len(f[i])
             b == Len(f[i - 1])
             c == Len(s[i])
             d == g[i]
             e == g[i - 1]
             x == z[i]
  <2>3. a \in Nat /\ b \in Nat /\ c \in Nat /\ d \in Nat /\ e \in Nat /\ x \in Nat
    BY <1>2, <1>4, <2>1
  <2>4. a = b + c /\ b <= e /\ c <= x /\ d = e + x
    BY <1>3, <1>6, <2>2
  <2> HIDE DEF a, b, c, d, e, x
  <2>5. a <= d
    BY <2>3, <2>4
  <2> QED BY <2>1, <2>5 DEF a, d
<1> HIDE DEF T
<1>7. \A i \in 0..n : i \in T
  <2>1. \A i \in 1..n : i - 1 \in T => i \in T
    BY <1>6
  <2> QED BY <1>5, <2>1, Induction, Zenon
<1>8. n \in T /\ n \in 0..n
  BY <1>7
<1> QED BY <1>1, <1>2, <1>8 DEF T, Joins

AllOfSize(s, z, n) == \A i \in 1..n : Len(s[i]) = z[i]

\* They take as many just if each value takes as many as its size.
LEMMA JoinedExact ==
  ASSUME NEW n \in Nat, NEW s, Len(s) = n, NEW z, Len(z) = n,
         \A i \in 1..n : s[i] \in Seq(ByteRange) /\ z[i] \in Nat /\ Len(s[i]) <= z[i]
  PROVE  Len(Joined(s)) = Total(z) <=> AllOfSize(s, z, n)
<1>1. PICK f : Joins(f, s, n) /\ Joined(s) = f[n]
  BY JoinedJoins
<1>2. PICK g : Sums(g, z, n) /\ Total(z) = g[n] /\ \A i \in 0..n : g[i] \in Nat
  BY TotalSums
<1>3. f[0] = <<>> /\ \A i \in 1..n : Len(f[i]) = Len(f[i - 1]) + Len(s[i])
  BY <1>1, JoinedParts
<1>4. \A i \in 0..n : Len(f[i]) \in Nat
  <2>1. \A i \in 0..n : f[i] \in Seq(ByteRange)
    BY <1>1 DEF Joins
  <2> QED BY <2>1
<1> DEFINE Exact(i) == AllOfSize(s, z, i)
           T == {i \in 0..n : Len(f[i]) <= g[i] /\ (Len(f[i]) = g[i] <=> Exact(i))}
<1>5. 0 \in T
  <2>1. Len(f[0]) = 0 /\ g[0] = 0 /\ 0 \in 0..n
    BY <1>2, <1>3 DEF Sums
  <2>2. Exact(0)
    BY DEF AllOfSize
  <2> QED BY <2>1, <2>2
<1>6. ASSUME NEW i \in 1..n, i - 1 \in T PROVE i \in T
  <2>1. i \in 0..n /\ i - 1 \in 0..n /\ i # 0
    OBVIOUS
  <2>2. g[i] = g[i - 1] + z[i]
    BY <1>2, <2>1 DEF Sums
  <2>3. Exact(i) <=> Exact(i - 1) /\ Len(s[i]) = z[i]
    <3>1. \A k : k \in 1..i <=> k \in 1..(i - 1) \/ k = i
      OBVIOUS
    <3> QED BY <3>1 DEF AllOfSize
  <2> DEFINE a == Len(f[i])
             b == Len(f[i - 1])
             c == Len(s[i])
             d == g[i]
             e == g[i - 1]
             x == z[i]
  <2>4. a \in Nat /\ b \in Nat /\ d \in Nat /\ e \in Nat
    BY <1>2, <1>4, <2>1
  <2>5. c \in Nat /\ x \in Nat /\ c <= x
    OBVIOUS
  <2>6. a = b + c /\ b <= e /\ d = e + x /\ (b = e <=> Exact(i - 1))
    BY <1>3, <1>6, <2>2
  <2> HIDE DEF a, b, c, d, e, x, Exact
  <2>7. a <= d /\ (a = d <=> b = e /\ c = x)
    BY <2>4, <2>5, <2>6
  <2>8. Exact(i) <=> Exact(i - 1) /\ c = x
    BY <2>3 DEF c, x
  <2>9. a <= d /\ (a = d <=> Exact(i))
    BY <2>6, <2>7, <2>8
  <2> QED BY <2>1, <2>9 DEF a, d
<1> HIDE DEF T
<1>7. \A i \in 0..n : i \in T
  <2>1. \A i \in 1..n : i - 1 \in T => i \in T
    BY <1>6
  <2> QED BY <1>5, <2>1, Induction, Zenon
<1>8. n \in T /\ n \in 0..n
  BY <1>7
<1> QED BY <1>1, <1>2, <1>8 DEF T

\* Values of one width, of which joined bytes are as many as they should.
LEMMA JoinedWidth ==
  ASSUME NEW n \in Nat, NEW w \in Nat, NEW s, Len(s) = n,
         \A i \in 1..n : Len(s[i]) = w, NEW f, Joins(f, s, n)
  PROVE  \A i \in 0..n : Len(f[i]) = i * w
<1>1. f[0] = <<>> /\ \A i \in 1..n : Len(f[i]) = Len(f[i - 1]) + Len(s[i])
  <2>1. \A i \in 1..n : Continues(f[i], f[i - 1], s[i])
    BY JoinedParts
  <2>2. f[0] = <<>>
    BY DEF Joins
  <2> QED BY <2>1, <2>2 DEF Continues
<1> DEFINE T == {i \in 0..n : Len(f[i]) = i * w}
<1>2. 0 \in T
  BY <1>1
<1>3. ASSUME NEW i \in 1..n, i - 1 \in T PROVE i \in T
  <2>1. Len(f[i]) = (i - 1) * w + w
    BY <1>1, <1>3
  <2>2. (i - 1) * w + w = i * w
    BY ONLY i \in 1..n, n \in Nat, w \in Nat
  <2> QED BY <2>1, <2>2
<1> HIDE DEF T
<1>4. \A i \in 0..n : i \in T
  <2>1. \A i \in 1..n : i - 1 \in T => i \in T
    BY <1>3
  <2> QED BY <1>2, <2>1, Induction, Zenon
<1> QED BY <1>4 DEF T

\* Values that take bytes take at least as many as there are values.
LEMMA JoinedAtLeast ==
  ASSUME NEW n \in Nat, NEW s, Len(s) = n,
         \A i \in 1..n : s[i] \in Seq(ByteRange) /\ Len(s[i]) >= 1
  PROVE  Len(Joined(s)) >= n
<1>1. PICK f : Joins(f, s, n) /\ Joined(s) = f[n]
  BY JoinedJoins
<1>2. f[0] = <<>> /\ \A i \in 1..n : Len(f[i]) = Len(f[i - 1]) + Len(s[i])
  BY ONLY n \in Nat, <1>1, JoinedParts
<1>3. \A i \in 0..n : Len(f[i]) \in Nat
  <2>1. \A i \in 0..n : f[i] \in Seq(ByteRange)
    BY <1>1 DEF Joins
  <2> QED BY <2>1
<1> DEFINE T == {i \in 0..n : Len(f[i]) >= i}
<1>4. 0 \in T
  BY <1>2
<1>5. ASSUME NEW i \in 1..n, i - 1 \in T PROVE i \in T
  <2> DEFINE a == Len(f[i])
             b == Len(f[i - 1])
             c == Len(s[i])
  <2>1. i \in 0..n /\ i - 1 \in 0..n /\ a \in Nat /\ b \in Nat /\ c \in Nat
    <3>1. i \in 0..n /\ i - 1 \in 0..n
      OBVIOUS
    <3>2. s[i] \in Seq(ByteRange)
      OBVIOUS
    <3> QED BY <1>3, <3>1, <3>2
  <2>2. a = b + c /\ b >= i - 1 /\ c >= 1
    BY <1>2, <1>5
  <2> HIDE DEF a, b, c
  <2>3. a >= i
    BY <2>1, <2>2
  <2> QED BY <2>1, <2>3 DEF a
<1> HIDE DEF T
<1>6. \A i \in 0..n : i \in T
  <2>1. \A i \in 1..n : i - 1 \in T => i \in T
    BY <1>5
  <2> QED BY <1>4, <2>1, Induction, Zenon
<1>7. n \in T
  BY <1>6
<1> QED BY <1>1, <1>7 DEF T

\* What a byte counts.
LEMMA PlaceFacts ==
  /\ Place(0) = 1 /\ Place(1) = 2 * Group
  /\ \A i \in Nat : Place(i) \in Nat \ {0} /\ Place(i + 1) = Place(i) * (2 * Group)
<1>1. GroupBits \in Nat \ {0} /\ Group \in Nat /\ Group >= 2
  BY Sizes
<1> DEFINE g == GroupBits + 1
<1>2. g \in Nat /\ Power[g] = 2 * Group
  BY <1>1, PowerDef DEF Group
<1> HIDE DEF g
<1>3. Place(0) = 1 /\ Place(1) = 2 * Group
  <2>1. g * 0 = 0 /\ g * 1 = g
    BY <1>2
  <2> QED BY <1>2, <2>1, PowerDef DEF Place, g
<1>4. ASSUME NEW i \in Nat PROVE Place(i) \in Nat \ {0} /\ Place(i + 1) = Place(i) * (2 * Group)
  <2>1. g * i \in Nat /\ g * (i + 1) = g * i + g
    BY <1>2
  <2>2. Place(i) \in Nat \ {0}
    BY <2>1, PowerDef DEF Place, g
  <2>3. Power[g * i + g] = Power[g * i] * Power[g]
    BY <1>2, <2>1, PowerSum
  <2> QED BY <1>2, <2>1, <2>2, <2>3 DEF Place, g
<1> QED BY <1>3, <1>4

LEMMA NumberWritten ==
  ASSUME NEW w \in Nat, NEW num \in Nat
  PROVE  writeBE(w, num) \in Seq(ByteRange) /\ Len(writeBE(w, num)) = w
<1>1. ASSUME NEW i \in 1..w PROVE (num \div Place(w - i)) % (2 * Group) \in ByteRange
  <2> DEFINE p == Place(w - i)
             q == num \div p
             b == 2 * Group
  <2>1. p \in Nat \ {0}
    <3>1. w - i \in Nat
      OBVIOUS
    <3> QED BY <3>1, PlaceFacts
  <2>2. b \in Nat \ {0} /\ ByteRange = 0..(b - 1)
    BY Sizes DEF ByteRange
  <2> HIDE DEF p, b
  <2>3. q \in Nat
    BY <2>1
  <2> HIDE DEF q
  <2>4. q % b \in 0..(b - 1)
    BY <2>2, <2>3
  <2> QED BY <2>2, <2>4 DEF p, q, b
<1> QED BY <1>1 DEF writeBE

\* Values of parts have a length.
LEMMA LengthsOfValues ==
  ASSUME TypesAssumption, ValuesAssumption, NEW T \in Types, NEW v \in ValuesOf(T), isMadeOfParts(T)
  PROVE  Len(v) \in Nat
<1>1. \A u \in Unsigned : u \in Nat
  BY Sizes DEF Unsigned
<1>2. T.k = "tuple" => T.ts \in Seq(Types) /\ Len(v) = Len(T.ts)
  BY DEF TypesAssumption, ValuesAssumption
<1>3. T.k = "container" => Len(v) \in Nat
  BY <1>1 DEF ValuesAssumption
<1>4. T.k = "array" => Len(v) \in Nat
  BY <1>1 DEF ValuesAssumption, TypesAssumption
<1>5. T.k = "optional" => Len(v) \in {0, 1}
  BY DEF ValuesAssumption
<1> QED BY <1>2, <1>3, <1>4, <1>5 DEF isMadeOfParts

\* One type, if the values of its parts are written so.
LEMMA TypeWritten ==
  ASSUME TypesAssumption, ValuesAssumption, NEW T \in Types, NEW v \in ValuesOf(T), NEW parts,
         isMadeOfParts(T) => Len(parts) = Len(v) /\ DOMAIN parts = 1..Len(v),
         isMadeOfParts(T) => \A i \in 1..Len(v) : IsWritten(parts[i])
  PROVE  IsWritten([size |-> getSize(T, v, parts), bytes |-> writeToBuf(T, v, parts)])
<1> DEFINE s == [i \in DOMAIN parts |-> parts[i].bytes]
           z == [i \in DOMAIN parts |-> parts[i].size]
           size == getSize(T, v, parts)
           bytes == writeToBuf(T, v, parts)
           joined == Joined(s)
           total == Total(z)
<1>1. T.k \in {"num", "bool", "uvar", "ivar", "tuple", "container", "array", "optional"}
  BY DEF TypesAssumption, isMadeOfParts
<1>2. Group \in Nat /\ Group >= 2 /\ ByteRange = 0..(2 * Group - 1) /\ \A u \in Unsigned : u \in Nat
  BY Sizes DEF ByteRange, Unsigned
<1>3. isMadeOfParts(T) => Len(v) \in Nat
  BY LengthsOfValues
<1>4. isMadeOfParts(T) => joined \in Seq(ByteRange) /\ total \in Nat /\ Len(joined) <= total
  <2> SUFFICES ASSUME isMadeOfParts(T)
               PROVE  joined \in Seq(ByteRange) /\ total \in Nat /\ Len(joined) <= total
    OBVIOUS
  <2> DEFINE n == Len(v)
  <2>1. n \in Nat /\ DOMAIN parts = 1..n
    BY <1>3
  <2>2. \A i \in 1..n : parts[i].bytes \in Seq(ByteRange) /\ parts[i].size \in Nat
                        /\ Len(parts[i].bytes) <= parts[i].size
    BY DEF IsWritten
  <2> HIDE DEF n
  <2>3. Len(s) = n /\ Len(z) = n
    BY <2>1
  <2>4. \A i \in 1..n : s[i] = parts[i].bytes /\ z[i] = parts[i].size
    BY <2>1
  <2> HIDE DEF s, z
  <2> QED BY <2>1, <2>2, <2>3, <2>4, JoinedSize
<1>5. T.k = "num" => size = T.w /\ bytes = writeBE(T.w, v) /\ T.w \in Nat /\ v \in Nat
  <2> SUFFICES ASSUME T.k = "num"
               PROVE  size = T.w /\ bytes = writeBE(T.w, v) /\ T.w \in Nat /\ v \in Nat
    OBVIOUS
  <2>1. T.w \in Nat /\ v \in 0..(Place(T.w) - 1)
    BY DEF TypesAssumption, ValuesAssumption
  <2>2. size = T.w
    BY DEF getSize, isArithmetic, sizeOf
  <2>3. bytes = writeBE(T.w, v)
    BY DEF writeToBuf
  <2>4. Place(T.w) \in Nat
    BY <2>1, PlaceFacts
  <2> QED BY <2>1, <2>2, <2>3, <2>4
<1>6. T.k = "bool" => size = 1 /\ bytes = <<IF v THEN 1 ELSE 0>>
  <2> SUFFICES ASSUME T.k = "bool" PROVE size = 1 /\ bytes = <<IF v THEN 1 ELSE 0>>
    OBVIOUS
  <2>1. size = 1
    BY DEF getSize, isArithmetic, sizeOf
  <2> QED BY <2>1 DEF writeToBuf
<1>7. T.k = "uvar" => size = unsignedVarintSize[v] /\ bytes = encodeUnsignedVarint[v] /\ v \in Unsigned
  BY DEF getSize, writeToBuf, isArithmetic, ValuesAssumption
<1>8. T.k = "ivar" => size = unsignedVarintSize[ToUnsigned(v)]
                      /\ bytes = encodeUnsignedVarint[ToUnsigned(v)] /\ v \in Signed
  BY DEF getSize, writeToBuf, isArithmetic, signedVarintSize, encodeSignedVarint, ValuesAssumption
<1>9. T.k = "tuple" => size = total /\ bytes = joined
  BY DEF getSize, writeToBuf, isArithmetic
<1>10. T.k = "array" => size = unsignedVarintSize[Len(v)] + total /\ bytes = joined /\ Len(v) \in Unsigned
  BY DEF getSize, writeToBuf, isArithmetic, ValuesAssumption, TypesAssumption
<1>11. T.k = "container" => size = unsignedVarintSize[Len(v)] + total
                            /\ bytes = encodeUnsignedVarint[Len(v)] \o joined /\ Len(v) \in Unsigned
  BY DEF getSize, writeToBuf, isArithmetic, ValuesAssumption
<1>12. T.k = "optional" => size = 1 + total /\ bytes = <<Len(v)>> \o joined /\ Len(v) \in {0, 1}
  BY DEF getSize, writeToBuf, isArithmetic, ValuesAssumption
<1> HIDE DEF size, bytes, joined, total, s, z
<1> SUFFICES bytes \in Seq(ByteRange) /\ size \in Nat /\ Len(bytes) <= size
  <2> DEFINE r == [size |-> size, bytes |-> bytes]
  <2>1. r.size = size /\ r.bytes = bytes
    OBVIOUS
  <2> HIDE DEF r
  <2> SUFFICES IsWritten(r)
    BY DEF r, size, bytes
  <2> QED BY <2>1 DEF IsWritten
<1>13. \A u \in Unsigned : /\ encodeUnsignedVarint[u] \in Seq(ByteRange)
                           /\ unsignedVarintSize[u] = Len(encodeUnsignedVarint[u])
  BY Encodes, SizeIsLength
<1>14. CASE T.k = "num"
  BY <1>5, <1>14, NumberWritten
<1>15. CASE T.k = "bool"
  <2>1. 0 \in ByteRange /\ 1 \in ByteRange
    BY <1>2
  <2>2. \A b \in ByteRange : <<b>> \in Seq(ByteRange) /\ Len(<<b>>) = 1
    OBVIOUS
  <2>3. (IF v THEN 1 ELSE 0) \in ByteRange
    BY <2>1
  <2> QED BY <1>6, <1>15, <2>2, <2>3
<1>16. CASE T.k \in {"uvar", "ivar"}
  <2>1. PICK u \in Unsigned : size = unsignedVarintSize[u] /\ bytes = encodeUnsignedVarint[u]
    BY <1>7, <1>8, <1>16, SignsReturn
  <2> QED BY <1>13, <2>1
<1>17. CASE T.k = "tuple"
  BY <1>4, <1>9, <1>17 DEF isMadeOfParts
<1>18. CASE T.k \in {"container", "array"}
  <2> DEFINE e == encodeUnsignedVarint[Len(v)]
             m == unsignedVarintSize[Len(v)]
  <2>1. e \in Seq(ByteRange) /\ m = Len(e) /\ m \in Nat
    BY <1>10, <1>11, <1>13, <1>18
  <2>2. joined \in Seq(ByteRange) /\ total \in Nat /\ Len(joined) <= total
    BY <1>4, <1>18 DEF isMadeOfParts
  <2>3. size = m + total /\ (bytes = joined \/ bytes = e \o joined)
    BY <1>10, <1>11, <1>18
  <2> HIDE DEF e, m
  <2>4. e \o joined \in Seq(ByteRange) /\ Len(e \o joined) = Len(e) + Len(joined)
    BY <2>1, <2>2
  <2> DEFINE j == Len(joined)
             l == Len(bytes)
  <2>5. bytes \in Seq(ByteRange)
    BY <2>2, <2>3, <2>4
  <2>6. (l = j \/ l = m + j) /\ j \in Nat /\ j <= total
    BY <2>1, <2>2, <2>3, <2>4
  <2> HIDE DEF j, l
  <2>7. size \in Nat /\ l <= size
    BY <2>1, <2>2, <2>3, <2>6
  <2> QED BY <2>5, <2>7 DEF l
<1>19. CASE T.k = "optional"
  <2>1. joined \in Seq(ByteRange) /\ total \in Nat /\ Len(joined) <= total
    BY <1>4, <1>19 DEF isMadeOfParts
  <2> DEFINE l == Len(v)
  <2>2. l \in ByteRange
    <3>1. l = 0 \/ l = 1
      BY <1>12, <1>19
    <3> HIDE DEF l
    <3> QED BY <1>2, <3>1
  <2>3. size = 1 + total /\ bytes = <<l>> \o joined
    BY <1>12, <1>19
  <2> HIDE DEF l
  <2>4. <<l>> \in Seq(ByteRange) /\ Len(<<l>>) = 1
    BY <2>2
  <2>5. <<l>> \o joined \in Seq(ByteRange) /\ Len(<<l>> \o joined) = 1 + Len(joined)
    BY <2>1, <2>4
  <2> QED BY <2>1, <2>3, <2>5
<1> QED BY <1>1, <1>14, <1>15, <1>16, <1>17, <1>18, <1>19

\* All values, by how deep they are nested.
LEMMA AllWritten ==
  ASSUME TypesAssumption, ValuesAssumption
  PROVE  \A T \in Types : \A v \in ValuesOf(T) : IsWritten(Writers[T][v])
<1> DEFINE W == Writers
           n == MaxNesting + 1
           S == {i \in 0..n : \A T \in Types : Nesting(T) < i =>
                                \A v \in ValuesOf(T) : IsWritten(W[T][v])}
<1>1. n \in Nat /\ \A T \in Types : Nesting(T) \in Nat /\ Nesting(T) < n
  BY DEF TypesAssumption
<1>2. 0 \in S
  BY <1>1
<1>3. ASSUME NEW i \in 1..n, i - 1 \in S PROVE i \in S
  <2> SUFFICES ASSUME NEW T \in Types, Nesting(T) < i, NEW v \in ValuesOf(T)
               PROVE  IsWritten(W[T][v])
    BY <1>1
  <2> DEFINE parts == OfParts(W, T, v)
  <2>1. isMadeOfParts(T) => parts = [k \in 1..Len(v) |-> W[PartOf(T, k)][v[k]]]
    BY DEF OfParts
  <2>2. isMadeOfParts(T) => DOMAIN parts = 1..Len(v) /\ (Len(v) \in Nat => Len(parts) = Len(v))
    BY <2>1
  <2>3. isMadeOfParts(T) => Len(v) \in Nat
    BY LengthsOfValues
  <2>4. isMadeOfParts(T) => \A k \in 1..Len(v) : IsWritten(parts[k])
    <3> SUFFICES ASSUME isMadeOfParts(T), NEW k \in 1..Len(v) PROVE IsWritten(parts[k])
      OBVIOUS
    <3>1. PartOf(T, k) \in Types /\ v[k] \in ValuesOf(PartOf(T, k)) /\ Nesting(PartOf(T, k)) < Nesting(T)
      BY PartTypes
    <3>2. Nesting(PartOf(T, k)) < i - 1
      BY <1>1, <3>1
    <3>3. parts[k] = W[PartOf(T, k)][v[k]]
      BY <2>1
    <3> HIDE DEF parts, W
    <3> QED BY <1>3, <3>1, <3>2, <3>3
  <2>5. W[T][v] = [size |-> getSize(T, v, parts), bytes |-> writeToBuf(T, v, parts)]
    BY WritersWrite
  <2> HIDE DEF parts, W
  <2> QED BY <2>2, <2>3, <2>4, <2>5, TypeWritten
<1> HIDE DEF S
<1>4. n \in S
  <2>1. \A i \in 1..n : i - 1 \in S => i \in S
    BY <1>3
  <2>2. \A i \in 0..n : i \in S
    BY <1>1, <1>2, <2>1, Induction, Zenon
  <2> QED BY <1>1, <2>2
<1> QED BY <1>1, <1>4 DEF S

-----------------------------------------------------------------------------
(* What is counted and not written *)

\* A value takes all bytes of its size just if no array is in it.
IsExact(r, hasArray) == Len(r.bytes) = r.size <=> ~hasArray

LEMMA EncodedNotEmpty == \A u \in Unsigned : encodeUnsignedVarint[u] # <<>>
<1> SUFFICES ASSUME NEW u \in Unsigned PROVE encodeUnsignedVarint[u] # <<>>
  OBVIOUS
<1>1. Group \in Nat /\ Group >= 2 /\ u \in Nat
  BY Sizes DEF Unsigned
<1>2. u \div Group \in Unsigned
  <2>1. u \div Group \in Nat /\ u \div Group <= u
    BY <1>1
  <2>2. Word \in Nat
    BY Sizes
  <2> QED BY <2>1, <2>2 DEF Unsigned
<1> DEFINE x == encodeUnsignedVarint[u \div Group]
           b == Group + (u % Group)
<1>3. x \in Seq(ByteRange)
  BY <1>2, Encodes
<1>4. b \in ByteRange
  <2>1. u % Group \in 0..(Group - 1)
    BY <1>1
  <2> QED BY <1>1, <2>1 DEF ByteRange
<1>5. encodeUnsignedVarint[u] = IF u < Group THEN <<u>> ELSE <<b>> \o x
  BY Encodes
<1> HIDE DEF x, b
<1>6. <<b>> \in Seq(ByteRange) /\ Len(<<b>>) = 1
  BY <1>4
<1>7. Len(<<b>> \o x) = 1 + Len(x) /\ Len(x) \in Nat
  BY <1>3, <1>6
<1>8. <<b>> \o x # <<>>
  BY <1>7
<1> QED BY <1>5, <1>8

LEMMA TypeExact ==
  ASSUME TypesAssumption, ValuesAssumption, NEW T \in Types, NEW v \in ValuesOf(T), NEW parts,
         NEW held, isMadeOfParts(T) => Len(parts) = Len(v) /\ DOMAIN parts = 1..Len(v),
         isMadeOfParts(T) => \A i \in 1..Len(v) : IsWritten(parts[i]) /\ IsExact(parts[i], held[i]),
         DOMAIN held = IF isMadeOfParts(T) THEN 1..Len(v) ELSE {}
  PROVE  Len(writeToBuf(T, v, parts)) = getSize(T, v, parts)
         <=> ~(T.k = "array" \/ \E i \in DOMAIN held : held[i])
<1> DEFINE s == [i \in DOMAIN parts |-> parts[i].bytes]
           z == [i \in DOMAIN parts |-> parts[i].size]
           size == getSize(T, v, parts)
           bytes == writeToBuf(T, v, parts)
           joined == Joined(s)
           total == Total(z)
           hasArray == \E i \in DOMAIN held : held[i]
<1>1. T.k \in {"num", "bool", "uvar", "ivar", "tuple", "container", "array", "optional"}
  BY DEF TypesAssumption, isMadeOfParts
<1>2. isMadeOfParts(T) => Len(v) \in Nat
  BY LengthsOfValues
<1>3. isMadeOfParts(T) => /\ joined \in Seq(ByteRange) /\ total \in Nat /\ Len(joined) <= total
                          /\ Len(joined) = total <=> ~hasArray
  <2> SUFFICES ASSUME isMadeOfParts(T)
               PROVE  /\ joined \in Seq(ByteRange) /\ total \in Nat /\ Len(joined) <= total
                      /\ Len(joined) = total <=> ~hasArray
    OBVIOUS
  <2> DEFINE n == Len(v)
  <2>1. n \in Nat /\ DOMAIN parts = 1..n /\ DOMAIN held = 1..n
    BY <1>2
  <2>2. \A i \in 1..n : parts[i].bytes \in Seq(ByteRange) /\ parts[i].size \in Nat
                        /\ Len(parts[i].bytes) <= parts[i].size
    BY DEF IsWritten
  <2>3. \A i \in 1..n : Len(parts[i].bytes) = parts[i].size <=> ~held[i]
    BY DEF IsExact
  <2> HIDE DEF n
  <2>4. Len(s) = n /\ Len(z) = n
    BY <2>1
  <2>5. \A i \in 1..n : s[i] = parts[i].bytes /\ z[i] = parts[i].size
    BY <2>1
  <2> HIDE DEF s, z
  <2>6. \A i \in 1..n : s[i] \in Seq(ByteRange) /\ z[i] \in Nat /\ Len(s[i]) <= z[i]
    BY <2>2, <2>5
  <2>7. joined \in Seq(ByteRange) /\ total \in Nat /\ Len(joined) <= total
    BY <2>1, <2>4, <2>6, JoinedSize
  <2>8. Len(joined) = total <=> AllOfSize(s, z, n)
    BY <2>1, <2>4, <2>6, JoinedExact
  <2>9. AllOfSize(s, z, n) <=> ~hasArray
    BY <2>1, <2>3, <2>5 DEF AllOfSize
  <2> HIDE DEF joined, total, hasArray
  <2> QED BY <2>7, <2>8, <2>9
<1>4. \A u \in Unsigned : /\ encodeUnsignedVarint[u] \in Seq(ByteRange)
                          /\ unsignedVarintSize[u] = Len(encodeUnsignedVarint[u])
                          /\ encodeUnsignedVarint[u] # <<>>
  BY Encodes, SizeIsLength, EncodedNotEmpty
<1>5. CASE ~isMadeOfParts(T)
  <2>1. ~hasArray /\ T.k # "array"
    BY <1>5 DEF isMadeOfParts
  <2>2. Len(bytes) = size
    <3>1. CASE T.k = "num"
      <4>1. size = T.w /\ bytes = writeBE(T.w, v) /\ T.w \in Nat /\ v \in 0..(Place(T.w) - 1)
        <5>1. T.w \in Nat /\ v \in 0..(Place(T.w) - 1)
          BY <3>1 DEF TypesAssumption, ValuesAssumption
        <5>2. size = T.w
          BY <3>1 DEF getSize, isArithmetic, sizeOf
        <5>3. bytes = writeBE(T.w, v)
          BY <3>1 DEF writeToBuf
        <5> QED BY <5>1, <5>2, <5>3
      <4>2. Place(T.w) \in Nat
        BY <4>1, PlaceFacts
      <4>3. v \in Nat
        BY <4>1, <4>2
      <4> QED BY <4>1, <4>3, NumberWritten
    <3>2. CASE T.k = "bool"
      <4>1. size = 1
        BY <3>2 DEF getSize, isArithmetic, sizeOf
      <4>2. bytes = <<IF v THEN 1 ELSE 0>>
        BY <3>2 DEF writeToBuf
      <4> QED BY <4>1, <4>2
    <3>3. CASE T.k = "uvar"
      <4>1. size = unsignedVarintSize[v] /\ bytes = encodeUnsignedVarint[v] /\ v \in Unsigned
        BY <3>3 DEF getSize, writeToBuf, isArithmetic, ValuesAssumption
      <4> QED BY <1>4, <4>1
    <3>4. CASE T.k = "ivar"
      <4>1. size = unsignedVarintSize[ToUnsigned(v)] /\ bytes = encodeUnsignedVarint[ToUnsigned(v)]
            /\ v \in Signed
        BY <3>4 DEF getSize, writeToBuf, isArithmetic, signedVarintSize, encodeSignedVarint, ValuesAssumption
      <4> QED BY <1>4, <4>1, SignsReturn
    <3> QED BY <1>1, <1>5, <3>1, <3>2, <3>3, <3>4 DEF isMadeOfParts
  <2> QED BY <2>1, <2>2
<1>6. CASE T.k = "tuple"
  <2>1. size = total /\ bytes = joined
    BY <1>6 DEF getSize, writeToBuf, isArithmetic
  <2> HIDE DEF joined, total, hasArray, size, bytes
  <2>2. isMadeOfParts(T)
    BY <1>6 DEF isMadeOfParts
  <2>3. Len(bytes) = size <=> ~hasArray
    BY <1>3, <2>1, <2>2
  <2> QED BY <1>6, <2>3 DEF size, bytes, hasArray
<1>7. CASE T.k \in {"container", "array"}
  <2> DEFINE e == encodeUnsignedVarint[Len(v)]
             m == unsignedVarintSize[Len(v)]
             j == Len(joined)
  <2>1. Len(v) \in Unsigned
    BY <1>7 DEF ValuesAssumption, TypesAssumption
  <2>2. e \in Seq(ByteRange) /\ m = Len(e) /\ e # <<>>
    BY <1>4, <2>1
  <2>3. isMadeOfParts(T)
    BY <1>7 DEF isMadeOfParts
  <2>4. size = m + total
    BY <1>7 DEF getSize, isArithmetic
  <2>5. T.k = "container" => bytes = e \o joined
    BY DEF writeToBuf
  <2>6. T.k = "array" => bytes = joined
    BY DEF writeToBuf
  <2> HIDE DEF size, bytes, joined, total, hasArray, e, m
  <2>7. joined \in Seq(ByteRange) /\ j \in Nat /\ total \in Nat /\ j <= total /\ (j = total <=> ~hasArray)
    BY <1>3, <2>3
  <2>8. m \in Nat /\ m # 0 /\ Len(e \o joined) = m + j
    BY <2>2, <2>7
  <2> HIDE DEF j
  <2>9. CASE T.k = "container"
    <3>1. Len(bytes) = m + j
      BY <2>5, <2>8, <2>9
    <3>2. Len(bytes) = size <=> ~hasArray
      BY <2>4, <2>7, <2>8, <3>1
    <3> QED BY <2>9, <3>2 DEF size, bytes, hasArray
  <2>10. CASE T.k = "array"
    <3>1. Len(bytes) = j
      BY <2>6, <2>10 DEF j
    <3>2. Len(bytes) # size
      BY <2>4, <2>7, <2>8, <3>1
    <3> QED BY <2>10, <3>2 DEF size, bytes, hasArray
  <2> QED BY <1>7, <2>9, <2>10
<1>8. CASE T.k = "optional"
  <2> DEFINE j == Len(joined)
  <2>1. size = 1 + total
    BY <1>8 DEF getSize, isArithmetic
  <2>2. bytes = <<Len(v)>> \o joined
    BY <1>8 DEF writeToBuf
  <2>3. isMadeOfParts(T)
    BY <1>8 DEF isMadeOfParts
  <2>4. Len(v) \in Nat
    BY <1>2, <2>3
  <2>5. joined \in Seq(ByteRange) /\ j \in Nat /\ total \in Nat /\ j <= total /\ (j = total <=> ~hasArray)
    BY <1>3, <2>3
  <2>6. Len(v) \in ByteRange
    <3>1. Len(v) = 0 \/ Len(v) = 1
      BY <1>8 DEF ValuesAssumption
    <3>2. 0 \in ByteRange /\ 1 \in ByteRange
      BY Sizes DEF ByteRange
    <3> QED BY <3>1, <3>2
  <2> DEFINE c == <<Len(v)>>
  <2>7. c \in Seq(ByteRange) /\ Len(c) = 1
    BY <2>6
  <2> HIDE DEF size, bytes, joined, total, hasArray, c
  <2>8. Len(c \o joined) = 1 + j
    <3>1. joined \in Seq(ByteRange)
      BY <2>5
    <3>2. Len(c \o joined) = Len(c) + Len(joined)
      BY <2>7, <3>1, OneBehind
    <3> QED BY <2>7, <3>2
  <2> HIDE DEF j
  <2>9. Len(bytes) = size <=> ~hasArray
    BY <2>1, <2>2, <2>5, <2>8 DEF c
  <2> QED BY <1>8, <2>9 DEF size, bytes, hasArray
<1> QED BY <1>1, <1>5, <1>6, <1>7, <1>8 DEF isMadeOfParts

\* All values, by how deep they are nested.
LEMMA AllExact ==
  ASSUME TypesAssumption, ValuesAssumption
  PROVE  \A T \in Types : \A v \in ValuesOf(T) : IsExact(Writers[T][v], HoldsArray[T][v])
<1> DEFINE W == Writers
           A == HoldsArray
           n == MaxNesting + 1
           S == {i \in 0..n : \A T \in Types : Nesting(T) < i =>
                                \A v \in ValuesOf(T) : IsExact(W[T][v], A[T][v])}
<1>1. n \in Nat /\ \A T \in Types : Nesting(T) \in Nat /\ Nesting(T) < n
  BY DEF TypesAssumption
<1>2. 0 \in S
  BY <1>1
<1>3. ASSUME NEW i \in 1..n, i - 1 \in S PROVE i \in S
  <2> SUFFICES ASSUME NEW T \in Types, Nesting(T) < i, NEW v \in ValuesOf(T)
               PROVE  IsExact(W[T][v], A[T][v])
    BY <1>1
  <2> DEFINE parts == OfParts(W, T, v)
             held == OfParts(A, T, v)
             x == getSize(T, v, parts)
             y == writeToBuf(T, v, parts)
             r == W[T][v]
  <2>1. isMadeOfParts(T) => /\ parts = [k \in 1..Len(v) |-> W[PartOf(T, k)][v[k]]]
                            /\ held = [k \in 1..Len(v) |-> A[PartOf(T, k)][v[k]]]
    BY DEF OfParts
  <2>2. ~isMadeOfParts(T) => held = <<>>
    BY DEF OfParts
  <2>3. isMadeOfParts(T) => Len(v) \in Nat
    BY LengthsOfValues
  <2>4. isMadeOfParts(T) => DOMAIN parts = 1..Len(v) /\ Len(parts) = Len(v)
    BY <2>1, <2>3
  <2>5. DOMAIN held = IF isMadeOfParts(T) THEN 1..Len(v) ELSE {}
    <3>1. DOMAIN <<>> = {}
      OBVIOUS
    <3>2. isMadeOfParts(T) => DOMAIN held = 1..Len(v)
      BY <2>1
    <3>3. ~isMadeOfParts(T) => DOMAIN held = {}
      BY <2>2, <3>1
    <3> HIDE DEF held
    <3> QED BY <3>2, <3>3
  <2>6. isMadeOfParts(T) => \A k \in 1..Len(v) : IsWritten(parts[k]) /\ IsExact(parts[k], held[k])
    <3> SUFFICES ASSUME isMadeOfParts(T), NEW k \in 1..Len(v)
                 PROVE  IsWritten(parts[k]) /\ IsExact(parts[k], held[k])
      OBVIOUS
    <3>1. PartOf(T, k) \in Types /\ v[k] \in ValuesOf(PartOf(T, k)) /\ Nesting(PartOf(T, k)) < Nesting(T)
      BY PartTypes
    <3>2. Nesting(PartOf(T, k)) < i - 1
      BY <1>1, <3>1
    <3>3. parts[k] = W[PartOf(T, k)][v[k]] /\ held[k] = A[PartOf(T, k)][v[k]]
      BY <2>1
    <3>4. IsWritten(W[PartOf(T, k)][v[k]])
      BY <3>1, AllWritten
    <3> HIDE DEF parts, held, W, A
    <3> QED BY <1>3, <3>1, <3>2, <3>3, <3>4
  <2>7. r = [size |-> x, bytes |-> y]
    BY WritersWrite
  <2>8. A[T][v] = (T.k = "array" \/ \E k \in DOMAIN held : held[k])
    BY ArraysHeld
  <2> HIDE DEF parts, held, W, A
  <2>9. Len(y) = x <=> ~(T.k = "array" \/ \E k \in DOMAIN held : held[k])
    BY <2>4, <2>5, <2>6, TypeExact
  <2> HIDE DEF x, y, r
  <2>10. r.size = x /\ r.bytes = y
    BY <2>7
  <2>11. IsExact(r, A[T][v])
    BY <2>8, <2>9, <2>10 DEF IsExact
  <2> QED BY <2>11 DEF r
<1> HIDE DEF S
<1>4. n \in S
  <2>1. \A i \in 1..n : i - 1 \in S => i \in S
    BY <1>3
  <2>2. \A i \in 0..n : i \in S
    BY <1>1, <1>2, <2>1, Induction, Zenon
  <2> QED BY <1>1, <2>2
<1> QED BY <1>1, <1>4 DEF S

-----------------------------------------------------------------------------
(* The order of bytes *)

LEMMA OneQuotient ==
  ASSUME NEW c \in Nat \ {0}, NEW q \in Nat, NEW r \in 0..(c - 1), NEW a \in Nat, a = c * q + r
  PROVE  a \div c = q
<1> DEFINE p == a \div c
           m == a % c
<1>1. p \in Nat /\ m \in 0..(c - 1) /\ a = c * p + m
  OBVIOUS
<1> HIDE DEF p, m
<1>2. CASE p < q
  <2>1. PICK d \in Nat \ {0} : q = p + d
    <3>1. q - p \in Nat \ {0} /\ q = p + (q - p)
      BY <1>1, <1>2
    <3> QED BY <3>1
  <2>2. c * q = c * p + c * d /\ c * d >= c
    BY <1>1, <2>1
  <2>3. m = c * d + r
    <3> DEFINE x == c * p
               y == c * d
               z == c * q
    <3>1. x \in Int /\ y \in Int /\ z \in Int
      BY <1>1, <2>1
    <3>2. z = x + y /\ a = x + m /\ a = z + r
      BY <1>1, <2>2
    <3> HIDE DEF x, y, z
    <3>3. m = y + r
      BY <1>1, <3>1, <3>2
    <3> QED BY <3>3 DEF y
  <2> DEFINE y == c * d
  <2>4. y \in Int /\ y >= c /\ m = y + r
    BY <2>1, <2>2, <2>3
  <2> HIDE DEF y
  <2> QED BY <1>1, <2>4
<1>3. CASE q < p
  <2>1. PICK d \in Nat \ {0} : p = q + d
    <3>1. p - q \in Nat \ {0} /\ p = q + (p - q)
      BY <1>1, <1>3
    <3> QED BY <3>1
  <2>2. c * p = c * q + c * d /\ c * d >= c
    BY <1>1, <2>1
  <2>3. r = c * d + m
    <3> DEFINE x == c * p
               y == c * d
               z == c * q
    <3>1. x \in Int /\ y \in Int /\ z \in Int
      BY <1>1, <2>1
    <3>2. x = z + y /\ a = x + m /\ a = z + r
      BY <1>1, <2>2
    <3> HIDE DEF x, y, z
    <3>3. r = y + m
      BY <1>1, <3>1, <3>2
    <3> QED BY <3>3 DEF y
  <2> DEFINE y == c * d
  <2>4. y \in Int /\ y >= c /\ r = y + m
    BY <2>1, <2>2, <2>3
  <2> HIDE DEF y
  <2> QED BY <1>1, <2>4
<1>4. p = q
  BY <1>1, <1>2, <1>3
<1> QED BY <1>4 DEF p

\* What the bytes above a place count, and the byte at the place.
LEMMA NextByte ==
  ASSUME NEW a \in Nat, NEW p \in Nat \ {0}, NEW b \in Nat \ {0}
  PROVE  /\ (a \div (p * b)) * (p * b) + ((a \div p) % b) * p = (a \div p) * p
         /\ a \div (p * b) \in Nat /\ a \div p \in Nat
<1> DEFINE q == a \div p
           r == a % p
           t == q \div b
           u == q % b
           c == p * b
<1>1. q \in Nat /\ r \in 0..(p - 1) /\ a = p * q + r
  OBVIOUS
<1> HIDE DEF q, r
<1>2. t \in Nat /\ u \in 0..(b - 1) /\ q = b * t + u
  BY <1>1
<1> HIDE DEF t, u
<1>3. c \in Nat \ {0}
  <2>1. p * b \in Nat /\ p * b # 0
    OBVIOUS
  <2> QED BY <2>1
<1>4. p * q = c * t + p * u
  BY <1>2
<1> DEFINE s == p * u + r
<1>5. s \in 0..(c - 1)
  <2>1. p * u <= p * (b - 1)
    <3>1. PICK d \in Nat : b - 1 = u + d
      <4>1. (b - 1) - u \in Nat /\ b - 1 = u + ((b - 1) - u)
        BY <1>2
      <4> QED BY <4>1
    <3>2. p * (u + d) = p * u + p * d /\ p * d \in Nat /\ p * u \in Nat
      BY <1>2, <3>1
    <3> QED BY <3>1, <3>2
  <2>2. p * (b - 1) = c - p
    OBVIOUS
  <2> DEFINE x == p * u
  <2>3. x \in Nat /\ x <= c - p
    BY <1>2, <2>1, <2>2
  <2> HIDE DEF x, c
  <2>4. x + r \in 0..(c - 1)
    BY <1>1, <1>3, <2>3
  <2> QED BY <2>4 DEF x
<1>6. a = c * t + s
  <2> DEFINE x == p * q
             y == c * t
             z == p * u
  <2>1. x \in Int /\ y \in Int /\ z \in Int
    BY <1>1, <1>2, <1>3
  <2>2. x = y + z /\ a = x + r
    BY <1>1, <1>4
  <2> HIDE DEF x, y, z
  <2>3. a = y + (z + r)
    BY <1>1, <2>1, <2>2
  <2> QED BY <2>3 DEF y, z
<1> HIDE DEF s, c
<1>7. a \div c = t
  BY <1>2, <1>3, <1>5, <1>6, OneQuotient
<1>8. t * c + u * p = q * p
  BY <1>1, <1>2, <1>3, <1>4
<1> QED BY <1>1, <1>2, <1>7, <1>8 DEF c, q, t, u

\* A number's bytes are its own wherever they stand.
LEMMA BytesReturn ==
  ASSUME NEW w \in Nat \ {0}, NEW num \in 0..(Place(w) - 1), NEW data, NEW at \in Nat,
         Holds(data, at, writeBE(w, num))
  PROVE  readBE(data, at, w) = num
<1> DEFINE b == 2 * Group
           Above(i) == num \div Place(w - i)
           s == [i \in 1..w |-> At(data, at + i - 1) * Place(w - i)]
<1>1. b \in Nat \ {0} /\ num \in Nat /\ Place(w) \in Nat
  <2>1. Place(w) \in Nat
    BY PlaceFacts
  <2> QED BY <2>1, Sizes
<1>2. \A i \in 1..w : /\ Place(w - i) \in Nat \ {0}
                      /\ Place(w - (i - 1)) = Place(w - i) * b
  <2>1. \A i \in 1..w : w - i \in Nat /\ (w - i) + 1 = w - (i - 1)
    OBVIOUS
  <2> QED BY <2>1, PlaceFacts
<1>3. \A i \in 1..w : s[i] = (Above(i) % b) * Place(w - i) /\ s[i] \in Nat
  <2> SUFFICES ASSUME NEW i \in 1..w
               PROVE  s[i] = (Above(i) % b) * Place(w - i) /\ s[i] \in Nat
    OBVIOUS
  <2>1. Len(writeBE(w, num)) = w /\ writeBE(w, num)[i] = Above(i) % b
    BY DEF writeBE
  <2>2. at + i - 1 \in DOMAIN data /\ data[at + i - 1] = Above(i) % b
    BY <2>1 DEF Holds
  <2>3. At(data, at + i - 1) = Above(i) % b
    BY <2>2 DEF At
  <2>4. s[i] = At(data, at + i - 1) * Place(w - i)
    OBVIOUS
  <2> DEFINE p == Place(w - i)
             q == num \div p
  <2>5. p \in Nat \ {0}
    BY <1>2
  <2> HIDE DEF p, b
  <2>6. q \in Nat
    BY <1>1, <2>5
  <2> HIDE DEF q
  <2> DEFINE m == q % b
  <2>7. m \in Nat
    BY <1>1, <2>6
  <2> HIDE DEF m
  <2>8. m * p \in Nat
    BY <2>5, <2>7
  <2>9. s[i] = m * p
    BY <2>3, <2>4 DEF m, p, q
  <2> QED BY <2>8, <2>9 DEF m, p, q
<1>4. Len(s) = w
  OBVIOUS
<1> HIDE DEF s
<1>5. PICK f : Sums(f, s, w) /\ Total(s) = f[w]
  BY <1>3, <1>4, TotalSums
<1> DEFINE T == {i \in 0..w : f[i] = Above(i) * Place(w - i)}
<1>6. 0 \in T
  <2>1. f[0] = 0
    BY <1>5 DEF Sums
  <2>2. Above(0) = 0
    <3> DEFINE p == Place(w)
    <3>1. w - 0 = w /\ p \in Nat \ {0} /\ num \in 0..(p - 1)
      BY PlaceFacts
    <3> HIDE DEF p
    <3>2. num \div p = 0
      BY <3>1
    <3> QED BY <3>1, <3>2 DEF p
  <2>3. Place(w - 0) \in Nat
    BY <1>1
  <2>4. Above(0) * Place(w - 0) = 0
    BY <2>2, <2>3
  <2> QED BY <2>1, <2>4
<1>7. ASSUME NEW i \in 1..w, i - 1 \in T PROVE i \in T
  <2> DEFINE p == Place(w - i)
             q == Place(w - (i - 1))
  <2>1. p \in Nat \ {0} /\ q = p * b
    BY <1>2
  <2>2. f[i] = f[i - 1] + s[i]
    <3>1. i \in 0..w /\ i # 0
      OBVIOUS
    <3> QED BY <1>5, <3>1 DEF Sums
  <2>3. f[i - 1] = (num \div q) * q
    BY <1>7
  <2>4. s[i] = ((num \div p) % b) * p
    BY <1>3
  <2> HIDE DEF p, q, b
  <2>5. f[i] = (num \div p) * p
    <3> DEFINE x == (num \div (p * b)) * (p * b)
               y == ((num \div p) % b) * p
               z == (num \div p) * p
    <3>1. x + y = z
      BY <1>1, <2>1, NextByte
    <3>2. f[i - 1] = x /\ s[i] = y
      BY <2>1, <2>3, <2>4
    <3> HIDE DEF x, y, z
    <3>3. f[i] = z
      BY <2>2, <3>1, <3>2
    <3> QED BY <3>3 DEF z
  <2>6. i \in 0..w
    OBVIOUS
  <2> QED BY <2>5, <2>6 DEF p
<1> HIDE DEF T
<1>8. w \in T
  <2>1. \A i \in 1..w : i - 1 \in T => i \in T
    BY <1>7
  <2>2. \A i \in 0..w : i \in T
    BY <1>6, <2>1, Induction, Zenon
  <2> QED BY <2>2
<1>9. f[w] = num
  <2>1. f[w] = Above(w) * Place(w - w)
    BY <1>8 DEF T
  <2>2. w - w = 0 /\ Place(0) = 1
    BY PlaceFacts
  <2>3. num \div 1 = num /\ num * 1 = num
    OBVIOUS
  <2> QED BY <2>1, <2>2, <2>3
<1> QED BY <1>5, <1>9 DEF readBE, s

\* A number that is read in the host's order is the number swapped.
LEMMA BytesSwap ==
  ASSUME NEW w \in Nat \ {0}, NEW num \in Nat, NEW data, NEW at \in Nat,
         Holds(data, at, writeBE(w, num))
  PROVE  readHost(data, at, w) = Swapped(w, num)
<1> DEFINE e == writeBE(w, num)
<1>1. Len(e) = w /\ DOMAIN e = 1..w
  BY DEF writeBE
<1>2. ASSUME NEW i \in 1..w PROVE At(data, at + i - 1) = At(e, 1 + i - 1)
  <2>1. at + i - 1 \in DOMAIN data /\ data[at + i - 1] = e[i]
    BY <1>1 DEF Holds
  <2>2. 1 + i - 1 = i
    OBVIOUS
  <2> HIDE DEF e
  <2> QED BY <1>1, <2>1, <2>2 DEF At
<1> HIDE DEF e
<1>3. [i \in 1..w |-> At(data, at + i - 1) * Place(i - 1)]
      = [i \in 1..w |-> At(e, 1 + i - 1) * Place(i - 1)]
  BY <1>2
<1> QED BY <1>3 DEF readHost, Swapped, e

-----------------------------------------------------------------------------
(* What is written is read *)

\* What has been read of bytes from at on, if x is expected of them.
Back(r, at, length, x) ==
  /\ r.ok \in BOOLEAN /\ r.ok = x.readable
  /\ r.ok => r.val = x.received /\ r.at = at + length

\* A reader that gives back what these bytes hold, wherever they stand.
ReadsAs(reader, data, bytes, x) ==
  \A at \in Nat \ {0}, remaining \in Nat :
    Holds(data, at, bytes) /\ Len(bytes) <= remaining =>
      Back(reader[at][remaining], at, Len(bytes), x)

\* Bytes stand where the parts of them stand.
LEMMA HoldsBegin ==
  ASSUME NEW x \in Seq(ByteRange), NEW z \in Seq(ByteRange), Begins(x, z),
         NEW data, NEW at \in Nat, Holds(data, at, z)
  PROVE  Holds(data, at, x)
<1> SUFFICES ASSUME NEW k \in 1..Len(x)
             PROVE  at + k - 1 \in DOMAIN data /\ data[at + k - 1] = x[k]
  BY DEF Holds
<1>1. Len(x) \in Nat /\ Len(z) \in Nat /\ Len(x) <= Len(z)
  BY DEF Begins
<1>2. k \in 1..Len(z)
  BY <1>1
<1>3. z[k] = x[k]
  BY DEF Begins
<1> QED BY <1>2, <1>3 DEF Holds

LEMMA HoldsRest ==
  ASSUME NEW x \in Seq(ByteRange), NEW y \in Seq(ByteRange), NEW z \in Seq(ByteRange),
         Continues(z, x, y), NEW data, NEW at \in Nat, Holds(data, at, z)
  PROVE  Holds(data, at + Len(x), y)
<1> DEFINE l == Len(x)
           m == Len(y)
<1>1. l \in Nat /\ m \in Nat /\ Len(z) = l + m
  BY DEF Continues
<1>2. \A k \in 1..m : z[l + k] = y[k]
  BY DEF Continues
<1> HIDE DEF l, m
<1>3. ASSUME NEW k \in 1..m
      PROVE  (at + l) + k - 1 \in DOMAIN data /\ data[(at + l) + k - 1] = y[k]
  <2>1. l + k \in 1..Len(z) /\ at + (l + k) - 1 = (at + l) + k - 1
    BY <1>1
  <2>2. at + (l + k) - 1 \in DOMAIN data /\ data[at + (l + k) - 1] = z[l + k]
    BY <2>1 DEF Holds
  <2> QED BY <1>2, <2>1, <2>2
<1>4. \A k \in 1..Len(y) : (at + Len(x)) + k - 1 \in DOMAIN data /\ data[(at + Len(x)) + k - 1] = y[k]
  BY <1>3 DEF l, m
<1> QED BY <1>4 DEF Holds

LEMMA HoldsBoth ==
  ASSUME NEW x \in Seq(ByteRange), NEW y \in Seq(ByteRange), NEW data, NEW at \in Nat,
         Holds(data, at, x \o y)
  PROVE  Holds(data, at, x) /\ Holds(data, at + Len(x), y)
<1> DEFINE z == x \o y
<1>1. z \in Seq(ByteRange) /\ Continues(z, x, y)
  BY DEF Continues
<1>2. Begins(x, z)
  BY DEF Begins
<1> HIDE DEF z
<1>3. Holds(data, at, z)
  BY DEF z
<1> QED BY <1>1, <1>2, <1>3, HoldsBegin, HoldsRest

LEMMA PartHolds ==
  ASSUME NEW n \in Nat, NEW s, NEW g, Joins(g, s, n), NEW i \in 1..n,
         NEW data, NEW start \in Nat, Holds(data, start, g[n])
  PROVE  Holds(data, start + Len(g[i - 1]), s[i])
<1>1. i \in 0..n /\ i - 1 \in 0..n /\ n \in 0..n
  OBVIOUS
<1>2. g[i] \in Seq(ByteRange) /\ g[i - 1] \in Seq(ByteRange) /\ g[n] \in Seq(ByteRange)
      /\ s[i] \in Seq(ByteRange)
  BY <1>1 DEF Joins
<1>3. Begins(g[i], g[n]) /\ Continues(g[i], g[i - 1], s[i])
  BY <1>1, JoinedParts
<1>4. Holds(data, start, g[i])
  BY <1>2, <1>3, HoldsBegin
<1> QED BY <1>2, <1>3, <1>4, HoldsRest

LEMMA AppendExtends ==
  ASSUME NEW i \in Nat \ {0}, NEW g
  PROVE  Append([k \in 1..(i - 1) |-> g[k]], g[i]) = [k \in 1..i |-> g[k]]
<1> DEFINE S == {g[k] : k \in 1..i}
           x == [k \in 1..(i - 1) |-> g[k]]
           z == Append(x, g[i])
<1>1. x \in Seq(S) /\ g[i] \in S /\ Len(x) = i - 1
  OBVIOUS
<1>2. \A k \in 1..(i - 1) : x[k] = g[k]
  OBVIOUS
<1> HIDE DEF S, x
<1>3. z \in Seq(S) /\ Len(z) = i /\ DOMAIN z = 1..i
  BY <1>1
<1>4. ASSUME NEW k \in 1..i PROVE z[k] = g[k]
  BY <1>1, <1>2
<1>5. z = [k \in 1..i |-> z[k]]
  <2> HIDE DEF z
  <2> QED BY <1>3
<1> HIDE DEF z
<1>6. z = [k \in 1..i |-> g[k]]
  BY <1>4, <1>5
<1> QED BY <1>6 DEF z, x

\* Values one after the other come back if each of them does.
LEMMA AllBack ==
  ASSUME NEW n \in Nat, NEW readers, Len(readers) = n, NEW s, Len(s) = n, NEW x, NEW data,
         \A i \in 1..n : s[i] \in Seq(ByteRange),
         \A i \in 1..n : x[i].readable \in BOOLEAN,
         \A i \in 1..n : ReadsAs(readers[i], data, s[i], x[i]),
         NEW start \in Nat \ {0}, NEW remaining \in Nat,
         Holds(data, start, Joined(s)), Len(Joined(s)) <= remaining
  PROVE  Back(ReadAll(readers, start, remaining), start, Len(Joined(s)),
              [readable |-> \A i \in 1..n : x[i].readable, received |-> [i \in 1..n |-> x[i].received]])
<1>1. PICK g : Joins(g, s, n) /\ Joined(s) = g[n]
  BY JoinedJoins
<1>2. /\ g[0] = <<>>
      /\ \A i \in 1..n : Continues(g[i], g[i - 1], s[i]) /\ Len(g[i]) = Len(g[i - 1]) + Len(s[i])
      /\ \A i \in 0..n : Begins(g[i], g[n])
  BY <1>1, JoinedParts
<1>3. \A i \in 0..n : g[i] \in Seq(ByteRange)
  BY <1>1 DEF Joins
<1> DEFINE f == CHOOSE h : ReadsOn(h, readers, n, start, remaining)
           received == [i \in 1..n |-> x[i].received]
<1>4. ReadAll(readers, start, remaining) = f[n]
  BY DEF ReadAll, ReadsOn
<1>5. ReadsOn(f, readers, n, start, remaining)
  BY ReadsOnExists
<1> HIDE DEF f
<1> DEFINE Good(i) ==
             /\ f[i].ok \in BOOLEAN
             /\ f[i].ok <=> \A k \in 1..i : x[k].readable
             /\ f[i].ok => /\ f[i].val = [k \in 1..i |-> x[k].received]
                           /\ f[i].at = start + Len(g[i])
           T == {i \in 0..n : Good(i)}
<1>6. 0 \in T
  <2>1. f[0] = [ok |-> TRUE, val |-> <<>>, at |-> start, last |-> 0]
    BY <1>5 DEF ReadsOn, Reads
  <2>2. f[0].ok = TRUE /\ f[0].val = <<>> /\ f[0].at = start
    BY <2>1
  <2>3. Len(g[0]) = 0
    BY <1>2
  <2>4. [k \in 1..0 |-> x[k].received] = <<>>
    OBVIOUS
  <2>5. f[0].ok \in BOOLEAN /\ (f[0].ok <=> \A k \in 1..0 : x[k].readable)
    <3>1. \A k \in 1..0 : x[k].readable
      <4>1. \A k \in 1..0 : FALSE
        OBVIOUS
      <4> QED BY <4>1
    <3>2. f[0].ok /\ f[0].ok \in BOOLEAN
      BY <2>2
    <3> QED BY <3>1, <3>2
  <2>6. f[0].at = start + Len(g[0])
    BY <2>2, <2>3
  <2>7. Good(0)
    BY <2>2, <2>4, <2>5, <2>6
  <2> HIDE DEF Good
  <2> QED BY <2>7
<1>7. ASSUME NEW i \in 1..n, i - 1 \in T PROVE i \in T
  <2> DEFINE c == f[i - 1]
             r == readers[i][c.at][remaining - (c.at - start)]
             v == Append(c.val, r.val)
             last == Larger(c.last, r.last)
             l == Len(g[i - 1])
             m == Len(s[i])
  <2>1. i \in 0..n /\ i - 1 \in 0..n /\ i # 0
    OBVIOUS
  <2>2. f[i] = IF ~c.ok THEN c
               ELSE IF r.ok THEN [ok |-> TRUE, val |-> v, at |-> r.at, last |-> last]
               ELSE [ok |-> FALSE, last |-> last]
    <3>1. f[i] = ReadNext(f[i - 1], readers[i], start, remaining)
      BY <1>5, <2>1 DEF ReadsOn
    <3> QED BY <3>1 DEF ReadNext, Reads, Throws
  <2>3. Good(i - 1)
    BY <1>7
  <2>4. l \in Nat /\ m \in Nat /\ Len(g[i]) = l + m /\ Len(g[i]) <= remaining
    <3>1. g[i] \in Seq(ByteRange) /\ g[i - 1] \in Seq(ByteRange) /\ g[n] \in Seq(ByteRange)
          /\ s[i] \in Seq(ByteRange)
      BY <1>3, <2>1
    <3>2. Len(g[i]) \in Nat /\ Len(g[n]) \in Nat /\ l \in Nat /\ m \in Nat
      BY <3>1
    <3>3. Len(g[i]) <= Len(g[n])
      BY <1>2, <2>1 DEF Begins
    <3>4. Len(g[n]) <= remaining
      BY <1>1
    <3>5. Len(g[i]) = l + m
      BY <1>2
    <3> HIDE DEF l, m
    <3> QED BY <3>2, <3>3, <3>4, <3>5
  <2>5. Holds(data, start + l, s[i])
    BY <1>1, PartHolds
  <2>6. c.ok => c.at = start + l
    BY <2>3
  <2>7. c.ok => Back(r, start + l, m, x[i])
    <3> SUFFICES ASSUME c.ok PROVE Back(r, start + l, m, x[i])
      OBVIOUS
    <3> DEFINE at == start + l
               left == remaining - (at - start)
    <3> HIDE DEF l, m, c
    <3>1. at \in Nat \ {0} /\ left \in Nat /\ m <= left
      BY <2>4
    <3>2. c.at = at
      BY <2>6
    <3> HIDE DEF at, left
    <3>3. ReadsAs(readers[i], data, s[i], x[i])
      OBVIOUS
    <3>4. Back(readers[i][at][left], at, m, x[i])
      BY <2>5, <3>1, <3>3 DEF ReadsAs, at, m
    <3> QED BY <3>2, <3>4 DEF at, left
  <2>8. (\A k \in 1..i : x[k].readable) <=> (\A k \in 1..(i - 1) : x[k].readable) /\ x[i].readable
    <3>1. \A k \in 1..i : k = i \/ k \in 1..(i - 1)
      OBVIOUS
    <3>2. i \in 1..i /\ \A k \in 1..(i - 1) : k \in 1..i
      OBVIOUS
    <3> QED BY <3>1, <3>2
  <2>9. CASE ~c.ok
    <3>1. f[i] = c
      BY <2>2, <2>9
    <3>2. ~f[i].ok /\ f[i].ok \in BOOLEAN
      BY <2>3, <2>9, <3>1
    <3>3. ~ \A k \in 1..i : x[k].readable
      BY <2>3, <2>8, <2>9
    <3> QED BY <2>1, <3>2, <3>3
  <2>10. CASE c.ok /\ ~r.ok
    <3>1. f[i] = [ok |-> FALSE, last |-> last]
      BY <2>2, <2>10
    <3>2. f[i].ok = FALSE
      BY <3>1
    <3>3. ~ \A k \in 1..i : x[k].readable
      BY <2>7, <2>8, <2>10 DEF Back
    <3> QED BY <2>1, <3>2, <3>3
  <2>11. CASE c.ok /\ r.ok
    <3>1. f[i] = [ok |-> TRUE, val |-> v, at |-> r.at, last |-> last]
      BY <2>2, <2>11
    <3>2. f[i].ok = TRUE /\ f[i].val = v /\ f[i].at = r.at
      <4> HIDE DEF v, last, r, c
      <4> QED BY <3>1
    <3>3. \A k \in 1..i : x[k].readable
      BY <2>3, <2>7, <2>8, <2>11 DEF Back
    <3>4. r.val = x[i].received /\ r.at = (start + l) + m
      BY <2>7, <2>11 DEF Back
    <3>5. f[i].at = start + Len(g[i])
      <4>1. (start + l) + m = start + (l + m)
        BY <2>4
      <4> QED BY <2>4, <3>2, <3>4, <4>1
    <3>6. v = [k \in 1..i |-> x[k].received]
      <4> DEFINE h == [k \in 1..n |-> x[k].received]
      <4>1. (\A k \in 1..(i - 1) : h[k] = x[k].received) /\ (\A k \in 1..i : h[k] = x[k].received)
            /\ h[i] = x[i].received
        OBVIOUS
      <4> HIDE DEF h
      <4>2. c.val = [k \in 1..(i - 1) |-> h[k]]
        BY <2>3, <2>11, <4>1
      <4>3. v = [k \in 1..i |-> h[k]]
        BY <3>4, <4>1, <4>2, AppendExtends
      <4> QED BY <4>1, <4>3
    <3> QED BY <2>1, <3>2, <3>3, <3>5, <3>6
  <2> QED BY <2>9, <2>10, <2>11
<1> HIDE DEF T
<1>8. n \in T
  <2>1. \A i \in 1..n : i - 1 \in T => i \in T
    BY <1>7
  <2>2. \A i \in 0..n : i \in T
    BY <1>6, <2>1, Induction, Zenon
  <2> QED BY <2>2
<1>9. Good(n)
  BY <1>8 DEF T
<1> QED BY <1>1, <1>4, <1>9 DEF Back

\* What a type's bytes and expectations are made of.
BytesOf(T, v) == Writers[T][v].bytes

LEMMA BytesWritten ==
  ASSUME TypesAssumption, ValuesAssumption, NEW T \in Types, NEW v \in ValuesOf(T)
  PROVE  BytesOf(T, v) = writeToBuf(T, v, OfParts(Writers, T, v))
<1> DEFINE parts == OfParts(Writers, T, v)
           x == getSize(T, v, parts)
           y == writeToBuf(T, v, parts)
           r == Writers[T][v]
<1>1. r = [size |-> x, bytes |-> y]
  BY WritersWrite
<1> HIDE DEF x, y, r, parts
<1>2. r.bytes = y
  BY <1>1
<1> QED BY <1>2 DEF BytesOf, r, y, parts

LEMMA ExpectationsMade ==
  ASSUME TypesAssumption, ValuesAssumption, NEW T \in Types, NEW v \in ValuesOf(T)
  PROVE  LET parts == OfParts(Expected, T, v)
         IN  /\ Expected[T][v].readable = Readable(T, v, parts)
             /\ Expected[T][v].received = Received(T, v, parts)
<1> DEFINE parts == OfParts(Expected, T, v)
           x == Readable(T, v, parts)
           y == Received(T, v, parts)
           e == Expected[T][v]
<1>1. e = [readable |-> x, received |-> y]
  BY ExpectedExpects
<1> HIDE DEF x, y, e, parts
<1>2. e.readable = x /\ e.received = y
  BY <1>1
<1> QED BY <1>2 DEF e, x, y, parts

LEMMA OneByte ==
  ASSUME NEW b \in ByteRange
  PROVE  writeBE(1, b) = <<b>> /\ b \in 0..(Place(1) - 1)
<1>1. Group \in Nat /\ Group >= 2 /\ b \in Nat /\ b <= 2 * Group - 1
  BY Sizes DEF ByteRange
<1>2. Place(0) = 1 /\ Place(1) = 2 * Group
  BY PlaceFacts
<1> DEFINE c == 2 * Group
<1>3. c \in Nat \ {0} /\ b \in 0..(c - 1)
  BY <1>1
<1> HIDE DEF c
<1>4. b \div 1 = b /\ b % c = b
  BY <1>3
<1>5. \A i \in 1..1 : i = 1 /\ 1 - i = 0
  OBVIOUS
<1>6. \A i \in 1..1 : (b \div Place(1 - i)) % (2 * Group) = b
  BY <1>2, <1>4, <1>5 DEF c
<1>7. writeBE(1, b) = [i \in 1..1 |-> b]
  BY <1>6 DEF writeBE
<1>8. <<b>> = [i \in 1..1 |-> b]
  OBVIOUS
<1> QED BY <1>2, <1>3, <1>7, <1>8 DEF c

\* Numbers and truth values are written as numbers.
LEMMA ArithmeticWritten ==
  ASSUME TypesAssumption, ValuesAssumption, NEW T \in Types, isArithmetic(T), NEW v \in ValuesOf(T)
  PROVE  /\ sizeOf(T) \in Nat \ {0}
         /\ \E num \in 0..(Place(sizeOf(T)) - 1) :
              /\ BytesOf(T, v) = writeBE(sizeOf(T), num)
              /\ NumberOf(T, num) = v /\ (T.k = "num" => num = v)
         /\ BytesOf(T, v) \in Seq(ByteRange) /\ Len(BytesOf(T, v)) = sizeOf(T)
         /\ Expected[T][v].readable = TRUE /\ Expected[T][v].received = v
<1> DEFINE w == sizeOf(T)
           e == Expected[T][v]
           b == BytesOf(T, v)
<1>1. T.k \in {"num", "bool"}
  BY DEF isArithmetic
<1>2. b = writeToBuf(T, v, OfParts(Writers, T, v))
  BY BytesWritten
<1>3. w \in Nat \ {0}
  BY <1>1 DEF TypesAssumption, sizeOf
<1>4. \E num \in 0..(Place(w) - 1) : b = writeBE(w, num) /\ NumberOf(T, num) = v /\ (T.k = "num" => num = v)
  <2>1. CASE T.k = "num"
    <3>1. v \in 0..(Place(w) - 1)
      BY <2>1 DEF ValuesAssumption, sizeOf
    <3>2. b = writeBE(w, v)
      BY <1>2, <2>1 DEF writeToBuf, sizeOf
    <3>3. NumberOf(T, v) = v
      BY <2>1 DEF NumberOf
    <3> QED BY <3>1, <3>2, <3>3
  <2>2. CASE T.k = "bool"
    <3> DEFINE num == IF v THEN 1 ELSE 0
    <3>1. v \in BOOLEAN
      BY <2>2 DEF ValuesAssumption
    <3>2. num \in ByteRange
      BY Sizes DEF ByteRange
    <3>3. w = 1
      BY <2>2 DEF sizeOf
    <3>4. b = <<num>>
      BY <1>2, <2>2 DEF writeToBuf
    <3>5. NumberOf(T, num) = v
      <4>1. NumberOf(T, num) = (num # 0)
        BY <2>2 DEF NumberOf
      <4>2. (num # 0) <=> v
        OBVIOUS
      <4>3. (num # 0) = v
        BY <3>1, <4>2
      <4> QED BY <4>1, <4>3
    <3> HIDE DEF num
    <3>6. writeBE(1, num) = <<num>> /\ num \in 0..(Place(1) - 1)
      BY <3>2, OneByte
    <3> QED BY <2>2, <3>3, <3>4, <3>5, <3>6
  <2> QED BY <1>1, <2>1, <2>2
<1>5. b \in Seq(ByteRange) /\ Len(b) = w
  <2>1. PICK num \in 0..(Place(w) - 1) : b = writeBE(w, num)
    BY <1>4
  <2>2. num \in Nat
    OBVIOUS
  <2> QED BY <1>3, <2>1, <2>2, NumberWritten
<1>6. e.readable = TRUE /\ e.received = v
  <2> DEFINE parts == OfParts(Expected, T, v)
             x == Readable(T, v, parts)
             y == Received(T, v, parts)
  <2>1. ~isMadeOfParts(T) /\ parts = <<>>
    BY <1>1 DEF isMadeOfParts, OfParts
  <2>2. e.readable = x /\ e.received = y
    BY ExpectationsMade
  <2>3. x = \A i \in DOMAIN parts : parts[i].readable
    BY <1>1 DEF Readable
  <2>4. x = TRUE
    <3>1. DOMAIN parts = {}
      BY <2>1
    <3> HIDE DEF parts
    <3> QED BY <2>3, <3>1
  <2>5. y = v
    BY <1>1, <2>1 DEF Received, isMadeOfParts
  <2> HIDE DEF x, y, e
  <2> QED BY <2>2, <2>4, <2>5
<1> QED BY <1>3, <1>4, <1>5, <1>6

LEMMA NumberBack ==
  ASSUME TypesAssumption, ValuesAssumption, NEW T \in Types, isArithmetic(T), NEW v \in ValuesOf(T),
         NEW data, NEW at \in Nat \ {0}, NEW remaining \in Nat,
         Holds(data, at, BytesOf(T, v)), Len(BytesOf(T, v)) <= remaining
  PROVE  Back(ReadNumber(T, data, at, remaining), at, Len(BytesOf(T, v)), Expected[T][v])
<1> DEFINE w == sizeOf(T)
           e == Expected[T][v]
           r == ReadNumber(T, data, at, remaining)
<1>1. /\ w \in Nat \ {0} /\ Len(BytesOf(T, v)) = w
      /\ e.readable = TRUE /\ e.received = v
  BY ArithmeticWritten
<1>2. PICK num \in 0..(Place(w) - 1) : BytesOf(T, v) = writeBE(w, num) /\ NumberOf(T, num) = v
  BY ArithmeticWritten
<1>3. readBE(data, at, w) = num
  <2>1. Holds(data, at, writeBE(w, num))
    BY <1>2
  <2> QED BY <1>1, <2>1, BytesReturn
<1>4. r = [ok |-> TRUE, val |-> v, at |-> at + w, last |-> at + w - 1]
  <2>1. ~(remaining < w)
    BY <1>1
  <2> QED BY <1>2, <1>3, <2>1 DEF ReadNumber, Reads
<1>5. r.ok = TRUE /\ r.val = v /\ r.at = at + w
  <2> HIDE DEF r, w
  <2> QED BY <1>4
<1> HIDE DEF r, e, w
<1> QED BY <1>1, <1>5 DEF Back, r, e

\* A varint comes back unless its bytes are more than a word's.
LEMMA VarintBack ==
  ASSUME TypesAssumption, ValuesAssumption, NEW T \in Types, T.k \in {"uvar", "ivar"},
         NEW v \in ValuesOf(T),
         NEW data \in Seq(ByteRange), NEW at \in Nat \ {0}, NEW remaining \in Nat,
         Holds(data, at, BytesOf(T, v)), Len(BytesOf(T, v)) <= remaining
  PROVE  Back(ReadVarint(T, data, at, remaining), at, Len(BytesOf(T, v)), Expected[T][v])
<1> DEFINE maxBytes == IF remaining < WordBytes THEN remaining ELSE WordBytes
           e == Expected[T][v]
           b == BytesOf(T, v)
           u == IF T.k = "uvar" THEN v ELSE ToUnsigned(v)
           n == unsignedVarintSize[u]
           d == IF T.k = "uvar" THEN decodeUnsignedVarint(data, at, maxBytes)
                ELSE decodeSignedVarint(data, at, maxBytes)
           r == ReadVarint(T, data, at, remaining)
<1>1. u \in Unsigned /\ (T.k = "uvar" => v \in Unsigned) /\ (T.k = "ivar" => v \in Signed)
  <2>1. T.k = "uvar" => v \in Unsigned
    BY DEF ValuesAssumption
  <2>2. T.k = "ivar" => v \in Signed
    BY DEF ValuesAssumption
  <2> QED BY <2>1, <2>2, SignsReturn
<1>2. b = encodeUnsignedVarint[u]
  <2>1. b = writeToBuf(T, v, OfParts(Writers, T, v))
    BY BytesWritten
  <2> QED BY <2>1 DEF writeToBuf, encodeSignedVarint
<1>3. n = Len(b) /\ b \in Seq(ByteRange) /\ n \in Nat
  <2>1. \A m \in Unsigned : /\ encodeUnsignedVarint[m] \in Seq(ByteRange)
                             /\ unsignedVarintSize[m] = Len(encodeUnsignedVarint[m])
    BY Encodes, SizeIsLength
  <2> HIDE DEF u, b
  <2>2. b \in Seq(ByteRange) /\ n = Len(b)
    BY <1>1, <1>2, <2>1
  <2> HIDE DEF n
  <2> QED BY <2>2
<1>4. (n <= WordBytes <=> n <= maxBytes) /\ maxBytes \in Nat /\ WordBytes \in Nat
  <2>1. n <= remaining /\ n \in Nat /\ WordBytes \in Nat
    BY <1>3, Sizes
  <2> HIDE DEF n
  <2> QED BY <2>1
<1> HIDE DEF maxBytes
<1>5. e.readable \in BOOLEAN /\ (e.readable <=> n <= WordBytes) /\ e.received = v
  <2> DEFINE parts == OfParts(Expected, T, v)
             x == Readable(T, v, parts)
             y == Received(T, v, parts)
  <2>1. e.readable = x /\ e.received = y
    BY ExpectationsMade
  <2>2. x = (n <= WordBytes)
    BY DEF Readable, signedVarintSize
  <2>3. y = v
    BY DEF Received, isMadeOfParts
  <2> DEFINE z == n <= WordBytes
  <2>4. z \in BOOLEAN
    <3> HIDE DEF n
    <3>1. CASE n <= WordBytes
      <4>1. z = TRUE
        BY <3>1
      <4> QED BY <4>1
    <3>2. CASE ~(n <= WordBytes)
      <4>1. z = FALSE
        BY <3>2
      <4> QED BY <4>1
    <3> QED BY <3>1, <3>2
  <2>5. x = z
    BY <2>2
  <2> HIDE DEF x, y, e, z
  <2>6. e.readable = z /\ e.received = v
    BY <2>1, <2>3, <2>5
  <2>7. e.readable \in BOOLEAN /\ (e.readable <=> z)
    BY <2>4, <2>6, Zenon
  <2> QED BY <2>6, <2>7 DEF z
<1>6. /\ n <= maxBytes => d.ok = TRUE /\ d.decodedBytes = n /\ d.value = v
      /\ n > maxBytes => d.ok = FALSE
  <2>1. Holds(data, at, encodeUnsignedVarint[u])
    BY <1>2
  <2>2. CASE T.k = "uvar"
    <3>1. d = decodeUnsignedVarint(data, at, maxBytes) /\ n = unsignedVarintSize[v] /\ v \in Unsigned
          /\ Holds(data, at, encodeUnsignedVarint[v])
      BY <1>1, <2>1, <2>2
    <3> HIDE DEF d
    <3>2. /\ n <= maxBytes => d = [ok |-> TRUE, last |-> at + n - 1, decodedBytes |-> n, value |-> v]
          /\ n > maxBytes => d = [ok |-> FALSE, last |-> at + maxBytes - 1]
      BY <1>4, <3>1, UnsignedVarintsRoundTrip
    <3> HIDE DEF n
    <3> QED BY <3>2
  <2>3. CASE T.k = "ivar"
    <3>1. d = decodeSignedVarint(data, at, maxBytes) /\ n = signedVarintSize(v) /\ v \in Signed
          /\ Holds(data, at, encodeSignedVarint(v))
      BY <1>1, <2>1, <2>3 DEF signedVarintSize, encodeSignedVarint
    <3> HIDE DEF d
    <3>2. /\ n <= maxBytes => d = [ok |-> TRUE, last |-> at + n - 1, decodedBytes |-> n, value |-> v]
          /\ n > maxBytes => d = [ok |-> FALSE, last |-> at + maxBytes - 1]
      BY <1>4, <3>1, SignedVarintsRoundTrip
    <3> HIDE DEF n
    <3> QED BY <3>2
  <2> QED BY <2>2, <2>3
<1>7. r = IF d.ok THEN [ok |-> TRUE, val |-> d.value, at |-> at + d.decodedBytes, last |-> d.last]
          ELSE [ok |-> FALSE, last |-> d.last]
  BY DEF ReadVarint, Reads, Throws, maxBytes
<1> HIDE DEF d, r, e, n
<1>8. CASE n <= WordBytes
  <2>1. d.ok = TRUE /\ d.decodedBytes = n /\ d.value = v
    BY <1>4, <1>6, <1>8
  <2>2. r = [ok |-> TRUE, val |-> v, at |-> at + n, last |-> d.last]
    BY <1>7, <2>1
  <2>3. r.ok = TRUE /\ r.val = v /\ r.at = at + n
    BY <2>2
  <2>4. e.readable = TRUE
    BY <1>5, <1>8
  <2> QED BY <1>3, <1>5, <2>3, <2>4 DEF Back, r, e
<1>9. CASE ~(n <= WordBytes)
  <2>1. d.ok = FALSE
    BY <1>3, <1>4, <1>6, <1>9
  <2>2. r = [ok |-> FALSE, last |-> d.last]
    BY <1>7, <2>1
  <2>3. r.ok = FALSE
    BY <2>2
  <2>4. e.readable = FALSE
    BY <1>5, <1>9
  <2> QED BY <2>3, <2>4 DEF Back, r, e
<1> QED BY <1>8, <1>9

\* The bytes of a value's parts, and readers that give them back.
PartBytes(T, v) ==
  LET parts == OfParts(Writers, T, v) IN [i \in DOMAIN parts |-> parts[i].bytes]

PartsBack(R, T, v, data) ==
  \A i \in 1..Len(v) :
    ReadsAs(R[PartOf(T, i)], data, BytesOf(PartOf(T, i), v[i]), Expected[PartOf(T, i)][v[i]])

LEMMA SameBack ==
  ASSUME NEW r, NEW at, NEW length, NEW x, NEW y, Back(r, at, length, x),
         y.readable = x.readable, y.received = x.received
  PROVE  Back(r, at, length, y)
BY DEF Back

\* A value is readable or is not.
LEMMA ReadableBoolean ==
  ASSUME TypesAssumption, ValuesAssumption, NEW T \in Types, NEW v \in ValuesOf(T)
  PROVE  Expected[T][v].readable \in BOOLEAN
<1> DEFINE parts == OfParts(Expected, T, v)
           x == Readable(T, v, parts)
           e == Expected[T][v]
           a == unsignedVarintSize[v] <= WordBytes
           b == signedVarintSize(v) <= WordBytes
           c == \A i \in DOMAIN parts : parts[i].readable
<1>1. e.readable = x
  BY ExpectationsMade
<1>2. \/ T.k = "uvar" /\ x = a
      \/ T.k = "ivar" /\ x = b
      \/ ~(T.k \in {"uvar", "ivar"}) /\ x = c
  BY DEF Readable
<1> DEFINE yes == TRUE
<1>3. a = TRUE \/ a = FALSE
  BY <1>1
<1>4. b = TRUE \/ b = FALSE
  BY <1>1
<1>5. c = TRUE \/ c = FALSE
  BY <1>1
<1> HIDE DEF a, b, c, x, e
<1>6. x = TRUE \/ x = FALSE
  BY <1>2, <1>3, <1>4, <1>5
<1> QED BY <1>1, <1>6 DEF e

\* What is known of a value's parts.
LEMMA PartsOfValue ==
  ASSUME TypesAssumption, ValuesAssumption, NEW T \in Types, isMadeOfParts(T), NEW v \in ValuesOf(T)
  PROVE  /\ Len(v) \in Nat /\ Len(PartBytes(T, v)) = Len(v)
         /\ DOMAIN OfParts(Expected, T, v) = 1..Len(v)
         /\ \A i \in 1..Len(v) :
              /\ PartOf(T, i) \in Types /\ v[i] \in ValuesOf(PartOf(T, i))
              /\ PartBytes(T, v)[i] = BytesOf(PartOf(T, i), v[i])
              /\ PartBytes(T, v)[i] \in Seq(ByteRange)
              /\ OfParts(Expected, T, v)[i] = Expected[PartOf(T, i)][v[i]]
              /\ OfParts(Expected, T, v)[i].readable \in BOOLEAN
<1> DEFINE n == Len(v)
           W == Writers
           E == Expected
<1>1. n \in Nat
  BY LengthsOfValues
<1>2. \A i \in 1..n : PartOf(T, i) \in Types /\ v[i] \in ValuesOf(PartOf(T, i))
  BY PartTypes
<1>3. \A i \in 1..n : /\ BytesOf(PartOf(T, i), v[i]) \in Seq(ByteRange)
                      /\ E[PartOf(T, i)][v[i]].readable \in BOOLEAN
  <2>1. \A i \in 1..n : IsWritten(W[PartOf(T, i)][v[i]])
    BY <1>2, AllWritten
  <2>2. \A i \in 1..n : E[PartOf(T, i)][v[i]].readable \in BOOLEAN
    BY <1>2, ReadableBoolean
  <2> HIDE DEF n, E
  <2> QED BY <2>1, <2>2 DEF IsWritten, BytesOf
<1>4. OfParts(E, T, v) = [i \in 1..n |-> E[PartOf(T, i)][v[i]]]
  BY DEF OfParts
<1>5. PartBytes(T, v) = [i \in 1..n |-> BytesOf(PartOf(T, i), v[i])]
  <2>1. OfParts(W, T, v) = [i \in 1..n |-> W[PartOf(T, i)][v[i]]]
    BY DEF OfParts
  <2> DEFINE p == OfParts(W, T, v)
  <2>2. DOMAIN p = 1..n /\ \A i \in 1..n : p[i] = W[PartOf(T, i)][v[i]]
    BY <2>1
  <2>3. PartBytes(T, v) = [i \in DOMAIN p |-> p[i].bytes]
    BY DEF PartBytes
  <2> HIDE DEF p, n
  <2> QED BY <2>2, <2>3 DEF BytesOf
<1> HIDE DEF E
<1>6. /\ DOMAIN OfParts(E, T, v) = 1..n /\ Len(PartBytes(T, v)) = n
      /\ \A i \in 1..n : PartBytes(T, v)[i] = BytesOf(PartOf(T, i), v[i])
                         /\ OfParts(E, T, v)[i] = E[PartOf(T, i)][v[i]]
  <2> HIDE DEF n
  <2> QED BY <1>1, <1>4, <1>5
<1> QED BY <1>1, <1>2, <1>3, <1>6 DEF E

\* Readers of the parts, one after the other, give them back.
LEMMA PartsReadBack ==
  ASSUME TypesAssumption, ValuesAssumption, NEW T \in Types, isMadeOfParts(T), NEW v \in ValuesOf(T),
         NEW R, NEW data, PartsBack(R, T, v, data), NEW readers, Len(readers) = Len(v),
         \A i \in 1..Len(v) : readers[i] = R[PartOf(T, i)],
         NEW start \in Nat \ {0}, NEW remaining \in Nat,
         Holds(data, start, Joined(PartBytes(T, v))), Len(Joined(PartBytes(T, v))) <= remaining
  PROVE  LET e == OfParts(Expected, T, v)
         IN  Back(ReadAll(readers, start, remaining), start, Len(Joined(PartBytes(T, v))),
                  [readable |-> \A i \in 1..Len(v) : e[i].readable,
                   received |-> [i \in 1..Len(v) |-> e[i].received]])
<1> DEFINE n == Len(v)
           s == PartBytes(T, v)
           e == OfParts(Expected, T, v)
<1>1. /\ n \in Nat /\ Len(s) = n
      /\ \A i \in 1..n : /\ s[i] = BytesOf(PartOf(T, i), v[i]) /\ s[i] \in Seq(ByteRange)
                         /\ e[i] = Expected[PartOf(T, i)][v[i]] /\ e[i].readable \in BOOLEAN
  BY PartsOfValue
<1>2. \A i \in 1..n : ReadsAs(readers[i], data, s[i], e[i])
  <2> SUFFICES ASSUME NEW i \in 1..n PROVE ReadsAs(readers[i], data, s[i], e[i])
    OBVIOUS
  <2>1. ReadsAs(R[PartOf(T, i)], data, BytesOf(PartOf(T, i), v[i]), Expected[PartOf(T, i)][v[i]])
    BY DEF PartsBack
  <2>2. readers[i] = R[PartOf(T, i)]
    OBVIOUS
  <2>3. s[i] = BytesOf(PartOf(T, i), v[i]) /\ e[i] = Expected[PartOf(T, i)][v[i]]
    BY <1>1
  <2> HIDE DEF s, e
  <2> QED BY <2>1, <2>2, <2>3
<1>3. (\A i \in 1..n : s[i] \in Seq(ByteRange)) /\ \A i \in 1..n : e[i].readable \in BOOLEAN
  BY <1>1
<1>4. Len(readers) = n /\ Holds(data, start, Joined(s)) /\ Len(Joined(s)) <= remaining
  OBVIOUS
<1> HIDE DEF s, e, n
<1>5. Back(ReadAll(readers, start, remaining), start, Len(Joined(s)),
           [readable |-> \A i \in 1..n : e[i].readable, received |-> [i \in 1..n |-> e[i].received]])
  BY <1>1, <1>2, <1>3, <1>4, AllBack
<1> QED BY <1>5 DEF s, e, n

\* What is expected of values of parts, but for the numbers of a container.
LEMMA ExpectedOfParts ==
  ASSUME TypesAssumption, ValuesAssumption, NEW T \in Types, isMadeOfParts(T), NEW v \in ValuesOf(T),
         ~(T.k = "container" /\ T.t.k = "num")
  PROVE  LET e == OfParts(Expected, T, v)
         IN  /\ Expected[T][v].readable = \A i \in 1..Len(v) : e[i].readable
             /\ Expected[T][v].received = [i \in 1..Len(v) |-> e[i].received]
<1> DEFINE e == OfParts(Expected, T, v)
           n == Len(v)
<1>1. DOMAIN e = 1..n
  BY PartsOfValue
<1>2. Expected[T][v].readable = Readable(T, v, e) /\ Expected[T][v].received = Received(T, v, e)
  BY ExpectationsMade
<1>3. Readable(T, v, e) = \A i \in DOMAIN e : e[i].readable
  BY DEF Readable, isMadeOfParts
<1>4. Received(T, v, e) = [i \in DOMAIN e |-> e[i].received]
  BY DEF Received
<1> HIDE DEF e, n
<1>5. (\A i \in DOMAIN e : e[i].readable) = \A i \in 1..n : e[i].readable
  BY <1>1
<1>6. [i \in DOMAIN e |-> e[i].received] = [i \in 1..n |-> e[i].received]
  BY <1>1
<1>7. Expected[T][v].readable = \A i \in 1..n : e[i].readable
  BY <1>2, <1>3, <1>5
<1>8. Expected[T][v].received = [i \in 1..n |-> e[i].received]
  BY <1>2, <1>4, <1>6
<1> QED BY <1>7, <1>8 DEF e, n

\* Values of parts whose readers are called one after the other.
LEMMA ExpectedReadBack ==
  ASSUME TypesAssumption, ValuesAssumption, NEW T \in Types, isMadeOfParts(T), NEW v \in ValuesOf(T),
         ~(T.k = "container" /\ T.t.k = "num"),
         NEW R, NEW data, PartsBack(R, T, v, data), NEW readers, Len(readers) = Len(v),
         \A i \in 1..Len(v) : readers[i] = R[PartOf(T, i)],
         NEW start \in Nat \ {0}, NEW remaining \in Nat,
         Holds(data, start, Joined(PartBytes(T, v))), Len(Joined(PartBytes(T, v))) <= remaining
  PROVE  Back(ReadAll(readers, start, remaining), start, Len(Joined(PartBytes(T, v))), Expected[T][v])
<1> DEFINE e == OfParts(Expected, T, v)
           a == \A i \in 1..Len(v) : e[i].readable
           b == [i \in 1..Len(v) |-> e[i].received]
           x == [readable |-> a, received |-> b]
<1>1. Back(ReadAll(readers, start, remaining), start, Len(Joined(PartBytes(T, v))), x)
  BY PartsReadBack
<1>2. Expected[T][v].readable = a /\ Expected[T][v].received = b
  BY ExpectedOfParts
<1> HIDE DEF a, b
<1>3. x.readable = a /\ x.received = b
  OBVIOUS
<1> HIDE DEF x
<1>4. Expected[T][v].readable = x.readable /\ Expected[T][v].received = x.received
  BY <1>2, <1>3
<1> QED BY <1>1, <1>4, SameBack

LEMMA TupleBack ==
  ASSUME TypesAssumption, ValuesAssumption, NEW T \in Types, T.k = "tuple", NEW v \in ValuesOf(T),
         NEW R, NEW data, PartsBack(R, T, v, data), NEW at \in Nat \ {0}, NEW remaining \in Nat,
         Holds(data, at, BytesOf(T, v)), Len(BytesOf(T, v)) <= remaining
  PROVE  Back(ReadAll([i \in DOMAIN T.ts |-> R[T.ts[i]]], at, remaining), at, Len(BytesOf(T, v)),
              Expected[T][v])
<1> DEFINE readers == [i \in DOMAIN T.ts |-> R[T.ts[i]]]
           n == Len(v)
<1>1. isMadeOfParts(T)
  BY DEF isMadeOfParts
<1>2. BytesOf(T, v) = Joined(PartBytes(T, v))
  <2>1. BytesOf(T, v) = writeToBuf(T, v, OfParts(Writers, T, v))
    BY BytesWritten
  <2> QED BY <2>1 DEF writeToBuf, PartBytes
<1>3. T.ts \in Seq(Types) /\ n = Len(T.ts) /\ DOMAIN T.ts = 1..n /\ n \in Nat
  BY DEF TypesAssumption, ValuesAssumption
<1>4. \A i \in 1..n : PartOf(T, i) = T.ts[i]
  BY DEF PartOf
<1> HIDE DEF n
<1>5. Len(readers) = n /\ \A i \in 1..n : readers[i] = R[PartOf(T, i)]
  BY <1>3, <1>4
<1> HIDE DEF readers
<1>6. Holds(data, at, Joined(PartBytes(T, v))) /\ Len(Joined(PartBytes(T, v))) <= remaining
  BY <1>2
<1>7. ~(T.k = "container" /\ T.t.k = "num")
  OBVIOUS
<1>8. Back(ReadAll(readers, at, remaining), at, Len(Joined(PartBytes(T, v))), Expected[T][v])
  BY <1>1, <1>5, <1>6, <1>7, ExpectedReadBack DEF n
<1> QED BY <1>2, <1>8 DEF readers

\* The bytes of numbers are as many as the reader takes.
LEMMA NumbersWidth ==
  ASSUME TypesAssumption, ValuesAssumption, NEW T \in Types, T.k \in {"container", "array"},
         isArithmetic(T.t), NEW v \in ValuesOf(T)
  PROVE  /\ T.t \in Types /\ Len(v) \in Nat /\ sizeOf(T.t) \in Nat \ {0}
         /\ \A i \in 1..Len(v) : /\ v[i] \in ValuesOf(T.t)
                                 /\ PartBytes(T, v)[i] = BytesOf(T.t, v[i])
                                 /\ PartBytes(T, v)[i] \in Seq(ByteRange)
                                 /\ OfParts(Expected, T, v)[i] = Expected[T.t][v[i]]
         /\ \E f : /\ Joins(f, PartBytes(T, v), Len(v)) /\ Joined(PartBytes(T, v)) = f[Len(v)]
                   /\ \A i \in 0..Len(v) : Len(f[i]) = i * sizeOf(T.t)
<1> DEFINE n == Len(v)
           s == PartBytes(T, v)
           w == sizeOf(T.t)
           e == OfParts(Expected, T, v)
<1>1. isMadeOfParts(T) /\ \A i : PartOf(T, i) = T.t
  BY DEF isMadeOfParts, PartOf
<1>2. T.t \in Types
  <2>1. PartsOf(T) = {T.t}
    BY <1>1 DEF PartsOf
  <2> QED BY <2>1 DEF TypesAssumption
<1>3. /\ n \in Nat /\ Len(s) = n
      /\ \A i \in 1..n : /\ v[i] \in ValuesOf(T.t) /\ s[i] = BytesOf(T.t, v[i]) /\ s[i] \in Seq(ByteRange)
                         /\ e[i] = Expected[T.t][v[i]]
  BY <1>1, PartsOfValue
<1>4. w \in Nat \ {0}
  BY <1>2 DEF isArithmetic, TypesAssumption, sizeOf
<1>5. \A i \in 1..n : Len(s[i]) = w
  <2>1. \A x \in ValuesOf(T.t) : Len(BytesOf(T.t, x)) = w
    BY <1>2, ArithmeticWritten
  <2> HIDE DEF n, s, w
  <2> QED BY <1>3, <2>1
<1> HIDE DEF s, n, w, e
<1>6. \A i \in 1..n : s[i] \in Seq(ByteRange)
  BY <1>3
<1>7. PICK f : Joins(f, s, n) /\ Joined(s) = f[n]
  BY <1>3, <1>6, JoinedJoins
<1>8. \A i \in 0..n : Len(f[i]) = i * w
  BY <1>3, <1>4, <1>5, <1>7, JoinedWidth
<1> QED BY <1>2, <1>3, <1>4, <1>7, <1>8 DEF s, n, w, e

LEMMA ArrayBack ==
  ASSUME TypesAssumption, ValuesAssumption, NEW T \in Types, T.k = "array", NEW v \in ValuesOf(T),
         NEW R, NEW data, PartsBack(R, T, v, data), NEW at \in Nat \ {0}, NEW remaining \in Nat,
         Holds(data, at, BytesOf(T, v)), Len(BytesOf(T, v)) <= remaining
  PROVE  Back(ReadArray(T, R[T.t], at, remaining), at, Len(BytesOf(T, v)), Expected[T][v])
<1> DEFINE n == T.n
           readers == [i \in 1..n |-> R[T.t]]
           w == sizeOf(T.t)
           j == Joined(PartBytes(T, v))
<1>1. isMadeOfParts(T) /\ (\A i : PartOf(T, i) = T.t) /\ ~(T.k = "container" /\ T.t.k = "num")
  BY DEF isMadeOfParts, PartOf
<1>2. BytesOf(T, v) = j
  <2>1. BytesOf(T, v) = writeToBuf(T, v, OfParts(Writers, T, v))
    BY BytesWritten
  <2> QED BY <2>1 DEF writeToBuf, PartBytes
<1>3. isArithmetic(T.t) /\ Len(v) = n
  BY DEF TypesAssumption, ValuesAssumption
<1>4. n \in Nat /\ w \in Nat \ {0} /\ Len(j) = n * w
  <2>1. /\ Len(v) \in Nat /\ w \in Nat \ {0}
        /\ \E f : /\ Joins(f, PartBytes(T, v), Len(v)) /\ Joined(PartBytes(T, v)) = f[Len(v)]
                  /\ \A i \in 0..Len(v) : Len(f[i]) = i * w
    BY <1>3, NumbersWidth
  <2>2. PICK f : j = f[n] /\ \A i \in 0..n : Len(f[i]) = i * w
    BY <1>3, <2>1
  <2>3. n \in Nat /\ n \in 0..n
    BY <1>3, <2>1
  <2> HIDE DEF j, w
  <2> QED BY <2>1, <2>2, <2>3
<1> HIDE DEF n, w
<1>5. Len(readers) = Len(v) /\ \A i \in 1..Len(v) : readers[i] = R[PartOf(T, i)]
  BY <1>1, <1>3, <1>4
<1> HIDE DEF readers
<1>6. Holds(data, at, j) /\ Len(j) <= remaining
  BY <1>2
<1>7. ~(remaining < w * n)
  <2> DEFINE l == Len(j)
             x == n * w
             y == w * n
  <2>1. x = y /\ x \in Int
    BY <1>4
  <2>2. l = x /\ l <= remaining
    BY <1>4, <1>6
  <2> HIDE DEF l, x, y
  <2>3. ~(remaining < y)
    BY <2>1, <2>2
  <2> QED BY <2>3 DEF y
<1>8. ReadArray(T, R[T.t], at, remaining) = ReadAll(readers, at, remaining)
  BY <1>7 DEF ReadArray, readers, w, n
<1>9. Back(ReadAll(readers, at, remaining), at, Len(j), Expected[T][v])
  BY <1>1, <1>5, <1>6, ExpectedReadBack
<1> HIDE DEF j
<1> QED BY <1>2, <1>8, <1>9

\* The length that a container begins with.
IsLength(size, n) ==
  size.ok = TRUE /\ size.value = n /\ size.decodedBytes = Len(encodeUnsignedVarint[n])

LEMMA LengthBack ==
  ASSUME NEW n \in Unsigned, NEW data \in Seq(ByteRange), NEW at \in Nat, NEW remaining \in Nat,
         Holds(data, at, encodeUnsignedVarint[n]), Len(encodeUnsignedVarint[n]) <= remaining
  PROVE  IsLength(decodeUnsignedVarint(data, at, remaining), n)
<1> DEFINE size == decodeUnsignedVarint(data, at, remaining)
           m == unsignedVarintSize[n]
<1>1. m = Len(encodeUnsignedVarint[n]) /\ m <= remaining
  BY SizeIsLength
<1>2. size = [ok |-> TRUE, last |-> at + m - 1, decodedBytes |-> m, value |-> n]
  BY <1>1, UnsignedVarintsRoundTrip
<1> HIDE DEF size, m
<1>3. size.ok = TRUE /\ size.value = n /\ size.decodedBytes = m
  BY <1>2
<1> QED BY <1>1, <1>3 DEF size, IsLength

\* A container's bytes: its length, and those of its parts.
LEMMA ContainerHolds ==
  ASSUME TypesAssumption, ValuesAssumption, NEW T \in Types, T.k = "container", NEW v \in ValuesOf(T),
         NEW data \in Seq(ByteRange), NEW at \in Nat \ {0}, NEW remaining \in Nat,
         Holds(data, at, BytesOf(T, v)), Len(BytesOf(T, v)) <= remaining
  PROVE  LET size == decodeUnsignedVarint(data, at, remaining)
             m == Len(encodeUnsignedVarint[Len(v)])
             j == Joined(PartBytes(T, v))
         IN  /\ size.ok = TRUE /\ size.value = Len(v) /\ size.decodedBytes = m
             /\ m \in Nat /\ j \in Seq(ByteRange) /\ Len(BytesOf(T, v)) = m + Len(j)
             /\ Holds(data, at + m, j)
<1> DEFINE size == decodeUnsignedVarint(data, at, remaining)
           c == encodeUnsignedVarint[Len(v)]
           m == Len(c)
           j == Joined(PartBytes(T, v))
           b == BytesOf(T, v)
<1>1. isMadeOfParts(T)
  BY DEF isMadeOfParts
<1>2. b = c \o j
  <2>1. b = writeToBuf(T, v, OfParts(Writers, T, v))
    BY BytesWritten
  <2> QED BY <2>1 DEF writeToBuf, PartBytes
<1>3. Len(v) \in Unsigned
  BY DEF ValuesAssumption
<1>4. c \in Seq(ByteRange)
  BY <1>3, Encodes
<1>5. j \in Seq(ByteRange)
  <2>1. /\ Len(v) \in Nat /\ Len(PartBytes(T, v)) = Len(v)
        /\ \A i \in 1..Len(v) : PartBytes(T, v)[i] \in Seq(ByteRange)
    BY <1>1, PartsOfValue
  <2>2. PICK f : Joins(f, PartBytes(T, v), Len(v)) /\ j = f[Len(v)]
    BY <2>1, JoinedJoins
  <2>3. Len(v) \in 0..Len(v)
    BY <2>1
  <2> QED BY <2>2, <2>3 DEF Joins
<1> HIDE DEF c, j, b
<1>6. Holds(data, at, c \o j) /\ Len(c \o j) <= remaining
  BY <1>2 DEF b
<1>7. Len(c \o j) = m + Len(j) /\ m \in Nat /\ Len(j) \in Nat
  BY <1>4, <1>5
<1>8. Holds(data, at, c) /\ Holds(data, at + m, j)
  BY <1>4, <1>5, <1>6, HoldsBoth
<1>9. m <= remaining
  BY <1>6, <1>7
<1>10. size.ok = TRUE /\ size.value = Len(v) /\ size.decodedBytes = m
  <2> DEFINE n == Len(v)
  <2>1. n \in Unsigned /\ at \in Nat /\ c = encodeUnsignedVarint[n]
    BY <1>3 DEF c
  <2> HIDE DEF n
  <2>2. Holds(data, at, encodeUnsignedVarint[n]) /\ Len(encodeUnsignedVarint[n]) <= remaining
    BY <1>8, <1>9, <2>1
  <2>3. IsLength(size, n)
    BY <2>1, <2>2, LengthBack
  <2> HIDE DEF size
  <2> QED BY <2>1, <2>3 DEF n, IsLength
<1> HIDE DEF size
<1> QED BY <1>2, <1>5, <1>7, <1>8, <1>10 DEF c, j, b, size

\* A container of other values.
LEMMA ElementsBack ==
  ASSUME TypesAssumption, ValuesAssumption, ElementsTakeBytes,
         NEW T \in Types, T.k = "container", ~isArithmetic(T.t), NEW v \in ValuesOf(T),
         NEW R, NEW data \in Seq(ByteRange), PartsBack(R, T, v, data),
         NEW at \in Nat \ {0}, NEW remaining \in Nat,
         Holds(data, at, BytesOf(T, v)), Len(BytesOf(T, v)) <= remaining
  PROVE  Back(ReadElements(R[T.t], data, at, remaining), at, Len(BytesOf(T, v)), Expected[T][v])
<1> DEFINE size == decodeUnsignedVarint(data, at, remaining)
           n == Len(v)
           m == Len(encodeUnsignedVarint[n])
           s == PartBytes(T, v)
           j == Joined(s)
           b == BytesOf(T, v)
           readers == [i \in 1..n |-> R[T.t]]
<1>1. isMadeOfParts(T) /\ (\A i : PartOf(T, i) = T.t) /\ ~(T.k = "container" /\ T.t.k = "num")
  BY DEF isMadeOfParts, PartOf, isArithmetic
<1>2. /\ size.ok = TRUE /\ size.value = n /\ size.decodedBytes = m
      /\ m \in Nat /\ j \in Seq(ByteRange) /\ Len(b) = m + Len(j) /\ Holds(data, at + m, j)
  BY ContainerHolds
<1>3. /\ n \in Nat /\ Len(s) = n
      /\ \A i \in 1..n : v[i] \in ValuesOf(T.t) /\ s[i] = BytesOf(T.t, v[i]) /\ s[i] \in Seq(ByteRange)
  BY <1>1, PartsOfValue
<1>4. \A i \in 1..n : Len(s[i]) >= 1
  <2> SUFFICES ASSUME NEW i \in 1..n PROVE Len(s[i]) >= 1
    OBVIOUS
  <2>1. s[i] = Writers[T.t][v[i]].bytes /\ v[i] \in ValuesOf(T.t) /\ s[i] \in Seq(ByteRange)
    BY <1>3 DEF BytesOf
  <2> DEFINE x == s[i]
  <2> HIDE DEF s, n
  <2>2. x # <<>>
    BY <2>1 DEF ElementsTakeBytes
  <2>3. x \in Seq(ByteRange)
    BY <2>1
  <2> HIDE DEF x
  <2>4. Len(x) >= 1
    BY <2>2, <2>3
  <2> QED BY <2>4 DEF x
<1> HIDE DEF s, b, m, n
<1>5. Len(j) >= n
  <2>1. \A i \in 1..n : s[i] \in Seq(ByteRange) /\ Len(s[i]) >= 1
    BY <1>3, <1>4
  <2> QED BY <1>3, <2>1, JoinedAtLeast
<1> DEFINE l == Len(j)
           start == at + m
           left == remaining - m
<1>6. l \in Nat /\ start \in Nat \ {0} /\ left \in Nat /\ l <= left /\ n <= left /\ start + l = at + Len(b)
  <2>1. l \in Nat /\ Len(b) = m + l /\ Len(b) <= remaining /\ l >= n /\ m \in Nat
    BY <1>2, <1>5 DEF b
  <2> HIDE DEF l
  <2> QED BY <1>3, <2>1
<1>7. ReadElements(R[T.t], data, at, remaining) = ReadAll(readers, start, left)
  <2> DEFINE reader == R[T.t]
  <2>1. ReadElements(reader, data, at, remaining) =
          IF ~size.ok THEN Throws(size.last)
          ELSE IF remaining - size.decodedBytes < size.value THEN Throws(size.last)
          ELSE ReadAll([i \in 1..size.value |-> reader], at + size.decodedBytes,
                       remaining - size.decodedBytes)
    BY DEF ReadElements
  <2> HIDE DEF size, reader
  <2>2. ~(left < n)
    BY <1>3, <1>6
  <2>3. ReadElements(reader, data, at, remaining) = ReadAll([i \in 1..n |-> reader], start, left)
    BY <1>2, <2>1, <2>2
  <2> QED BY <2>3 DEF reader
<1>8. Len(readers) = Len(v) /\ \A i \in 1..Len(v) : readers[i] = R[PartOf(T, i)]
  BY <1>1, <1>3 DEF n
<1> HIDE DEF readers, start, left
<1>9. Holds(data, start, Joined(PartBytes(T, v))) /\ Len(Joined(PartBytes(T, v))) <= left
  BY <1>2, <1>6 DEF s, start
<1>10. Back(ReadAll(readers, start, left), start, l, Expected[T][v])
  BY <1>1, <1>6, <1>8, <1>9, ExpectedReadBack DEF s
<1> HIDE DEF l
<1>11. Back(ReadAll(readers, start, left), at, Len(b), Expected[T][v])
  BY <1>6, <1>10 DEF Back
<1> QED BY <1>7, <1>11 DEF b

\* An optional value.
LEMMA OptionalBack ==
  ASSUME TypesAssumption, ValuesAssumption, NEW T \in Types, T.k = "optional", NEW v \in ValuesOf(T),
         NEW R, NEW data \in Seq(ByteRange), PartsBack(R, T, v, data),
         NEW at \in Nat \ {0}, NEW remaining \in Nat,
         Holds(data, at, BytesOf(T, v)), Len(BytesOf(T, v)) <= remaining
  PROVE  Back(ReadOptional(R[T.t], data, at, remaining), at, Len(BytesOf(T, v)), Expected[T][v])
<1> DEFINE n == Len(v)
           s == PartBytes(T, v)
           j == Joined(s)
           b == BytesOf(T, v)
           e == OfParts(Expected, T, v)
           x == Expected[T][v]
           Bool == [k |-> "bool"]
           present == ReadNumber(Bool, data, at, remaining)
           reader == R[T.t]
           r == reader[at + 1][remaining - 1]
           out == ReadOptional(reader, data, at, remaining)
<1>1. isMadeOfParts(T) /\ (\A i : PartOf(T, i) = T.t) /\ ~(T.k = "container" /\ T.t.k = "num")
  BY DEF isMadeOfParts, PartOf
<1>2. n = 0 \/ n = 1
  BY DEF ValuesAssumption
<1>3. b = <<n>> \o j
  <2>1. b = writeToBuf(T, v, OfParts(Writers, T, v))
    BY BytesWritten
  <2> QED BY <2>1 DEF writeToBuf, PartBytes
<1>4. /\ n \in Nat /\ Len(s) = n
      /\ \A i \in 1..n : s[i] = BytesOf(T.t, v[i]) /\ s[i] \in Seq(ByteRange) /\ e[i] = Expected[T.t][v[i]]
                         /\ e[i].readable \in BOOLEAN
  BY <1>1, PartsOfValue
<1>5. x.readable = (\A i \in 1..n : e[i].readable) /\ x.received = [i \in 1..n |-> e[i].received]
  BY <1>1, ExpectedOfParts
<1>6. \A i \in 1..n : ReadsAs(reader, data, s[i], e[i])
  <2>1. \A i \in 1..n : ReadsAs(R[PartOf(T, i)], data, BytesOf(PartOf(T, i), v[i]), Expected[PartOf(T, i)][v[i]])
    BY DEF PartsBack
  <2>2. \A i \in 1..n : ReadsAs(reader, data, BytesOf(T.t, v[i]), Expected[T.t][v[i]])
    BY <1>1, <2>1
  <2> HIDE DEF s, e, reader, n
  <2> QED BY <1>4, <2>2
<1> HIDE DEF n, s, b, e, x
<1>7. PICK f : Joins(f, s, n) /\ j = f[n]
  BY <1>4, JoinedJoins
<1>8. f[0] = <<>> /\ (n = 1 => j = s[1])
  <2>1. f[0] = <<>>
    BY <1>2, <1>7 DEF Joins
  <2>2. n = 1 => f[1] = f[0] \o s[1] /\ s[1] \in Seq(ByteRange)
    <3>1. n = 1 => 1 \in 0..n /\ 1 # 0 /\ 1 - 1 = 0 /\ 1 \in 1..n
      OBVIOUS
    <3> QED BY <1>7, <3>1 DEF Joins
  <2>3. \A y \in Seq(ByteRange) : <<>> \o y = y
    OBVIOUS
  <2> HIDE DEF j
  <2> QED BY <1>7, <2>1, <2>2, <2>3
<1>9. j \in Seq(ByteRange)
  BY <1>2, <1>7 DEF Joins
<1> HIDE DEF j
<1>10. n \in ByteRange /\ <<n>> \in Seq(ByteRange) /\ Len(<<n>>) = 1
  BY <1>2, Sizes DEF ByteRange
<1>11. Len(b) = 1 + Len(j) /\ Len(j) \in Nat /\ Holds(data, at, <<n>>) /\ Holds(data, at + 1, j)
  <2>1. Holds(data, at, <<n>> \o j)
    BY <1>3 DEF b
  <2>2. Holds(data, at, <<n>>) /\ Holds(data, at + Len(<<n>>), j)
    BY <1>9, <1>10, <2>1, HoldsBoth
  <2> QED BY <1>3, <1>9, <1>10, <2>2
<1>12. remaining >= 1 /\ remaining - 1 \in Nat /\ Len(j) <= remaining - 1
  <2>1. Len(b) <= remaining
    BY DEF b
  <2> QED BY <1>11, <2>1
<1>13. present.ok = TRUE /\ present.val = (n # 0)
  <2>1. writeBE(1, n) = <<n>> /\ n \in 0..(Place(1) - 1)
    BY <1>10, OneByte
  <2>2. readBE(data, at, 1) = n
    <3>1. Holds(data, at, writeBE(1, n))
      BY <1>11, <2>1
    <3> QED BY <2>1, <3>1, BytesReturn
  <2>3. sizeOf(Bool) = 1 /\ NumberOf(Bool, n) = (n # 0)
    BY DEF sizeOf, NumberOf
  <2> DEFINE y == n # 0
  <2>4. present = [ok |-> TRUE, val |-> y, at |-> at + 1, last |-> at + 1 - 1]
    <3> DEFINE w == sizeOf(Bool)
               num == NumberOf(Bool, readBE(data, at, w))
    <3>1. present = IF remaining < w THEN Throws(0) ELSE Reads(num, at + w, at + w - 1)
      BY DEF ReadNumber
    <3>2. w = 1 /\ num = y
      BY <2>2, <2>3
    <3> HIDE DEF w, num, y, present
    <3>3. ~(remaining < 1)
      BY <1>12
    <3>4. present = Reads(y, at + 1, at + 1 - 1)
      BY <3>1, <3>2, <3>3
    <3> QED BY <3>4 DEF Reads
  <2> HIDE DEF y, present
  <2>5. present.ok = TRUE /\ present.val = y
    BY <2>4
  <2> QED BY <2>5 DEF y
<1>14. out = IF ~present.ok THEN present
             ELSE IF ~present.val THEN Reads(<<>>, at + 1, at)
             ELSE IF ~r.ok THEN r
             ELSE Reads(<<r.val>>, r.at, r.last)
  BY DEF ReadOptional
<1> HIDE DEF present, out, r
<1>15. CASE n = 0
  <2>1. out = [ok |-> TRUE, val |-> <<>>, at |-> at + 1, last |-> at]
    <3>1. present.ok /\ ~present.val
      BY <1>13, <1>15
    <3> QED BY <1>14, <3>1 DEF Reads
  <2>2. out.ok = TRUE /\ out.val = <<>> /\ out.at = at + 1
    BY <2>1
  <2>3. x.readable = TRUE /\ x.received = <<>>
    <3>1. \A i \in 1..n : FALSE
      BY <1>15
    <3>2. (\A i \in 1..n : e[i].readable) = TRUE
      BY <3>1
    <3>3. [i \in 1..n |-> e[i].received] = <<>>
      BY <1>15
    <3> QED BY <1>5, <3>2, <3>3
  <2>4. Len(b) = 1
    <3>1. Len(j) = 0
      BY <1>7, <1>8, <1>15
    <3> QED BY <1>11, <3>1
  <2>5. Back(out, at, Len(b), x)
    BY <2>2, <2>3, <2>4 DEF Back
  <2> QED BY <2>5 DEF out, b, x, reader
<1>16. CASE n = 1
  <2>1. Back(r, at + 1, Len(j), e[1])
    <3>1. ReadsAs(reader, data, j, e[1])
      BY <1>6, <1>8, <1>16
    <3>2. at + 1 \in Nat \ {0}
      OBVIOUS
    <3> QED BY <1>11, <1>12, <3>1, <3>2 DEF ReadsAs, r
  <2>2. out = IF ~r.ok THEN r ELSE [ok |-> TRUE, val |-> <<r.val>>, at |-> r.at, last |-> r.last]
    <3>1. present.ok /\ present.val
      <4>1. (n # 0) = TRUE
        BY <1>16
      <4> QED BY <1>13, <4>1
    <3> QED BY <1>14, <3>1 DEF Reads
  <2>3. \A i \in 1..n : i = 1
    BY <1>16
  <2>4. e[1].readable \in BOOLEAN /\ x.readable = e[1].readable /\ x.received = <<e[1].received>>
    <3>1. e[1].readable \in BOOLEAN
      BY <1>4, <1>16
    <3>2. (\A i \in 1..n : e[i].readable) = e[1].readable
      <4>1. (\A i \in 1..n : e[i].readable) <=> e[1].readable
        BY <1>16, <2>3
      <4>2. CASE e[1].readable
        <5>1. e[1].readable = TRUE
          BY <3>1, <4>2
        <5>2. (\A i \in 1..n : e[i].readable) = TRUE
          BY <4>1, <4>2
        <5> QED BY <5>1, <5>2
      <4>3. CASE ~e[1].readable
        <5>1. e[1].readable = FALSE
          BY <3>1, <4>3
        <5>2. (\A i \in 1..n : e[i].readable) = FALSE
          BY <4>1, <4>3
        <5> QED BY <5>1, <5>2
      <4> QED BY <4>2, <4>3
    <3>3. [i \in 1..n |-> e[i].received] = <<e[1].received>>
      BY <1>16, <2>3
    <3> QED BY <1>5, <3>1, <3>2, <3>3
  <2>5. CASE r.ok
    <3>1. out = [ok |-> TRUE, val |-> <<r.val>>, at |-> r.at, last |-> r.last]
      BY <2>2, <2>5
    <3>2. out.ok = TRUE /\ out.val = <<r.val>> /\ out.at = r.at
      BY <3>1
    <3>3. r.val = e[1].received /\ r.at = (at + 1) + Len(j) /\ e[1].readable = r.ok /\ r.ok \in BOOLEAN
      BY <2>1, <2>5 DEF Back
    <3>4. (at + 1) + Len(j) = at + Len(b)
      BY <1>11
    <3>5. r.ok = TRUE
      BY <2>5, <3>3
    <3>6. Back(out, at, Len(b), x)
      BY <2>4, <3>2, <3>3, <3>4, <3>5 DEF Back
    <3> QED BY <3>6 DEF out, b, x, reader
  <2>6. CASE ~r.ok
    <3>1. out = r
      BY <2>2, <2>6
    <3>2. Back(out, at, Len(b), x)
      BY <2>1, <2>4, <2>6, <3>1 DEF Back
    <3> QED BY <3>2 DEF out, b, x, reader
  <2> QED BY <2>5, <2>6
<1> QED BY <1>2, <1>15, <1>16

\* A number of a container, as it is read.
LEMMA ElementBack ==
  ASSUME TypesAssumption, ValuesAssumption, NEW T \in Types, isArithmetic(T), NEW v \in ValuesOf(T),
         NEW data, NEW at \in Nat, Holds(data, at, BytesOf(T, v))
  PROVE  NumberOf(T, readHost(data, at, sizeOf(T))) = IF T.k = "num" THEN Swapped(T.w, v) ELSE v
<1> DEFINE w == sizeOf(T)
<1>1. w \in Nat \ {0}
  BY ArithmeticWritten
<1>2. PICK num \in 0..(Place(w) - 1) :
        BytesOf(T, v) = writeBE(w, num) /\ NumberOf(T, num) = v /\ (T.k = "num" => num = v)
  BY ArithmeticWritten
<1>3. num \in Nat /\ Holds(data, at, writeBE(w, num))
  BY <1>2
<1>4. readHost(data, at, w) = Swapped(w, num)
  BY <1>1, <1>3, BytesSwap
<1>5. CASE T.k = "num"
  <2>1. w = T.w
    BY <1>5 DEF sizeOf
  <2> QED BY <1>2, <1>4, <1>5, <2>1 DEF NumberOf
<1>6. CASE T.k # "num"
  <2>1. w = 1
    BY <1>6 DEF sizeOf
  <2>2. [i \in 1..1 |-> At(data, at + i - 1) * Place(i - 1)]
        = [i \in 1..1 |-> At(data, at + i - 1) * Place(1 - i)]
    <3>1. \A i \in 1..1 : i - 1 = 1 - i
      OBVIOUS
    <3> QED BY <3>1
  <2>3. readHost(data, at, 1) = readBE(data, at, 1)
    BY <2>2 DEF readHost, readBE
  <2>4. readBE(data, at, w) = num
    BY <1>1, <1>3, BytesReturn
  <2>5. readHost(data, at, w) = num
    BY <2>1, <2>3, <2>4
  <2> QED BY <1>2, <1>6, <2>5
<1> QED BY <1>5, <1>6

\* A container of numbers.
LEMMA NumbersBack ==
  ASSUME TypesAssumption, ValuesAssumption,
         NEW T \in Types, T.k = "container", isArithmetic(T.t), NEW v \in ValuesOf(T),
         NEW data \in Seq(ByteRange), NEW at \in Nat \ {0}, NEW remaining \in Nat,
         Holds(data, at, BytesOf(T, v)), Len(BytesOf(T, v)) <= remaining
  PROVE  Back(ReadNumbers(T.t, data, at, remaining), at, Len(BytesOf(T, v)), Expected[T][v])
<1> DEFINE size == decodeUnsignedVarint(data, at, remaining)
           n == Len(v)
           w == sizeOf(T.t)
           m == Len(encodeUnsignedVarint[n])
           s == PartBytes(T, v)
           j == Joined(s)
           b == BytesOf(T, v)
           e == OfParts(Expected, T, v)
           x == Expected[T][v]
           bytes == (size.value * w) % Word
           from == at + size.decodedBytes
           val == [i \in 1..(bytes \div w) |-> NumberOf(T.t, readHost(data, from + (i - 1) * w, w))]
           r == ReadNumbers(T.t, data, at, remaining)
<1>1. /\ size.ok = TRUE /\ size.value = n /\ size.decodedBytes = m
      /\ m \in Nat /\ j \in Seq(ByteRange) /\ Len(b) = m + Len(j) /\ Holds(data, at + m, j)
  BY ContainerHolds
<1>2. /\ T.t \in Types /\ n \in Nat /\ w \in Nat \ {0}
      /\ \A i \in 1..n : v[i] \in ValuesOf(T.t) /\ s[i] = BytesOf(T.t, v[i]) /\ e[i] = Expected[T.t][v[i]]
  BY NumbersWidth
<1>3. PICK f : Joins(f, s, n) /\ j = f[n] /\ \A i \in 0..n : Len(f[i]) = i * w
  BY NumbersWidth
<1>4. DOMAIN e = 1..n
  BY PartsOfValue DEF isMadeOfParts
<1>5. n * w < Word
  BY DEF ValuesAssumption
<1>6. \A i \in 1..n : e[i].readable = TRUE /\ e[i].received = v[i]
  <2>1. \A y \in ValuesOf(T.t) : Expected[T.t][y].readable = TRUE /\ Expected[T.t][y].received = y
    <3>1. T.t \in Types
      BY <1>2
    <3> SUFFICES ASSUME NEW y \in ValuesOf(T.t)
                 PROVE  Expected[T.t][y].readable = TRUE /\ Expected[T.t][y].received = y
      OBVIOUS
    <3> QED BY <3>1, ArithmeticWritten
  <2> HIDE DEF e, n, s, w
  <2> QED BY <1>2, <2>1
<1>7. x.readable = Readable(T, v, e) /\ x.received = Received(T, v, e)
  BY ExpectationsMade
<1>8. Readable(T, v, e) = (\A i \in DOMAIN e : e[i].readable)
  BY DEF Readable
<1>9. Received(T, v, e) = IF T.t.k = "num" THEN [i \in DOMAIN e |-> Swapped(T.t.w, v[i])]
                          ELSE [i \in DOMAIN e |-> e[i].received]
  BY DEF Received, isMadeOfParts
<1>10. r = IF ~size.ok THEN Throws(size.last)
           ELSE IF remaining - size.decodedBytes < bytes THEN Throws(size.last)
           ELSE Reads(val, from + bytes, from + bytes - 1)
  BY DEF ReadNumbers
<1> HIDE DEF e, x, r, s, j, b, n, m, w
<1>11. bytes = n * w /\ n * w \in Nat
  <2> DEFINE p == n * w
  <2>1. p \in Nat /\ p < Word /\ Word \in Nat \ {0}
    BY <1>2, <1>5, Sizes
  <2>2. bytes = p % Word
    BY <1>1
  <2> HIDE DEF p, bytes
  <2>3. p % Word = p
    BY <2>1
  <2> QED BY <2>1, <2>2, <2>3 DEF p
<1>12. bytes \div w = n
  <2> DEFINE p == n * w
  <2>1. p \in Nat /\ p = w * n + 0
    BY <1>2
  <2>2. 0 \in 0..(w - 1)
    BY <1>2
  <2> HIDE DEF p
  <2>3. p \div w = n
    BY <1>2, <2>1, <2>2, OneQuotient
  <2> QED BY <1>11, <2>3 DEF p
<1>13. from = at + m
  BY <1>1
<1>14. Len(j) = n * w
  <2>1. n \in 0..n
    BY <1>2
  <2> QED BY <1>3, <2>1
<1>15. ASSUME NEW i \in 1..n
       PROVE  NumberOf(T.t, readHost(data, from + (i - 1) * w, w))
              = IF T.t.k = "num" THEN Swapped(T.t.w, v[i]) ELSE v[i]
  <2>1. from \in Nat
    BY <1>1, <1>13
  <2>2. i - 1 \in 0..n
    BY <1>2
  <2>3. Holds(data, from, f[n])
    BY <1>1, <1>3, <1>13
  <2>4. Holds(data, from + Len(f[i - 1]), s[i])
    <3> HIDE DEF from, bytes, size
    <3>1. Joins(f, s, n) /\ n \in Nat
      BY <1>2, <1>3
    <3> QED BY <2>1, <2>3, <3>1, PartHolds
  <2>5. Len(f[i - 1]) = (i - 1) * w
    BY <1>3, <2>2
  <2> DEFINE a == from + (i - 1) * w
  <2>6. Holds(data, a, BytesOf(T.t, v[i]))
    BY <1>2, <2>4, <2>5
  <2>7. a \in Nat
    <3>1. (i - 1) * w \in Nat
      <4>1. i - 1 \in Nat
        BY <1>2
      <4> HIDE DEF a
      <4> QED BY <1>2, <4>1
    <3> QED BY <2>1, <3>1
  <2> HIDE DEF a, from, bytes
  <2>8. NumberOf(T.t, readHost(data, a, sizeOf(T.t))) = IF T.t.k = "num" THEN Swapped(T.t.w, v[i]) ELSE v[i]
    BY <1>2, <2>6, <2>7, ElementBack
  <2> QED BY <2>8 DEF a, w
<1> DEFINE l == Len(b)
<1>16. ~(remaining - size.decodedBytes < bytes) /\ from + bytes = at + l
  <2> DEFINE p == n * w
  <2>1. l = m + p /\ l <= remaining /\ p \in Nat /\ m \in Nat
    BY <1>1, <1>11, <1>14 DEF b
  <2>2. bytes = p /\ from = at + m /\ size.decodedBytes = m
    BY <1>1, <1>11, <1>13
  <2> HIDE DEF p, l, bytes, from, size
  <2> QED BY <2>1, <2>2
<1>17. val = x.received
  <2>1. val = [i \in 1..n |-> NumberOf(T.t, readHost(data, from + (i - 1) * w, w))]
    BY <1>12
  <2> HIDE DEF val, from, bytes
  <2>2. CASE T.t.k = "num"
    <3>1. val = [i \in 1..n |-> Swapped(T.t.w, v[i])]
      BY <1>15, <2>1, <2>2
    <3>2. x.received = [i \in 1..n |-> Swapped(T.t.w, v[i])]
      BY <1>4, <1>7, <1>9, <2>2
    <3> QED BY <3>1, <3>2
  <2>3. CASE T.t.k # "num"
    <3>1. val = [i \in 1..n |-> v[i]]
      BY <1>15, <2>1, <2>3
    <3>2. x.received = [i \in 1..n |-> e[i].received]
      BY <1>4, <1>7, <1>9, <2>3
    <3>3. [i \in 1..n |-> e[i].received] = [i \in 1..n |-> v[i]]
      BY <1>6
    <3> QED BY <3>1, <3>2, <3>3
  <2> QED BY <2>2, <2>3
<1>18. x.readable = TRUE
  <2>1. (\A i \in DOMAIN e : e[i].readable) = TRUE
    BY <1>4, <1>6
  <2> QED BY <1>7, <1>8, <2>1
<1> HIDE DEF l
<1>19. r.ok = TRUE /\ r.val = val /\ r.at = at + l
  <2> DEFINE c == from + bytes
             last == from + bytes - 1
  <2>1. r = [ok |-> TRUE, val |-> val, at |-> c, last |-> last]
    BY <1>1, <1>10, <1>16 DEF Reads
  <2>2. c = at + l
    BY <1>16
  <2> HIDE DEF c, last, val, r
  <2> QED BY <2>1, <2>2
<1> HIDE DEF val
<1>20. Back(r, at, l, x)
  BY <1>17, <1>18, <1>19 DEF Back
<1> QED BY <1>20 DEF r, l, x, b

\* One type, if the readers of its parts give values back.
LEMMA TypeBack ==
  ASSUME TypesAssumption, ValuesAssumption, ElementsTakeBytes, NEW T \in Types, NEW v \in ValuesOf(T),
         NEW R, NEW data \in Seq(ByteRange), isMadeOfParts(T) => PartsBack(R, T, v, data),
         NEW at \in Nat \ {0}, NEW remaining \in Nat,
         Holds(data, at, BytesOf(T, v)), Len(BytesOf(T, v)) <= remaining
  PROVE  Back(readFromBuf(R, T, data, at, remaining), at, Len(BytesOf(T, v)), Expected[T][v])
<1> DEFINE r == readFromBuf(R, T, data, at, remaining)
<1>1. T.k \in {"num", "bool", "uvar", "ivar", "tuple", "container", "array", "optional"}
  BY DEF TypesAssumption, isMadeOfParts
<1>2. CASE isArithmetic(T)
  <2>1. r = ReadNumber(T, data, at, remaining)
    BY <1>2 DEF readFromBuf, isArithmetic
  <2> QED BY <1>2, <2>1, NumberBack
<1>3. CASE T.k \in {"uvar", "ivar"}
  <2>1. r = ReadVarint(T, data, at, remaining)
    BY <1>3 DEF readFromBuf, isArithmetic
  <2> QED BY <1>3, <2>1, VarintBack
<1>4. CASE T.k = "tuple"
  <2>1. r = ReadAll([i \in DOMAIN T.ts |-> R[T.ts[i]]], at, remaining)
    BY <1>4 DEF readFromBuf, isArithmetic
  <2>2. PartsBack(R, T, v, data)
    BY <1>4 DEF isMadeOfParts
  <2> QED BY <1>4, <2>1, <2>2, TupleBack
<1>5. CASE T.k = "container" /\ isArithmetic(T.t)
  <2>1. r = ReadNumbers(T.t, data, at, remaining)
    BY <1>5 DEF readFromBuf, isArithmetic
  <2> QED BY <1>5, <2>1, NumbersBack
<1>6. CASE T.k = "container" /\ ~isArithmetic(T.t)
  <2>1. r = ReadElements(R[T.t], data, at, remaining)
    BY <1>6 DEF readFromBuf, isArithmetic
  <2>2. PartsBack(R, T, v, data)
    BY <1>6 DEF isMadeOfParts
  <2> QED BY <1>6, <2>1, <2>2, ElementsBack
<1>7. CASE T.k = "array"
  <2>1. r = ReadArray(T, R[T.t], at, remaining)
    BY <1>7 DEF readFromBuf, isArithmetic
  <2>2. PartsBack(R, T, v, data)
    BY <1>7 DEF isMadeOfParts
  <2> QED BY <1>7, <2>1, <2>2, ArrayBack
<1>8. CASE T.k = "optional"
  <2>1. r = ReadOptional(R[T.t], data, at, remaining)
    BY <1>8 DEF readFromBuf, isArithmetic
  <2>2. PartsBack(R, T, v, data)
    BY <1>8 DEF isMadeOfParts
  <2> QED BY <1>8, <2>1, <2>2, OptionalBack
<1> QED BY <1>1, <1>2, <1>3, <1>4, <1>5, <1>6, <1>7, <1>8 DEF isArithmetic

\* A reader of a type goes by those of its parts.
LEMMA ReaderReads ==
  ASSUME TypesAssumption, NEW data, NEW T \in Types, NEW at \in Int, NEW remaining \in Int
  PROVE  ReadersOf(data)[T][at][remaining] = readFromBuf(ReadersOf(data), T, data, at, remaining)
<1>1. Made(ReadersOf(data), data)[T][at][remaining] = readFromBuf(ReadersOf(data), T, data, at, remaining)
  BY DEF Made
<1> QED BY <1>1, ReadersMade

\* All types, by how deep they are nested.
LEMMA TypesBack ==
  ASSUME TypesAssumption, ValuesAssumption, ElementsTakeBytes, NEW data \in Seq(ByteRange)
  PROVE  \A T \in Types : \A v \in ValuesOf(T) :
           ReadsAs(ReadersOf(data)[T], data, BytesOf(T, v), Expected[T][v])
<1> DEFINE R == ReadersOf(data)
           n == MaxNesting + 1
           Reading(T, v) == ReadsAs(R[T], data, BytesOf(T, v), Expected[T][v])
           S == {i \in 0..n : \A T \in Types : Nesting(T) < i => \A v \in ValuesOf(T) : Reading(T, v)}
<1>1. n \in Nat /\ \A T \in Types : Nesting(T) \in Nat /\ Nesting(T) < n
  BY DEF TypesAssumption
<1>2. 0 \in S
  BY <1>1
<1>3. ASSUME NEW i \in 1..n, i - 1 \in S PROVE i \in S
  <2> SUFFICES ASSUME NEW T \in Types, Nesting(T) < i, NEW v \in ValuesOf(T) PROVE Reading(T, v)
    BY <1>1
  <2>1. isMadeOfParts(T) => PartsBack(R, T, v, data)
    <3> SUFFICES ASSUME isMadeOfParts(T), NEW k \in 1..Len(v)
                 PROVE  Reading(PartOf(T, k), v[k])
      BY DEF PartsBack
    <3>1. PartOf(T, k) \in Types /\ v[k] \in ValuesOf(PartOf(T, k)) /\ Nesting(PartOf(T, k)) < Nesting(T)
      BY PartTypes
    <3>2. Nesting(PartOf(T, k)) < i - 1
      BY <1>1, <3>1
    <3> HIDE DEF Reading
    <3> QED BY <1>3, <3>1, <3>2
  <2>2. ASSUME NEW at \in Nat \ {0}, NEW remaining \in Nat,
               Holds(data, at, BytesOf(T, v)), Len(BytesOf(T, v)) <= remaining
        PROVE  Back(R[T][at][remaining], at, Len(BytesOf(T, v)), Expected[T][v])
    <3>1. R[T][at][remaining] = readFromBuf(R, T, data, at, remaining)
      <4>1. at \in Int /\ remaining \in Int
        OBVIOUS
      <4> QED BY <4>1, ReaderReads
    <3>2. Back(readFromBuf(R, T, data, at, remaining), at, Len(BytesOf(T, v)), Expected[T][v])
      BY <2>1, <2>2, TypeBack
    <3> QED BY <3>1, <3>2
  <2> HIDE DEF R
  <2> QED BY <2>2 DEF ReadsAs
<1> HIDE DEF S
<1>4. n \in S
  <2>1. \A i \in 1..n : i - 1 \in S => i \in S
    BY <1>3
  <2>2. \A i \in 0..n : i \in S
    BY <1>1, <1>2, <2>1, Induction, Zenon
  <2> QED BY <1>1, <2>2
<1> QED BY <1>1, <1>4 DEF S

-----------------------------------------------------------------------------
(* A packet that its own type reads *)

\* What toBuffer() writes: an opcode and the arguments' bytes.
LEMMA BytesHold ==
  ASSUME PacketsAssumption, NEW p \in PacketTypes, NEW args \in ArgsOf(p)
  PROVE  LET n == Len(args)
             s == [i \in DOMAIN args |-> BytesOf(p.args[i], args[i])]
             data == WrittenBytes(p, args)
         IN  /\ n \in Nat /\ DOMAIN args = 1..n /\ DOMAIN p.args = 1..n /\ Len(s) = n
             /\ \A i \in 1..n : /\ p.args[i] \in Types /\ args[i] \in ValuesOf(p.args[i])
                                /\ s[i] \in Seq(ByteRange)
             /\ data \in Seq(ByteRange) /\ Joined(s) \in Seq(ByteRange)
             /\ Len(data) = 1 + Len(Joined(s)) /\ Holds(data, 2, Joined(s))
<1> DEFINE n == Len(args)
           s == [i \in DOMAIN args |-> BytesOf(p.args[i], args[i])]
           z == [i \in DOMAIN args |-> Writers[p.args[i]][args[i]].size]
           bytes == Joined(s)
           data == WrittenBytes(p, args)
<1>1. TypesAssumption /\ ValuesAssumption /\ p.code \in ByteRange /\ p.args \in Seq(Types)
      /\ Len(args) = Len(p.args) /\ DOMAIN args = DOMAIN p.args
      /\ \A i \in DOMAIN args : args[i] \in ValuesOf(p.args[i])
  BY DEF PacketsAssumption
<1>2. n \in Nat /\ DOMAIN args = 1..n /\ DOMAIN p.args = 1..n /\ \A i \in 1..n : p.args[i] \in Types
  BY <1>1
<1>3. \A i \in 1..n : args[i] \in ValuesOf(p.args[i])
  BY <1>1, <1>2
<1> HIDE DEF n
<1>4. Len(s) = n /\ Len(z) = n
  BY <1>2
<1>5. \A i \in 1..n : s[i] \in Seq(ByteRange) /\ z[i] \in Nat /\ Len(s[i]) <= z[i]
  <2> SUFFICES ASSUME NEW i \in 1..n PROVE s[i] \in Seq(ByteRange) /\ z[i] \in Nat /\ Len(s[i]) <= z[i]
    OBVIOUS
  <2>1. IsWritten(Writers[p.args[i]][args[i]])
    BY <1>1, <1>2, <1>3, AllWritten
  <2>2. s[i] = Writers[p.args[i]][args[i]].bytes /\ z[i] = Writers[p.args[i]][args[i]].size
    BY <1>2 DEF BytesOf
  <2> HIDE DEF s, z
  <2> QED BY <2>1, <2>2 DEF IsWritten
<1>6. data = <<p.code>> \o bytes
  BY DEF WrittenBytes, BytesOf
<1> HIDE DEF s, z
<1>7. bytes \in Seq(ByteRange)
  BY <1>2, <1>4, <1>5, JoinedSize
<1> HIDE DEF bytes, data
<1> DEFINE c == <<p.code>>
<1>8. c \in Seq(ByteRange) /\ Len(c) = 1
  BY <1>1
<1>9. data = c \o bytes
  BY <1>6
<1> HIDE DEF c
<1>10. data \in Seq(ByteRange) /\ Len(data) = 1 + Len(bytes)
  BY <1>7, <1>8, <1>9, OneBehind
<1>11. Holds(data, 1, data)
  BY <1>10 DEF Holds
<1>12. Holds(data, 2, bytes)
  <2>1. Holds(c \o bytes, 1, c \o bytes)
    BY <1>9, <1>11
  <2>2. Holds(c \o bytes, 1 + Len(c), bytes)
    BY <1>7, <1>8, <2>1, HoldsBoth
  <2>3. 1 + Len(c) = 2
    BY <1>8
  <2> QED BY <1>9, <2>2, <2>3
<1> QED BY <1>1, <1>2, <1>3, <1>4, <1>5, <1>7, <1>10, <1>12 DEF n, s, bytes, data

\* All bytes that are counted are written if there is no array in the arguments.
LEMMA CountedBytes ==
  ASSUME PacketsAssumption, NEW p \in PacketTypes, NEW args \in ArgsOf(p)
  PROVE  LET s == [i \in DOMAIN args |-> BytesOf(p.args[i], args[i])]
             z == [i \in DOMAIN args |-> Writers[p.args[i]][args[i]].size]
         IN  /\ Len(Joined(s)) = Total(z) <=> ~ \E i \in DOMAIN args : HoldsArray[p.args[i]][args[i]]
             /\ Len(WrittenBytes(p, args)) = BufferSize(p, args)
                <=> ~ \E i \in DOMAIN args : HoldsArray[p.args[i]][args[i]]
<1> DEFINE n == Len(args)
           s == [i \in DOMAIN args |-> BytesOf(p.args[i], args[i])]
           z == [i \in DOMAIN args |-> Writers[p.args[i]][args[i]].size]
           hasArray == \E i \in DOMAIN args : HoldsArray[p.args[i]][args[i]]
           l == Len(Joined(s))
           t == Total(z)
<1>1. TypesAssumption /\ ValuesAssumption
  BY DEF PacketsAssumption
<1>2. /\ n \in Nat /\ DOMAIN args = 1..n /\ Len(s) = n
      /\ \A i \in 1..n : p.args[i] \in Types /\ args[i] \in ValuesOf(p.args[i])
      /\ Joined(s) \in Seq(ByteRange) /\ Len(WrittenBytes(p, args)) = 1 + l
  BY BytesHold
<1> HIDE DEF n
<1>3. Len(z) = n
  BY <1>2
<1>4. \A i \in 1..n : s[i] = Writers[p.args[i]][args[i]].bytes /\ z[i] = Writers[p.args[i]][args[i]].size
  BY <1>2 DEF BytesOf
<1>5. BufferSize(p, args) = 1 + t
  BY DEF BufferSize
<1> HIDE DEF s, z
<1>6. \A i \in 1..n : /\ s[i] \in Seq(ByteRange) /\ z[i] \in Nat /\ Len(s[i]) <= z[i]
                      /\ Len(s[i]) = z[i] <=> ~HoldsArray[p.args[i]][args[i]]
  <2> SUFFICES ASSUME NEW i \in 1..n
               PROVE  /\ s[i] \in Seq(ByteRange) /\ z[i] \in Nat /\ Len(s[i]) <= z[i]
                      /\ Len(s[i]) = z[i] <=> ~HoldsArray[p.args[i]][args[i]]
    OBVIOUS
  <2>1. IsWritten(Writers[p.args[i]][args[i]])
    BY <1>1, <1>2, AllWritten
  <2>2. IsExact(Writers[p.args[i]][args[i]], HoldsArray[p.args[i]][args[i]])
    BY <1>1, <1>2, AllExact
  <2> QED BY <1>4, <2>1, <2>2 DEF IsWritten, IsExact
<1>7. l = t <=> AllOfSize(s, z, n)
  BY <1>2, <1>3, <1>6, JoinedExact
<1>8. t \in Nat
  BY <1>2, <1>3, <1>6, JoinedSize
<1>9. l \in Nat
  BY <1>2
<1> HIDE DEF l, t
<1>10. l = t <=> ~hasArray
  BY <1>2, <1>6, <1>7 DEF AllOfSize
<1>11. 1 + l = 1 + t <=> ~hasArray
  BY <1>8, <1>9, <1>10
<1> HIDE DEF hasArray
<1> QED BY <1>2, <1>5, <1>10, <1>11 DEF s, z, l, t, hasArray

\* Numbers and truth values are as large as their types.
LEMMA ArithmeticSize ==
  ASSUME TypesAssumption, ValuesAssumption, NEW T \in Types, isArithmetic(T), NEW v \in ValuesOf(T)
  PROVE  Writers[T][v].size = sizeOf(T)
<1> DEFINE parts == OfParts(Writers, T, v)
           x == getSize(T, v, parts)
           y == writeToBuf(T, v, parts)
           r == Writers[T][v]
<1>1. r = [size |-> x, bytes |-> y]
  BY WritersWrite
<1>2. x = sizeOf(T)
  <2>1. T.k = "num" \/ T.k = "bool"
    BY DEF isArithmetic
  <2> QED BY <2>1 DEF getSize, isArithmetic
<1> HIDE DEF x, y, r
<1>3. r.size = x
  BY <1>1
<1> QED BY <1>2, <1>3 DEF r

\* A packet that its own type reads.
LEMMA MessageBack ==
  ASSUME PacketsAssumption, ElementsTakeBytes, NEW p \in PacketTypes, NEW args \in ArgsOf(p)
  PROVE  LET data == WrittenBytes(p, args)
             out == fromBuffer(p.args, data, Len(data) - 1)
             expected == [i \in DOMAIN args |-> Expected[p.args[i]][args[i]]]
         IN  /\ out.ok <=> \A i \in DOMAIN expected : expected[i].readable
             /\ out.ok => out.val = [i \in DOMAIN expected |-> expected[i].received]
<1> DEFINE n == Len(args)
           s == [i \in DOMAIN args |-> BytesOf(p.args[i], args[i])]
           z == [i \in DOMAIN args |-> Writers[p.args[i]][args[i]].size]
           data == WrittenBytes(p, args)
           x == [i \in DOMAIN args |-> Expected[p.args[i]][args[i]]]
           R == ReadersOf(data)
           readers == [i \in DOMAIN p.args |-> R[p.args[i]]]
           size == Len(data) - 1
           out == fromBuffer(p.args, data, size)
           widths == [i \in DOMAIN p.args |-> sizeOf(p.args[i])]
<1>1. TypesAssumption /\ ValuesAssumption
  BY DEF PacketsAssumption
<1>2. /\ n \in Nat /\ DOMAIN args = 1..n /\ DOMAIN p.args = 1..n /\ Len(s) = n
      /\ \A i \in 1..n : /\ p.args[i] \in Types /\ args[i] \in ValuesOf(p.args[i])
                         /\ s[i] \in Seq(ByteRange)
      /\ data \in Seq(ByteRange) /\ Joined(s) \in Seq(ByteRange)
      /\ Len(data) = 1 + Len(Joined(s)) /\ Holds(data, 2, Joined(s))
  BY BytesHold
<1>3. \A i \in 1..n : x[i] = Expected[p.args[i]][args[i]] /\ s[i] = BytesOf(p.args[i], args[i])
                      /\ z[i] = Writers[p.args[i]][args[i]].size
  BY <1>2
<1>4. DOMAIN x = 1..n
  BY <1>2
<1>5. Len(readers) = n /\ \A i \in 1..n : readers[i] = R[p.args[i]]
  <2>1. DOMAIN p.args = 1..n /\ n \in Nat
    BY <1>2
  <2> HIDE DEF n, R
  <2>2. readers = [i \in 1..n |-> R[p.args[i]]]
    BY <2>1
  <2> HIDE DEF readers
  <2> QED BY <2>1, <2>2
<1>6. size = Len(Joined(s)) /\ size \in Nat
  <2> HIDE DEF data, s
  <2> QED BY <1>2
<1>7. (\A i \in DOMAIN p.args : isArithmetic(p.args[i])) => Total(widths) = size
  <2> SUFFICES ASSUME \A i \in DOMAIN p.args : isArithmetic(p.args[i]) PROVE Total(widths) = size
    OBVIOUS
  <2>1. \A i \in 1..n : Writers[p.args[i]][args[i]].size = sizeOf(p.args[i])
    BY <1>1, <1>2, ArithmeticSize
  <2>2. \A i \in DOMAIN args : Writers[p.args[i]][args[i]].size = sizeOf(p.args[i])
    BY <1>2, <2>1
  <2>3. DOMAIN args = DOMAIN p.args
    BY <1>2
  <2>4. widths = z
    BY <2>2, <2>3
  <2>5. \A i \in 1..n : ~HoldsArray[p.args[i]][args[i]]
    <3> SUFFICES ASSUME NEW i \in 1..n PROVE ~HoldsArray[p.args[i]][args[i]]
      OBVIOUS
    <3> DEFINE T == p.args[i]
               v == args[i]
               held == OfParts(HoldsArray, T, v)
    <3>1. T \in Types /\ v \in ValuesOf(T) /\ isArithmetic(T)
      BY <1>2
    <3> HIDE DEF T, v
    <3>2. ~isMadeOfParts(T) /\ T.k # "array"
      BY <3>1 DEF isArithmetic, isMadeOfParts
    <3>3. held = <<>>
      BY <3>2 DEF OfParts
    <3>4. HoldsArray[T][v] = (T.k = "array" \/ \E k \in DOMAIN held : held[k])
      BY <1>1, <3>1, ArraysHeld
    <3>5. DOMAIN held = {}
      BY <3>3
    <3> HIDE DEF held
    <3>6. ~HoldsArray[T][v]
      BY <3>2, <3>4, <3>5
    <3> QED BY <3>6 DEF T, v
  <2>6. ~ \E i \in DOMAIN args : HoldsArray[p.args[i]][args[i]]
    BY <1>2, <2>5
  <2>7. Len(Joined(s)) = Total(z)
    BY <2>6, CountedBytes
  <2> HIDE DEF s, z, widths, size
  <2> QED BY <1>6, <2>4, <2>7
<1>8. out = ReadAll(readers, 2, size)
  BY <1>7 DEF fromBuffer
<1>9. \A i \in 1..n : ReadsAs(readers[i], data, s[i], x[i])
  <2> SUFFICES ASSUME NEW i \in 1..n PROVE ReadsAs(readers[i], data, s[i], x[i])
    OBVIOUS
  <2>1. p.args[i] \in Types /\ args[i] \in ValuesOf(p.args[i])
    BY <1>2
  <2> HIDE DEF n, data, s, x, readers
  <2>2. ReadsAs(R[p.args[i]], data, BytesOf(p.args[i], args[i]), Expected[p.args[i]][args[i]])
    BY <1>1, <1>2, <2>1, TypesBack
  <2> HIDE DEF R
  <2> QED BY <1>3, <1>5, <2>2
<1>10. \A i \in 1..n : x[i].readable \in BOOLEAN
  <2>1. \A i \in 1..n : Expected[p.args[i]][args[i]].readable \in BOOLEAN
    BY <1>1, <1>2, ReadableBoolean
  <2> HIDE DEF n, x
  <2> QED BY <1>3, <2>1
<1> HIDE DEF n, s, z, data, x, R, readers, size, out, widths
<1>11. Back(out, 2, Len(Joined(s)),
            [readable |-> \A i \in 1..n : x[i].readable, received |-> [i \in 1..n |-> x[i].received]])
  <2>1. \A i \in 1..n : s[i] \in Seq(ByteRange)
    BY <1>2
  <2>2. Len(Joined(s)) <= size
    BY <1>6
  <2>3. Back(ReadAll(readers, 2, size), 2, Len(Joined(s)),
             [readable |-> \A i \in 1..n : x[i].readable, received |-> [i \in 1..n |-> x[i].received]])
    <3>1. n \in Nat /\ Len(s) = n /\ Holds(data, 2, Joined(s))
      BY <1>2
    <3>2. Len(readers) = n
      BY <1>5
    <3>3. size \in Nat
      BY <1>6
    <3>4. 2 \in Nat \ {0}
      OBVIOUS
    <3> QED BY <1>9, <1>10, <2>1, <2>2, <3>1, <3>2, <3>3, <3>4, AllBack, Zenon
  <2> QED BY <1>8, <2>3
<1> DEFINE a == \A i \in 1..n : x[i].readable
           b == [i \in 1..n |-> x[i].received]
           w == [readable |-> a, received |-> b]
<1>12. out.ok = w.readable /\ (out.ok => out.val = w.received)
  BY <1>11 DEF Back
<1>13. w.readable = a /\ w.received = b
  <2> HIDE DEF a, b
  <2> QED OBVIOUS
<1> HIDE DEF w
<1>14. out.ok = a /\ (out.ok => out.val = b)
  BY <1>12, <1>13
<1>15. out.ok <=> \A i \in DOMAIN x : x[i].readable
  BY <1>4, <1>14
<1>16. b = [i \in DOMAIN x |-> x[i].received]
  BY <1>4
<1> QED BY <1>14, <1>15, <1>16 DEF out, x, data, size

\* Handlers read types of the program, what toBuffer() has written stays as it is
\* until it is read, and a result is what the handler's type makes of the message.
SentInv ==
  sent # Nothing =>
    LET arrays == \E i \in DOMAIN sent.args : HoldsArray[sent.packet.args[i]][sent.args[i]]
    IN  /\ sent.packet \in PacketTypes /\ sent.args \in ArgsOf(sent.packet)
        /\ aborted <=> arrays /\ ~sent.into
        /\ aborted \/ message = WrittenBytes(sent.packet, sent.args)

ResultInv ==
  result # Nothing =>
    /\ 1 \in result.touched
    /\ message # <<>> /\ ~result.handled => result.touched = {1}
    /\ message # <<>> /\ result.handled =>
         /\ result.by \in PacketTypes
         /\ result.out = fromBuffer(result.by.args, message, Len(message) - 1)
         /\ result.touched = {1, result.out.last}

PacketsInv ==
  /\ \A c \in DOMAIN handlers : handlers[c] \in PacketTypes
  /\ message # Nothing => message \in Seq(ByteRange)
  /\ message = Nothing => result = Nothing
  /\ aborted => result = Nothing
  /\ aborted \in BOOLEAN
  /\ SentInv /\ ResultInv

LEMMA PacketsInvariant ==
  ASSUME PacketsAssumption PROVE PacketsSpec => []PacketsInv
<1> USE DEF packetVars
<1>1. PacketsInit => PacketsInv
  <2>1. DOMAIN <<>> = {}
    OBVIOUS
  <2> QED BY <2>1 DEF PacketsInit, PacketsInv, SentInv, ResultInv
<1>2. ASSUME NEW p \in PacketTypes, NEW args \in ArgsOf(p)
      PROVE  WrittenBytes(p, args) \in Seq(ByteRange)
  BY BytesHold
<1>3. ASSUME NEW bytes \in ForeignMessages PROVE bytes \in Seq(ByteRange)
  <2> DEFINE rests == UNION {[1..n -> ForeignBytes] : n \in 0..MaxForeign}
  <2>1. PICK p \in PacketTypes, rest \in rests : bytes = <<p.code>> \o rest
    <3>1. ForeignMessages = UNION {{<<p.code>> \o rest : rest \in rests} : p \in PacketTypes}
      BY DEF ForeignMessages
    <3> HIDE DEF rests
    <3>2. PICK p \in PacketTypes : bytes \in {<<p.code>> \o rest : rest \in rests}
      BY <1>3, <3>1
    <3> QED BY <3>2
  <2>2. p.code \in ByteRange /\ ForeignBytes \subseteq ByteRange /\ MaxForeign \in Nat
    BY DEF PacketsAssumption
  <2>3. PICK n \in 0..MaxForeign : rest \in [1..n -> ForeignBytes]
    OBVIOUS
  <2>4. <<p.code>> \in Seq(ByteRange) /\ rest \in Seq(ByteRange)
    BY <2>2, <2>3
  <2> QED BY <2>1, <2>4, OneBehind
<1>4. PacketsInv /\ [PacketsNext]_packetVars => PacketsInv'
  <2> SUFFICES ASSUME PacketsInv, [PacketsNext]_packetVars PROVE PacketsInv'
    OBVIOUS
  <2>1. ASSUME NEW p \in PacketTypes, on(p) PROVE PacketsInv'
    <3>1. UNCHANGED <<message, sent, aborted, result>>
      BY <2>1 DEF on
    <3>2. \A c \in DOMAIN handlers' : handlers'[c] \in PacketTypes
      BY <2>1 DEF on, PacketsInv
    <3> QED BY <3>1, <3>2 DEF PacketsInv, SentInv, ResultInv
  <2>2. ASSUME ~aborted, NEW p \in PacketTypes, NEW args \in ArgsOf(p),
               toBuffer(p, args) \/ toBufferInto(p, args)
        PROVE  PacketsInv'
    <3> DEFINE arrays == \E i \in DOMAIN args : HoldsArray[p.args[i]][args[i]]
               data == WrittenBytes(p, args)
               x == Len(data) = BufferSize(p, args)
    <3>1. message = Nothing /\ UNCHANGED <<handlers, result>>
      BY <2>2 DEF toBuffer, toBufferInto
    <3>2. result = Nothing
      BY <3>1 DEF PacketsInv
    <3>3. x <=> ~arrays
      BY CountedBytes
    <3>4. data \in Seq(ByteRange)
      BY <1>2
    <3>5. CASE toBuffer(p, args)
      <4> DEFINE s == [packet |-> p, args |-> args, into |-> FALSE]
      <4>1. sent' = s /\ ((x /\ message' = data /\ UNCHANGED aborted) \/ (~x /\ aborted' = TRUE /\ UNCHANGED message))
        BY <3>5 DEF toBuffer
      <4>2. s.packet = p /\ s.args = args /\ s.into = FALSE
        OBVIOUS
      <4> HIDE DEF s, x, data
      <4>3. SentInv'
        BY <2>2, <3>3, <4>1, <4>2 DEF SentInv, PacketsInv, data
      <4>4. message' # Nothing => message' \in Seq(ByteRange)
        BY <3>1, <3>4, <4>1
      <4>6. aborted' \in BOOLEAN /\ ResultInv'
        BY <3>1, <3>2, <4>1 DEF PacketsInv, ResultInv
      <4> QED BY <3>1, <3>2, <4>3, <4>4, <4>6 DEF PacketsInv
    <3>6. CASE toBufferInto(p, args)
      <4> DEFINE s == [packet |-> p, args |-> args, into |-> TRUE]
      <4>1. sent' = s /\ message' = data /\ UNCHANGED aborted
        BY <3>6 DEF toBufferInto
      <4>2. s.packet = p /\ s.args = args /\ s.into = TRUE
        OBVIOUS
      <4> HIDE DEF s, x, data
      <4>3. SentInv'
        BY <2>2, <4>1, <4>2 DEF SentInv, PacketsInv, data
      <4>4. message' \in Seq(ByteRange)
        BY <3>4, <4>1
      <4>5. aborted' \in BOOLEAN /\ ResultInv'
        BY <3>1, <3>2, <4>1 DEF PacketsInv, ResultInv
      <4> QED BY <3>1, <3>2, <4>3, <4>4, <4>5 DEF PacketsInv
    <3> QED BY <2>2, <3>5, <3>6
  <2>3. ASSUME ~aborted, NEW bytes \in {<<>>} \cup ForeignMessages, Foreign(bytes) PROVE PacketsInv'
    <3>1. bytes \in Seq(ByteRange)
      <4>1. <<>> \in Seq(ByteRange)
        OBVIOUS
      <4> QED BY <1>3, <4>1
    <3>2. message = Nothing /\ UNCHANGED <<handlers, aborted, result>> /\ message' = bytes /\ sent' = Nothing
      BY <2>3 DEF Foreign
    <3>3. result = Nothing
      BY <3>2 DEF PacketsInv
    <3> QED BY <3>1, <3>2, <3>3 DEF PacketsInv, SentInv, ResultInv
  <2>4. ASSUME ~aborted, NEW memory \in Memories, read(memory) PROVE PacketsInv'
    <3> DEFINE p == handlers[memory[1]]
               size == IF message = <<>> THEN Word - 1 ELSE Len(message) - 1
               out == fromBuffer(p.args, memory, size)
               touched == {1, out.last}
    <3>1. message # Nothing /\ UNCHANGED <<handlers, message, sent, aborted>>
      BY <2>4 DEF read
    <3>2. message # <<>> => memory = message /\ size = Len(message) - 1
      BY <2>4 DEF Memories
    <3>3. CASE memory[1] \in DOMAIN handlers
      <4>1. result' = [handled |-> TRUE, by |-> p, out |-> out, touched |-> touched]
        BY <2>4, <3>3 DEF read
      <4>2. p \in PacketTypes
        BY <3>3 DEF PacketsInv
      <4>3. message # <<>> => out = fromBuffer(p.args, message, Len(message) - 1)
        BY <3>2
      <4> HIDE DEF p, out
      <4>4. result'.out = out /\ result'.by = p /\ result'.touched = {1, out.last} /\ result'.handled = TRUE
        BY <4>1
      <4>5. ResultInv'
        BY <3>1, <4>2, <4>3, <4>4 DEF ResultInv
      <4> QED BY <2>4, <3>1, <4>5 DEF PacketsInv, SentInv
    <3>4. CASE memory[1] \notin DOMAIN handlers
      <4>1. result' = [handled |-> FALSE, touched |-> {1}]
        BY <2>4, <3>4 DEF read
      <4>2. result'.handled = FALSE /\ result'.touched = {1}
        BY <4>1
      <4>3. ResultInv'
        BY <3>1, <4>2 DEF ResultInv
      <4> QED BY <2>4, <3>1, <4>3 DEF PacketsInv, SentInv
    <3> QED BY <3>3, <3>4
  <2>5. ASSUME Done PROVE PacketsInv'
    <3>1. message' = Nothing /\ sent' = Nothing /\ result' = Nothing /\ UNCHANGED <<handlers, aborted>>
      BY <2>5 DEF Done
    <3> QED BY <3>1 DEF PacketsInv, SentInv, ResultInv
  <2>6. ASSUME UNCHANGED packetVars PROVE PacketsInv'
    BY <2>6 DEF PacketsInv, SentInv, ResultInv
  <2> QED BY <2>1, <2>2, <2>3, <2>4, <2>5, <2>6 DEF PacketsNext
<1> QED BY <1>1, <1>4, PTL DEF PacketsSpec

(***************************************************************************)
(* A reader touches no byte behind a message, and returns no place behind  *)
(* its end, whatever the message holds, for packets of all types and       *)
(* numbers of every size; only the opcode of the empty message is read     *)
(* behind it. (Packet.tpp:275-438, PacketReader.tpp:5-16)                  *)
(***************************************************************************)
THEOREM ReadsStayInside == ASSUME PacketsAssumption PROVE PacketsSpec => []ReadsInside
<1>1. PacketsInv => ReadsInside
  <2> SUFFICES ASSUME PacketsInv, result # Nothing
               PROVE  /\ (\A i \in result.touched : i <= Len(message)) <=> message # <<>>
                      /\ message # <<>> /\ result.handled /\ result.out.ok => result.out.at <= Len(message) + 1
    BY DEF ReadsInside
  <2>1. message \in Seq(ByteRange)
    BY DEF PacketsInv
  <2>2. CASE message = <<>>
    <3>1. Len(message) = 0
      BY <2>2
    <3>2. 1 \in result.touched
      BY DEF PacketsInv, ResultInv
    <3> QED BY <2>2, <3>1, <3>2
  <2>3. CASE message # <<>>
    <3> DEFINE l == Len(message)
    <3>1. l \in Nat /\ l >= 1
      BY <2>1, <2>3
    <3>2. CASE ~result.handled
      <4>1. result.touched = {1}
        BY <2>3, <3>2 DEF PacketsInv, ResultInv
      <4> QED BY <2>3, <3>1, <3>2, <4>1
    <3>3. CASE result.handled
      <4> DEFINE p == result.by
                 out == result.out
      <4>1. p \in PacketTypes /\ out = fromBuffer(p.args, message, l - 1) /\ result.touched = {1, out.last}
        BY <2>3, <3>3 DEF PacketsInv, ResultInv
      <4>2. p.args \in Seq(Types) /\ TypesAssumption
        BY <4>1 DEF PacketsAssumption
      <4>3. out.last <= l /\ (out.ok => out.at <= l + 1)
        BY <2>1, <2>3, <4>1, <4>2, MessageInside
      <4> HIDE DEF l, out
      <4>4. \A i \in {1, out.last} : i <= l
        BY <3>1, <4>3
      <4> QED BY <2>3, <4>1, <4>3, <4>4 DEF l, out
    <3> QED BY <3>2, <3>3
  <2> QED BY <2>2, <2>3
<1> QED BY <1>1, PacketsInvariant, PTL

(***************************************************************************)
(* A packet that its own type reads comes back as it was sent, in so far   *)
(* as it is readable at all and apart from the order of the bytes of       *)
(* numbers in containers, and writing one ends the program just if a       *)
(* std::array is in its values and toBuffer() makes the buffer; for        *)
(* packets of all types, of all values, and for varints and numbers of     *)
(* every size; the values of a container that is not one of numbers must   *)
(* take bytes. (Packet.tpp:94-482)                                         *)
(***************************************************************************)
THEOREM PacketsAlwaysRoundTrip ==
  ASSUME PacketsAssumption, ElementsTakeBytes PROVE PacketsSpec => []PacketsRoundTrip
<1>1. PacketsInv => PacketsRoundTrip
  <2> SUFFICES ASSUME PacketsInv, sent # Nothing
               PROVE  LET expected == [i \in DOMAIN sent.args |-> Expected[sent.packet.args[i]][sent.args[i]]]
                          arrays == \E i \in DOMAIN sent.args : HoldsArray[sent.packet.args[i]][sent.args[i]]
                      IN  /\ aborted <=> arrays /\ ~sent.into
                          /\ result # Nothing /\ result.handled /\ result.by = sent.packet =>
                               /\ result.out.ok <=> \A i \in DOMAIN expected : expected[i].readable
                               /\ result.out.ok => result.out.val = [i \in DOMAIN expected |-> expected[i].received]
    BY DEF PacketsRoundTrip
  <2> DEFINE p == sent.packet
             args == sent.args
             arrays == \E i \in DOMAIN args : HoldsArray[p.args[i]][args[i]]
             data == WrittenBytes(p, args)
  <2>1. p \in PacketTypes /\ args \in ArgsOf(p) /\ (aborted <=> arrays /\ ~sent.into)
        /\ (aborted \/ message = data)
    BY DEF PacketsInv, SentInv
  <2>2. ASSUME result # Nothing, result.handled, result.by = sent.packet
        PROVE  LET expected == [i \in DOMAIN args |-> Expected[p.args[i]][args[i]]]
               IN  /\ result.out.ok <=> \A i \in DOMAIN expected : expected[i].readable
                   /\ result.out.ok => result.out.val = [i \in DOMAIN expected |-> expected[i].received]
    <3>1. LET out == fromBuffer(p.args, data, Len(data) - 1)
              expected == [i \in DOMAIN args |-> Expected[p.args[i]][args[i]]]
          IN  /\ out.ok <=> \A i \in DOMAIN expected : expected[i].readable
              /\ out.ok => out.val = [i \in DOMAIN expected |-> expected[i].received]
      BY <2>1, MessageBack
    <3>2. ~aborted
      BY <2>2 DEF PacketsInv
    <3>3. message = data /\ data # <<>>
      <4>1. data \in Seq(ByteRange) /\ Len(data) >= 1
        <5> DEFINE s == [i \in DOMAIN args |-> BytesOf(p.args[i], args[i])]
                   k == Len(Joined(s))
        <5>1. data \in Seq(ByteRange) /\ Joined(s) \in Seq(ByteRange) /\ Len(data) = 1 + k
          BY <2>1, BytesHold
        <5>2. k \in Nat
          BY <5>1
        <5> HIDE DEF k, data
        <5> QED BY <5>1, <5>2
      <4> HIDE DEF data
      <4>2. data # <<>>
        BY <4>1
      <4> QED BY <2>1, <3>2, <4>2
    <3>4. result.out = fromBuffer(p.args, data, Len(data) - 1)
      BY <2>2, <3>3 DEF PacketsInv, ResultInv
    <3> HIDE DEF p, args, data
    <3> QED BY <3>1, <3>4
  <2> HIDE DEF arrays
  <2> QED BY <2>1, <2>2 DEF arrays
<1> QED BY <1>1, PacketsInvariant, PTL
=============================================================================
