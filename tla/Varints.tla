------------------------------ MODULE Varints ------------------------------
(***************************************************************************)
(* varints.cpp: numbers in groups of bits, the lowest first, whose bytes   *)
(* have a further bit that tells whether another one follows.              *)
(*                                                                         *)
(* The code's groups have 7 bits and its words 8 bytes; here both are      *)
(* small, and a word still takes more groups than it has bytes.            *)
(***************************************************************************)
EXTENDS Integers, Sequences

CONSTANTS
  GroupBits,      \* 7 in the code
  WordBytes       \* sizeof(u64)

ASSUME VarintsAssumption == GroupBits \in Nat \ {0} /\ WordBytes \in Nat \ {0}

\* Of two.
Power[n \in Nat] == IF n = 0 THEN 1 ELSE 2 * Power[n - 1]

Group == Power[GroupBits]
ByteRange == 0..(2 * Group - 1)
WordBits == WordBytes * (GroupBits + 1)
Word == Power[WordBits]
Unsigned == 0..(Word - 1)
Signed == -(Word \div 2)..(Word \div 2 - 1)

\* Memory behind the buffer may be read, and holds anything.
At(data, i) == IF i \in DOMAIN data THEN data[i] ELSE 0

encodeUnsignedVarint[value \in Unsigned] ==
  IF value < Group THEN <<value>>
  ELSE <<Group + (value % Group)>> \o encodeUnsignedVarint[value \div Group]

unsignedVarintSize[value \in Unsigned] ==
  IF value < Group THEN 1 ELSE 1 + unsignedVarintSize[value \div Group]

\* decodedBytes is n: up to the first byte that is not continued.
Decodes(data, at, n) ==
  /\ At(data, at + n - 1) < Group
  /\ \A k \in 1..(n - 1) : At(data, at + k - 1) >= Group

\* A shift by more than the word's bits, which C++ leaves undefined, is taken
\* modulo the word's bits, as the instruction does.
Shifted(data, at, k) ==
  (At(data, at + k) % Group) * Power[(k * GroupBits) % WordBits]

\* The loop's value after n groups.  Adding is | while groups do not overlap, as
\* those of one number do not; those of a foreign message that is longer than a
\* word's may, and then the value differs, which no property looks at.
DecodedValue(data, at, n) ==
  LET after[k \in 0..n] == IF k = 0 THEN 0 ELSE after[k - 1] + Shifted(data, at, k - 1)
  IN  after[n] % Word

\* ok is FALSE if it throws; last is the last byte that was read.
decodeUnsignedVarint(data, at, maxBytes) ==
  LET lengths == {n \in 1..maxBytes : Decodes(data, at, n)}
  IN  IF lengths = {} THEN [ok |-> FALSE, last |-> at + maxBytes - 1]
      ELSE LET n == CHOOSE n \in lengths : TRUE
           IN  [ok |-> TRUE, last |-> at + n - 1, decodedBytes |-> n,
                value |-> DecodedValue(data, at, n)]

\* Mutant: the complement is forgotten, so that -1 is written as 2's.
ToUnsignedOff(value) == IF value < 0 THEN (2 * (-value) + 1) % Word ELSE 2 * value

\* The sign goes to the lowest bit; ~value is -value - 1.
ToUnsigned(value) == IF value < 0 THEN 2 * (-value - 1) + 1 ELSE 2 * value

encodeSignedVarint(value) == encodeUnsignedVarint[ToUnsigned(value)]
signedVarintSize(value) == unsignedVarintSize[ToUnsigned(value)]

ToSigned(ur) == IF ur % 2 = 1 THEN -(ur \div 2) - 1 ELSE ur \div 2

decodeSignedVarint(data, at, maxBytes) ==
  LET ur == decodeUnsignedVarint(data, at, maxBytes)
  IN  IF ur.ok THEN [ur EXCEPT !.value = ToSigned(@)] ELSE ur
=============================================================================
