------------------------------ MODULE Packets ------------------------------
(***************************************************************************)
(* Packet and PacketReader (Packet.tpp, PacketReader.tpp): messages with an *)
(* opcode, written from and read into C++ values by their types, and the   *)
(* handlers that messages are given to.                                    *)
(*                                                                         *)
(* Types are records [k |-> kind, ...]: num and its width w in bytes,      *)
(* bool, uvar, ivar, tuple of types ts, container of t (a vector or a      *)
(* string), array of n numbers t (std::array), and optional t, whose value *)
(* is a sequence of at most one.  The host is little-endian.               *)
(***************************************************************************)
EXTENDS Varints

CONSTANTS
  Types,             \* the types of a program's arguments and of their parts,
  Nesting(_),        \* how deep their parts are nested,
  MaxNesting,        \* and how deep at most
  ValuesOf(_),       \* the values of a type
  PacketTypes,       \* records [code, args]: Packet<code, args...>
  ArgsOf(_),         \* the arguments that a packet type is sent with
  ForeignBytes,      \* the bytes of other messages and of memory behind them, and
  MaxForeign,        \* bound: how many there are after the opcode
  Nothing

VARIABLES
  handlers,          \* opcode -> packet type
  message,           \* the bytes that are under way, or Nothing
  sent,              \* [packet, args, into]: what toBuffer() was given, or Nothing
  aborted,           \* an assertion has ended the program
  result             \* of read(), or Nothing

packetVars == <<handlers, message, sent, aborted, result>>

isArithmetic(T) == T.k \in {"num", "bool"}
sizeOf(T) == IF T.k = "num" THEN T.w ELSE 1

isMadeOfParts(T) == T.k \in {"tuple", "container", "array", "optional"}

\* The type of the part i of a value of type T.
PartOf(T, i) == IF T.k = "tuple" THEN T.ts[i] ELSE T.t
PartsOf(T) ==
  IF T.k = "tuple" THEN {T.ts[i] : i \in DOMAIN T.ts} ELSE IF isMadeOfParts(T) THEN {T.t} ELSE {}

\* What a byte counts that has i bytes below it.
Place(i) == Power[(GroupBits + 1) * i]

\* The loops that add numbers, and put sequences one behind the other.
Total(numbers) ==
  LET after[i \in 0..Len(numbers)] == IF i = 0 THEN 0 ELSE after[i - 1] + numbers[i]
  IN  after[Len(numbers)]
Joined(parts) ==
  LET after[i \in 0..Len(parts)] == IF i = 0 THEN <<>> ELSE after[i - 1] \o parts[i]
  IN  after[Len(parts)]

Larger(a, b) == IF a > b THEN a ELSE b

\* Types end, and a container's size and bytes fit in a word.
TypesAssumption ==
  /\ \A T \in Types :
       /\ T.k \in {"num", "bool", "uvar", "ivar"} \/ isMadeOfParts(T)
       /\ T.k = "num" => T.w \in Nat \ {0}
       /\ T.k = "tuple" => T.ts \in Seq(Types)
       /\ T.k = "array" => T.n \in Unsigned /\ isArithmetic(T.t)
       /\ Nesting(T) \in 0..MaxNesting
       /\ \A U \in PartsOf(T) : U \in Types /\ Nesting(U) < Nesting(T)
  /\ MaxNesting \in Nat

ValuesAssumption ==
  \A T \in Types : \A v \in ValuesOf(T) :
    /\ T.k = "num" => v \in 0..(Place(T.w) - 1)
    /\ T.k = "bool" => v \in BOOLEAN
    /\ T.k = "uvar" => v \in Unsigned
    /\ T.k = "ivar" => v \in Signed
    /\ T.k = "tuple" => Len(v) = Len(T.ts)
    /\ T.k = "container" => Len(v) \in Unsigned /\ (isArithmetic(T.t) => Len(v) * sizeOf(T.t) < Word)
    /\ T.k = "array" => Len(v) = T.n
    /\ T.k = "optional" => Len(v) \in {0, 1}
    /\ isMadeOfParts(T) => \A i \in 1..Len(v) : v[i] \in ValuesOf(PartOf(T, i))

-----------------------------------------------------------------------------
(* Writing: a value of type T, of which parts have been written *)

\* A std::array takes the overload of containers, which counts the bytes of a
\* length that is not written.
getSize(T, v, parts) ==
  LET sizes == Total([i \in DOMAIN parts |-> parts[i].size])
  IN  CASE isArithmetic(T)  -> sizeOf(T)
        [] T.k = "uvar"     -> unsignedVarintSize[v]
        [] T.k = "ivar"     -> signedVarintSize(v)
        [] T.k = "tuple"    -> sizes
        [] T.k \in {"container", "array"} -> unsignedVarintSize[Len(v)] + sizes
        [] T.k = "optional" -> 1 + sizes

\* buf::writeBE
writeBE(w, num) == [i \in 1..w |-> (num \div Place(w - i)) % (2 * Group)]

writeToBuf(T, v, parts) ==
  LET bytes == Joined([i \in DOMAIN parts |-> parts[i].bytes])
  IN  CASE T.k = "num"       -> writeBE(T.w, v)
        [] T.k = "bool"      -> <<IF v THEN 1 ELSE 0>>
        [] T.k = "uvar"      -> encodeUnsignedVarint[v]
        [] T.k = "ivar"      -> encodeSignedVarint(v)
        [] T.k \in {"tuple", "array"} -> bytes
        [] T.k = "container" -> encodeUnsignedVarint[Len(v)] \o bytes
        [] T.k = "optional"  -> <<Len(v)>> \o bytes

\* What F, a function of types and of their values, gives for the parts of v.
OfParts(F, T, v) ==
  IF isMadeOfParts(T) THEN [i \in 1..Len(v) |-> F[PartOf(T, i)][v[i]]] ELSE <<>>

\* The compiler makes the overloads for a type from those for its parts.
Writers ==
  LET W[T \in Types] ==
        [v \in ValuesOf(T) |->
           LET parts == OfParts(W, T, v)
           IN  [size |-> getSize(T, v, parts), bytes |-> writeToBuf(T, v, parts)]]
  IN  W

\* A reader takes the size of a container for a number of bytes that must remain,
\* which does not allow for values without bytes, such as empty tuples.
ElementsTakeBytes ==
  \A T \in Types : T.k = "container" /\ ~isArithmetic(T.t) =>
    \A v \in ValuesOf(T.t) : Writers[T.t][v].bytes # <<>>

\* The writers' own assertions hold: no value takes more bytes than it counts.
WrittenBytes(p, args) ==
  <<p.code>> \o Joined([i \in DOMAIN args |-> Writers[p.args[i]][args[i]].bytes])
BufferSize(p, args) ==
  1 + Total([i \in DOMAIN args |-> Writers[p.args[i]][args[i]].size])

-----------------------------------------------------------------------------
(* Reading: the bytes from at on, of which remaining are the message's.  The *)
(* outcome has ok (FALSE for an exception), val, at (the next byte) and     *)
(* last, the last byte that was touched.                                    *)

readBE(data, at, w) == Total([i \in 1..w |-> At(data, at + i - 1) * Place(w - i)])
readHost(data, at, w) == Total([i \in 1..w |-> At(data, at + i - 1) * Place(i - 1)])

Throws(last) == [ok |-> FALSE, last |-> last]
Reads(val, at, last) == [ok |-> TRUE, val |-> val, at |-> at, last |-> last]

NumberOf(T, num) == IF T.k = "bool" THEN num # 0 ELSE num

\* Mutant: the size is not checked.
ReadNumberUnchecked(T, data, at, remaining) ==
  Reads(NumberOf(T, readBE(data, at, sizeOf(T))), at + sizeOf(T), at + sizeOf(T) - 1)

ReadNumber(T, data, at, remaining) ==
  IF remaining < sizeOf(T) THEN Throws(0)
  ELSE Reads(NumberOf(T, readBE(data, at, sizeOf(T))), at + sizeOf(T), at + sizeOf(T) - 1)

ReadVarint(T, data, at, remaining) ==
  LET maxBytes == IF remaining < WordBytes THEN remaining ELSE WordBytes
      r == IF T.k = "uvar" THEN decodeUnsignedVarint(data, at, maxBytes)
                           ELSE decodeSignedVarint(data, at, maxBytes)
  IN  IF r.ok THEN Reads(r.value, at + r.decodedBytes, r.last) ELSE Throws(r.last)

\* A container of numbers is taken from the buffer as it is, in the host's
\* order of bytes.  The product wraps with the word.
ReadNumbers(T, data, at, remaining) ==
  LET size == decodeUnsignedVarint(data, at, remaining)
      w == sizeOf(T)
      bytes == (size.value * w) % Word
      from == at + size.decodedBytes
  IN  IF ~size.ok THEN Throws(size.last)
      ELSE IF remaining - size.decodedBytes < bytes THEN Throws(size.last)
      ELSE Reads([i \in 1..(bytes \div w) |-> NumberOf(T, readHost(data, from + (i - 1) * w, w))],
                 from + bytes, from + bytes - 1)

\* A reader is a function of at, and then of remaining.  The next of them, unless
\* one has thrown:
ReadNext(c, reader, start, remaining) ==
  LET r == reader[c.at][remaining - (c.at - start)]
  IN  IF ~c.ok THEN c
      ELSE IF r.ok THEN Reads(Append(c.val, r.val), r.at, Larger(c.last, r.last))
      ELSE Throws(Larger(c.last, r.last))

\* Values one after the other.
ReadAll(readers, start, remaining) ==
  LET after[i \in 0..Len(readers)] ==
        IF i = 0 THEN Reads(<<>>, start, 0)
        ELSE ReadNext(after[i - 1], readers[i], start, remaining)
  IN  after[Len(readers)]

\* A container of other values: they are counted as one byte each at least.
ReadElements(reader, data, at, remaining) ==
  LET size == decodeUnsignedVarint(data, at, remaining)
  IN  IF ~size.ok THEN Throws(size.last)
      ELSE IF remaining - size.decodedBytes < size.value THEN Throws(size.last)
      ELSE ReadAll([i \in 1..size.value |-> reader], at + size.decodedBytes,
                   remaining - size.decodedBytes)

ReadArray(T, reader, at, remaining) ==
  IF remaining < sizeOf(T.t) * T.n THEN Throws(0)
  ELSE ReadAll([i \in 1..T.n |-> reader], at, remaining)

ReadOptional(reader, data, at, remaining) ==
  LET present == ReadNumber([k |-> "bool"], data, at, remaining)
      r == reader[at + 1][remaining - 1]
  IN  IF ~present.ok THEN present
      ELSE IF ~present.val THEN Reads(<<>>, at + 1, at)
      ELSE IF ~r.ok THEN r
      ELSE Reads(<<r.val>>, r.at, r.last)

\* Which overload takes which type; R has the readers of the type's parts.
readFromBuf(R, T, data, at, remaining) ==
  CASE isArithmetic(T)          -> ReadNumber(T, data, at, remaining)
    [] T.k \in {"uvar", "ivar"} -> ReadVarint(T, data, at, remaining)
    [] T.k = "tuple"            -> ReadAll([i \in DOMAIN T.ts |-> R[T.ts[i]]], at, remaining)
    [] T.k = "container" /\ isArithmetic(T.t)  -> ReadNumbers(T.t, data, at, remaining)
    [] T.k = "container" /\ ~isArithmetic(T.t) -> ReadElements(R[T.t], data, at, remaining)
    [] T.k = "array"            -> ReadArray(T, R[T.t], at, remaining)
    [] T.k = "optional"         -> ReadOptional(R[T.t], data, at, remaining)

\* The compiler makes a reader of each type from those of its parts.
ReadersOf(data) ==
  LET R[T \in Types] ==
        [at \in Int |-> [remaining \in Int |-> readFromBuf(R, T, data, at, remaining)]]
  IN  R

\* From the second byte of data on, behind an opcode.
fromBuffer(args, data, size) ==
  IF /\ \A i \in DOMAIN args : isArithmetic(args[i])
     /\ Total([i \in DOMAIN args |-> sizeOf(args[i])]) # size
  THEN Throws(0)
  ELSE ReadAll([i \in DOMAIN args |-> ReadersOf(data)[args[i]]], 2, size)

PacketsAssumption ==
  /\ TypesAssumption /\ ValuesAssumption
  /\ \A p \in PacketTypes : p.code \in ByteRange /\ p.args \in Seq(Types)
  /\ \A p \in PacketTypes : \A args \in ArgsOf(p) :
       /\ Len(args) = Len(p.args) /\ DOMAIN args = DOMAIN p.args
       /\ \A i \in DOMAIN args : args[i] \in ValuesOf(p.args[i])
  /\ ForeignBytes \subseteq ByteRange /\ MaxForeign \in Nat

-----------------------------------------------------------------------------
PacketsInit ==
  /\ handlers = <<>>
  /\ message = Nothing
  /\ sent = Nothing
  /\ aborted = FALSE
  /\ result = Nothing

\* handlers.emplace(): the first handler of an opcode stays.  One opcode has a
\* handler at a time here (bound).
on(p) ==
  /\ DOMAIN handlers \subseteq {p.code}
  /\ handlers' = [c \in DOMAIN handlers \cup {p.code} |->
                    IF c \in DOMAIN handlers THEN handlers[c] ELSE p]
  /\ UNCHANGED <<message, sent, aborted, result>>

\* assert(written == size): the build does not define NDEBUG.
toBuffer(p, args) ==
  /\ message = Nothing
  /\ sent' = [packet |-> p, args |-> args, into |-> FALSE]
  /\ \/ /\ Len(WrittenBytes(p, args)) = BufferSize(p, args)
        /\ message' = WrittenBytes(p, args)
        /\ UNCHANGED aborted
     \/ /\ Len(WrittenBytes(p, args)) # BufferSize(p, args)
        /\ aborted' = TRUE
        /\ UNCHANGED message
  /\ UNCHANGED <<handlers, result>>

\* The overload for a buffer of the caller's, which is large enough here.
toBufferInto(p, args) ==
  /\ message = Nothing
  /\ message' = WrittenBytes(p, args)
  /\ sent' = [packet |-> p, args |-> args, into |-> TRUE]
  /\ UNCHANGED <<handlers, aborted, result>>

ForeignMessages ==
  LET rests == UNION {[1..n -> ForeignBytes] : n \in 0..MaxForeign}
  IN  UNION {{<<p.code>> \o rest : rest \in rests} : p \in PacketTypes}

\* Any other message: one whose opcode has a handler, as the bytes of the others
\* are not looked at, or the empty one.
Foreign(bytes) ==
  /\ message = Nothing
  /\ bytes # <<>> => bytes[1] \in DOMAIN handlers
  /\ message' = bytes /\ sent' = Nothing
  /\ UNCHANGED <<handlers, aborted, result>>

\* What buf points to: the message, or anything if the message is empty.
Memories == IF message = <<>> THEN ForeignMessages ELSE {message}

\* An exception leaves it.  The size wraps for the empty message.  touched has the
\* last bytes that it and the packet type look at.
read(memory) ==
  /\ message # Nothing /\ result = Nothing
  /\ LET size == IF message = <<>> THEN Word - 1 ELSE Len(message) - 1
         out == fromBuffer(handlers[memory[1]].args, memory, size)
     IN  \/ /\ memory[1] \in DOMAIN handlers
            /\ result' = [handled |-> TRUE, by |-> handlers[memory[1]], out |-> out,
                          touched |-> {1, out.last}]
         \/ /\ memory[1] \notin DOMAIN handlers
            /\ result' = [handled |-> FALSE, touched |-> {1}]
  /\ UNCHANGED <<handlers, message, sent, aborted>>

Done ==
  /\ result # Nothing
  /\ message' = Nothing /\ sent' = Nothing /\ result' = Nothing
  /\ UNCHANGED <<handlers, aborted>>

PacketsNext ==
  /\ ~aborted
  /\ \/ \E p \in PacketTypes :
          on(p) \/ \E args \in ArgsOf(p) : toBuffer(p, args) \/ toBufferInto(p, args)
     \/ message = Nothing /\ \E bytes \in {<<>>} \cup ForeignMessages : Foreign(bytes)
     \/ \E memory \in Memories : read(memory)
     \/ Done

PacketsSpec == PacketsInit /\ [][PacketsNext]_packetVars

-----------------------------------------------------------------------------
(* Properties *)

\* What the reader can take: a varint of a value that needs more groups than
\* its type has bytes is refused.
Readable(T, v, parts) ==
  CASE T.k = "uvar" -> unsignedVarintSize[v] <= WordBytes
    [] T.k = "ivar" -> signedVarintSize(v) <= WordBytes
    [] OTHER        -> \A i \in DOMAIN parts : parts[i].readable

Swapped(w, num) == readHost(writeBE(w, num), 1, w)

\* What it makes of it: the numbers of a container have their bytes swapped.
Received(T, v, parts) ==
  IF T.k = "container" /\ T.t.k = "num" THEN [i \in DOMAIN parts |-> Swapped(T.t.w, v[i])]
  ELSE IF isMadeOfParts(T) THEN [i \in DOMAIN parts |-> parts[i].received]
  ELSE v

Expected ==
  LET E[T \in Types] ==
        [v \in ValuesOf(T) |->
           LET parts == OfParts(E, T, v)
           IN  [readable |-> Readable(T, v, parts), received |-> Received(T, v, parts)]]
  IN  E

\* A std::array is in the value somewhere.
HoldsArray ==
  LET A[T \in Types] ==
        [v \in ValuesOf(T) |->
           LET parts == OfParts(A, T, v) IN T.k = "array" \/ \E i \in DOMAIN parts : parts[i]]
  IN  A

\* A packet with a std::array in its values ends the program in the overloads of
\* toBuffer() that make the buffer, and no other packet does.  A packet that its
\* own type reads comes back as it was sent, in so far as it is readable at all,
\* apart from the bytes of numbers in containers.
PacketsRoundTrip ==
  sent # Nothing =>
    LET expected == [i \in DOMAIN sent.args |-> Expected[sent.packet.args[i]][sent.args[i]]]
        arrays == \E i \in DOMAIN sent.args : HoldsArray[sent.packet.args[i]][sent.args[i]]
    IN  /\ aborted <=> arrays /\ ~sent.into
        /\ result # Nothing /\ result.handled /\ result.by = sent.packet =>
             /\ result.out.ok <=> \A i \in DOMAIN expected : expected[i].readable
             /\ result.out.ok => result.out.val = [i \in DOMAIN expected |-> expected[i].received]

\* Whatever a message holds, and whichever packet type it is read as, no byte
\* behind it is touched, neither by what is returned nor before an exception; but
\* the opcode of the empty message is read behind it.
ReadsInside ==
  result # Nothing =>
    /\ (\A i \in result.touched : i <= Len(message)) <=> message # <<>>
    /\ message # <<>> /\ result.handled /\ result.out.ok => result.out.at <= Len(message) + 1
=============================================================================
