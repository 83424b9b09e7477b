----------------------------- MODULE MCLibrary -----------------------------
(***************************************************************************)
(* The parts of the library that stand alone, in one specification: a      *)
(* behaviour is one of one part, chosen at its beginning, while the others *)
(* stay as they begin.  Its states are those of the parts added up.        *)
(***************************************************************************)
EXTENDS Coroutines, IdSys, MultiStopSource, Bucket, RestApis, Packets, Rle, PropertyReader,
        PngImage

CONSTANTS
  t1, t2, t3, Main, Worker,                         \* Tasks and Threads
  s1, s2, s3,                                       \* Tokens
  r1, r2,                                           \* Readers
  p1, p2, p3, g1, g3, i1,                           \* Checks and Ips
  a, b                                              \* Items

VARIABLE part

\* A key that must be escaped, values that are lines, and a file that a
\* program may have found.
MCChars == {"\n", "\\", "n", " ", "v", "w"}
MCKeys == {<<"\\">>}
MCValues == {<<>>, <<"\n", " ", "\\", "n">>, <<"w">>}
MCFirstFiles ==
  {NoFile, <<"\\", "\\", " ", "v", "\n", "n", "\n", "\n", "\\", "\\", " ", "w">>}

-----------------------------------------------------------------------------
Num(w) == [k |-> "num", w |-> w]
Bool == [k |-> "bool"]
UVar == [k |-> "uvar"]
IVar == [k |-> "ivar"]
Tuple(ts) == [k |-> "tuple", ts |-> ts]
ContainerOf(t) == [k |-> "container", t |-> t]
ArrayOf(n, t) == [k |-> "array", n |-> n, t |-> t]
OptionalOf(t) == [k |-> "optional", t |-> t]

\* Some of them share an opcode, as those of two versions of a program may.
MCPacketTypes == {
  [code |-> 1, args |-> <<Num(2), Bool>>],
  [code |-> 1, args |-> <<UVar, IVar>>],
  [code |-> 2, args |-> <<ContainerOf(Num(2))>>],
  [code |-> 3, args |-> <<ContainerOf(Num(1)), OptionalOf(UVar)>>],
  [code |-> 4, args |-> <<OptionalOf(ArrayOf(2, Num(2))), Num(1)>>],
  [code |-> 5, args |-> <<ContainerOf(ContainerOf(Num(1)))>>],
  [code |-> 5, args |-> <<ContainerOf(Tuple(<<OptionalOf(Num(1)), Bool>>)), IVar>>]}

\* Values at the limits of the varints' groups; words have six bits.
RECURSIVE MCValuesOf(_), Product(_)
MCValuesOf(T) ==
  CASE T.k = "num" -> IF T.w = 1 THEN {0, 5} ELSE {0, 10, 63}
    [] T.k = "bool" -> BOOLEAN
    [] T.k = "uvar" -> {0, 3, 4, 15, 16, 63}
    [] T.k = "ivar" -> {-32, -9, -8, 0, 7, 8, 31}
    [] T.k = "tuple" -> Product(T.ts)
    [] T.k = "container" -> SeqOf(MCValuesOf(T.t), 2)
    [] T.k = "optional" -> SeqOf(MCValuesOf(T.t), 1)
    [] T.k = "array" -> [1..T.n -> MCValuesOf(T.t)]
Product(ts) ==
  IF ts = <<>> THEN {<<>>}
  ELSE {<<x>> \o y : x \in MCValuesOf(Head(ts)), y \in Product(Tail(ts))}

\* The types that arguments have, and those of their parts.
RECURSIVE WithParts(_), MCNesting(_)
WithParts(T) == {T} \cup UNION {WithParts(U) : U \in PartsOf(T)}
MCNesting(T) == Max({0} \cup {MCNesting(U) + 1 : U \in PartsOf(T)})

MCTypes == UNION {UNION {WithParts(p.args[k]) : k \in DOMAIN p.args} : p \in MCPacketTypes}

MCArgsOf(p) == Product(p.args)

-----------------------------------------------------------------------------
Ink == <<9, 8, 7, 255>>
Block(w, h, chans) ==
  [w |-> w, h |-> h, chans |-> chans, data |-> [k \in 1..(w * h * chans) |-> Ink[((k - 1) % chans) + 1]]]
WithHole == [Block(2, 2, 4) EXCEPT !.data = [k \in 1..16 |-> IF k \in 5..8 THEN 0 ELSE @[k]]]

MCWrap == 32
MCInks == {<<0, 0, 0, 0>>, Ink}
MCStamps == {Block(1, 2, 3), WithHole}
MCExtents == [dst : 0..1, src : 0..1, size : {1, 2, MCWrap - 1}]
MCOffsets == {-1, 0, 1}

ASSUME PartsAssumption ==
  /\ ReadersAssumption
  /\ BucketAssumption
  /\ ChecksAssumption
  /\ PacketsAssumption
  /\ ElementsTakeBytes
  /\ RleAssumption
  /\ PngAssumption

-----------------------------------------------------------------------------
\* The part p goes on, and no other.
Only(p) ==
  /\ part = p
  /\ UNCHANGED part
  /\ IF p # "coroutines"    THEN UNCHANGED vars ELSE TRUE
  /\ IF p # "identifiers"   THEN UNCHANGED idSysVars ELSE TRUE
  /\ IF p # "stop source"   THEN UNCHANGED multiStopVars ELSE TRUE
  /\ IF p # "properties"    THEN UNCHANGED rdrVars ELSE TRUE
  /\ IF p # "bucket"        THEN UNCHANGED limiterVars ELSE TRUE
  /\ IF p # "rest apis"     THEN UNCHANGED apiVars ELSE TRUE
  /\ IF p # "packets"       THEN UNCHANGED packetVars ELSE TRUE
  /\ IF p # "rle"           THEN UNCHANGED rleVars ELSE TRUE
  /\ IF p # "image"         THEN UNCHANGED imageVars ELSE TRUE

\* Parts that may begin in several ways begin in one of them where they rest.
LibraryInit ==
  /\ part \in {"coroutines", "identifiers", "stop source", "properties", "bucket", "rest apis",
               "packets", "rle", "image"}
  /\ Init /\ IdSysInit /\ MultiStopInit
  /\ RdrInit
  /\ part # "properties" => file = NoFile
  /\ BucketInit
  /\ part # "bucket" => rate = 0 /\ per = 1 /\ allowance = 0
  /\ RestApisInit
  /\ PacketsInit
  /\ RleInit
  /\ PngInit
  /\ part # "image" => stamp = WithHole

\* t1 and t2 are alike, and so are the threads: it is enough to look at t1 called
\* before t2, and at the first call in Main.
CalledInOrder ==
  /\ frame'[t2] # "none" => frame'[t1] # "none"
  /\ (\A t \in Tasks : frame[t] = "none") => top'[Worker] = Worker

LibraryNext ==
  \/ Only("coroutines")  /\ Next /\ CalledInOrder
  \/ Only("identifiers") /\ IdSysNext
  \/ Only("stop source") /\ MultiStopNext
  \/ Only("properties")  /\ RdrNext
  \/ Only("bucket")      /\ BucketNext
  \/ Only("rest apis")   /\ RestApisNext
  \/ Only("packets")     /\ PacketsNext
  \/ Only("rle")         /\ RleNext
  \/ Only("image")       /\ PngNext

\* Fairness is the coroutines'.
LibrarySpec ==
  LibraryInit /\ [][LibraryNext]_<<part, vars, idSysVars, multiStopVars, rdrVars, limiterVars,
                                   apiVars, packetVars, rleVars, imageVars>> /\ Fairness

=============================================================================
