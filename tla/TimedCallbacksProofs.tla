------------------------ MODULE TimedCallbacksProofs ------------------------
(***************************************************************************)
(* What holds of TimedCallbacks for any number of timers and holders, any  *)
(* intervals and whatever callbacks do.                                    *)
(***************************************************************************)
EXTENDS TimedCallbacks, SequenceTheorems, TLAPS

(* Vectors *)

\* What erasing one element leaves.
LEMMA Erased ==
  ASSUME NEW S, NEW v \in Seq(S), NEW i \in 1..Len(v)
  PROVE  /\ RemoveAt(v, i) \in Seq(S)
         /\ Len(RemoveAt(v, i)) = Len(v) - 1
         /\ \A k \in 1..(Len(v) - 1) : RemoveAt(v, i)[k] = IF k < i THEN v[k] ELSE v[k + 1]
<1> DEFINE a == SubSeq(v, 1, i - 1)
           b == SubSeq(v, i + 1, Len(v))
<1>1. Len(v) \in Nat /\ i \in Nat
  BY LenProperties
<1>2. a \in Seq(S) /\ Len(a) = i - 1 /\ \A k \in 1..(i - 1) : a[k] = v[k]
  BY <1>1, SubSeqProperties
<1>3. b \in Seq(S) /\ Len(b) = Len(v) - i /\ \A k \in 1..(Len(v) - i) : b[k] = v[i + k]
  BY <1>1, SubSeqProperties
<1>4. RemoveAt(v, i) = a \o b
  BY DEF RemoveAt
<1> HIDE DEF a, b
<1>5. /\ a \o b \in Seq(S) /\ Len(a \o b) = Len(v) - 1
      /\ \A k \in 1..(Len(v) - 1) : (a \o b)[k] = IF k <= i - 1 THEN a[k] ELSE b[k - (i - 1)]
  <2>1. /\ a \o b \in Seq(S) /\ Len(a \o b) = Len(a) + Len(b)
        /\ \A k \in 1..(Len(a) + Len(b)) :
             (a \o b)[k] = IF k <= Len(a) THEN a[k] ELSE b[k - Len(a)]
    BY <1>2, <1>3, ConcatProperties
  <2>2. Len(a) + Len(b) = Len(v) - 1
    BY <1>1, <1>2, <1>3
  <2> QED BY <1>2, <2>1, <2>2
<1>6. \A k \in 1..(Len(v) - 1) : (a \o b)[k] = IF k < i THEN v[k] ELSE v[k + 1]
  <2> TAKE k \in 1..(Len(v) - 1)
  <2>1. CASE k < i
    BY <1>1, <1>2, <1>5, <2>1
  <2>2. CASE k >= i
    <3>1. k - (i - 1) \in 1..(Len(v) - i) /\ i + (k - (i - 1)) = k + 1
      BY <1>1, <2>2
    <3> QED BY <1>1, <1>3, <1>5, <2>2, <3>1
  <2>3. k < i \/ k >= i
    BY <1>1
  <2> QED BY <2>1, <2>2, <2>3
<1> QED BY <1>4, <1>5, <1>6

\* What replacing one element leaves.
LEMMA Replaced ==
  ASSUME NEW S, NEW v \in Seq(S), NEW i \in 1..Len(v), NEW e \in S
  PROVE  /\ ReplaceAt(v, i, e) \in Seq(S)
         /\ Len(ReplaceAt(v, i, e)) = Len(v)
         /\ \A k \in 1..Len(v) : ReplaceAt(v, i, e)[k] = IF k = i THEN e ELSE v[k]
BY DEF ReplaceAt

\* What destroying the last element leaves.
LEMMA Shortened ==
  ASSUME NEW S, NEW v \in Seq(S), Len(v) > 0
  PROVE  /\ Front(v) \in Seq(S)
         /\ Len(Front(v)) = Len(v) - 1
         /\ \A k \in 1..(Len(v) - 1) : Front(v)[k] = v[k]
<1>1. Len(v) \in Nat
  BY LenProperties
<1>2. /\ SubSeq(v, 1, Len(v) - 1) \in Seq(S)
      /\ Len(SubSeq(v, 1, Len(v) - 1)) = Len(v) - 1
      /\ \A k \in 1..(Len(v) - 1) : SubSeq(v, 1, Len(v) - 1)[k] = v[k]
  <2> DEFINE n == Len(v) - 1
  <2>1. n \in Nat /\ \A k \in 1..n : v[k] \in S
    BY <1>1
  <2> HIDE DEF n
  <2>2. /\ SubSeq(v, 1, n) \in Seq(S) /\ Len(SubSeq(v, 1, n)) = n
        /\ \A k \in 1..n : SubSeq(v, 1, n)[k] = v[k]
    BY <2>1, SubSeqProperties
  <2> QED BY <2>2 DEF n
<1> QED BY <1>2 DEF Front

\* Elements that differ in their tokens only.
Same(d, e) == /\ d.timer = e.timer /\ d.interval = e.interval
              /\ d.next = e.next /\ d.paused = e.paused

\* The elements of w are different ones of v, apart from their tokens.
Embeds(w, v) ==
  \E f \in [1..Len(w) -> 1..Len(v)] :
    /\ \A k, l \in 1..Len(w) : f[k] = f[l] => k = l
    /\ \A k \in 1..Len(w) : Same(w[k], v[f[k]])

\* Erasing embeds.
LEMMA ErasedEmbeds ==
  ASSUME NEW v \in Seq(Elements), NEW i \in 1..Len(v)
  PROVE  Embeds(RemoveAt(v, i), v)
<1> DEFINE f == [k \in 1..(Len(v) - 1) |-> IF k < i THEN k ELSE k + 1]
<1>1. f \in [1..(Len(v) - 1) -> 1..Len(v)]
  OBVIOUS
<1>2. \A k, l \in 1..(Len(v) - 1) : f[k] = f[l] => k = l
  OBVIOUS
<1>3. \A k \in 1..(Len(v) - 1) : RemoveAt(v, i)[k] = v[f[k]]
  BY Erased
<1>4. Len(RemoveAt(v, i)) = Len(v) - 1
  BY Erased
<1> HIDE DEF f
<1> QED BY <1>1, <1>2, <1>3, <1>4 DEF Embeds, Same

\* So does destroying the last element.
LEMMA ShortenedEmbeds ==
  ASSUME NEW v \in Seq(Elements), Len(v) > 0
  PROVE  Embeds(Front(v), v)
<1> DEFINE f == [k \in 1..(Len(v) - 1) |-> k]
<1>1. f \in [1..(Len(v) - 1) -> 1..Len(v)]
  OBVIOUS
<1>2. \A k, l \in 1..(Len(v) - 1) : f[k] = f[l] => k = l
  OBVIOUS
<1>3. \A k \in 1..(Len(v) - 1) : Front(v)[k] = v[f[k]]
  BY Shortened
<1>4. Len(Front(v)) = Len(v) - 1
  BY Shortened
<1> HIDE DEF f
<1> QED BY <1>1, <1>2, <1>3, <1>4 DEF Embeds, Same

\* A vector of which only one token is another embeds.
LEMMA RetokenedEmbeds ==
  ASSUME NEW v \in Seq(Elements), NEW i \in 1..Len(v), NEW h \in Holders
  PROVE  /\ [v[i] EXCEPT !.token = h] \in Elements
         /\ Embeds(ReplaceAt(v, i, [v[i] EXCEPT !.token = h]), v)
<1> DEFINE e == [v[i] EXCEPT !.token = h]
           f == [k \in 1..Len(v) |-> k]
           w == ReplaceAt(v, i, e)
<1>1. v[i] \in Elements
  OBVIOUS
<1>2. e \in Elements /\ Same(e, v[i])
  BY <1>1 DEF Elements, Same
<1>3. f \in [1..Len(v) -> 1..Len(v)] /\ \A k \in 1..Len(v) : f[k] = k
  OBVIOUS
<1> HIDE DEF e, f
<1>4. Len(w) = Len(v) /\ \A k \in 1..Len(v) : w[k] = IF k = i THEN e ELSE v[k]
  BY <1>2, Replaced
<1> HIDE DEF w
<1>5. \A k \in 1..Len(v) : Same(w[k], v[f[k]])
  BY <1>2, <1>3, <1>4 DEF Same
<1>6. Embeds(w, v)
  BY <1>3, <1>4, <1>5 DEF Embeds
<1> QED BY <1>2, <1>6 DEF e, w

\* Embedding is reflexive.
LEMMA EmbedsItself ==
  ASSUME NEW v \in Seq(Elements) PROVE Embeds(v, v)
<1> DEFINE f == [k \in 1..Len(v) |-> k]
<1>1. f \in [1..Len(v) -> 1..Len(v)] /\ \A k \in 1..Len(v) : f[k] = k
  OBVIOUS
<1> HIDE DEF f
<1> QED BY <1>1 DEF Embeds, Same

\* Embedding is transitive.
LEMMA EmbedsTransitive ==
  ASSUME NEW u, NEW v, NEW w, Embeds(w, v), Embeds(v, u)
  PROVE  Embeds(w, u)
<1>1. PICK f \in [1..Len(w) -> 1..Len(v)] :
    /\ \A k, l \in 1..Len(w) : f[k] = f[l] => k = l
    /\ \A k \in 1..Len(w) : Same(w[k], v[f[k]])
  BY DEF Embeds
<1>2. PICK g \in [1..Len(v) -> 1..Len(u)] :
    /\ \A k, l \in 1..Len(v) : g[k] = g[l] => k = l
    /\ \A k \in 1..Len(v) : Same(v[k], u[g[k]])
  BY DEF Embeds
<1> DEFINE j == [k \in 1..Len(w) |-> g[f[k]]]
<1>3. j \in [1..Len(w) -> 1..Len(u)]
  BY <1>1, <1>2
<1>4. \A k \in 1..Len(w) : j[k] = g[f[k]] /\ f[k] \in 1..Len(v)
  BY <1>1
<1> HIDE DEF j
<1>5. \A k, l \in 1..Len(w) : j[k] = j[l] => k = l
  BY <1>1, <1>2, <1>4
<1>6. \A k \in 1..Len(w) : Same(w[k], u[j[k]])
  <2> TAKE k \in 1..Len(w)
  <2>1. Same(w[k], v[f[k]]) /\ Same(v[f[k]], u[g[f[k]]]) /\ j[k] = g[f[k]]
    BY <1>1, <1>2, <1>4
  <2> QED BY <2>1 DEF Same
<1> QED BY <1>3, <1>5, <1>6 DEF Embeds
-----------------------------------------------------------------------------
(* Invariants *)

\* The timers in a vector are different, and were started.
DistinctTimers(v) ==
  \A j, k \in 1..Len(v) : j # k => v[j].timer # v[k].timer

StartedTimers(v) == \A k \in 1..Len(v) : v[k].timer \in started

\* What counts and times say of each other.
Times ==
  /\ \A t \in Timers \ started : calls[t] = 0 /\ burst[t] = 0
  /\ \A t \in started : born[t] <= clock
  /\ fireTime <= clock

TimersInv ==
  /\ TypeOK
  /\ StartedTimers(runningTimers)
  /\ Times
  /\ pc \in {"loop", "callback"} => pos >= 1

\* The next call comes an interval after what all calls so far take.
RateOf(e) ==
  /\ Interval[e.timer] <= e.interval
  /\ born[e.timer] + (calls[e.timer] + 1) * Interval[e.timer] <= e.next

RateInv == RateBound /\ \A k \in 1..Size : RateOf(runningTimers[k])

\* Each call at one time brings the next one nearer to the present.
BurstOf(e) ==
  /\ burst[e.timer] = 1 => clock - 2 * e.interval <= e.next
  /\ burst[e.timer] = 2 => clock - e.interval <= e.next
  /\ burst[e.timer] = 3 => clock <= e.next
  /\ burst[e.timer] = 4 => clock < e.next

BurstInv == AtMostTwoMissed /\ \A k \in 1..Size : BurstOf(runningTimers[k])

-----------------------------------------------------------------------------
(* What operations on tokens do to the vector *)

\* The vector and the iterators are some, and no timer is new or changed.
Rearranged(v, i) ==
  /\ v \in Seq(Elements) /\ Len(v) <= Size
  /\ Embeds(v, runningTimers)
  /\ i \in [Holders -> Nat]

\* What embeds in distinct started timers is such.
LEMMA RearrangedTimers ==
  ASSUME TypeOK, StartedTimers(runningTimers), NEW v, NEW i, Rearranged(v, i)
  PROVE  DistinctTimers(v) /\ StartedTimers(v)
<1>1. PICK f \in [1..Len(v) -> 1..Size] :
    /\ \A k, l \in 1..Len(v) : f[k] = f[l] => k = l
    /\ \A k \in 1..Len(v) : Same(v[k], runningTimers[f[k]])
  BY DEF Rearranged, Embeds, Size
<1>2. \A k \in 1..Len(v) : f[k] \in 1..Size /\ v[k].timer = runningTimers[f[k]].timer
  BY <1>1 DEF Same
<1>3. \A j, k \in 1..Size : j # k => runningTimers[j].timer # runningTimers[k].timer
  BY DEF TypeOK, Size
<1>4. \A k \in 1..Size : runningTimers[k].timer \in started
  BY DEF StartedTimers, Size
<1>5. ASSUME NEW j \in 1..Len(v), NEW k \in 1..Len(v), j # k
      PROVE  v[j].timer # v[k].timer
  <2>1. f[j] # f[k] /\ f[j] \in 1..Size /\ f[k] \in 1..Size
    BY <1>1, <1>5
  <2> QED BY <1>2, <1>3, <2>1
<1>6. ASSUME NEW k \in 1..Len(v) PROVE v[k].timer \in started
  BY <1>2, <1>4
<1> QED BY <1>5, <1>6 DEF DistinctTimers, StartedTimers

\* Tokens that are told where they are have positions.
LEMMA UpdatedType ==
  ASSUME NEW v \in Seq(Elements), NEW i \in [Holders -> Nat]
  PROVE  updateTokens(v, i) \in [Holders -> Nat]
<1>1. ASSUME NEW h \in Holders, \E k \in DOMAIN v : v[k].token = h
      PROVE  (CHOOSE k \in DOMAIN v : v[k].token = h) \in Nat
  BY <1>1
<1> QED BY <1>1 DEF updateTokens

\* The vector without a timer.
LEMMA WithoutRearranges ==
  ASSUME TypeOK, NEW h \in Holders, it[h] <= Size
  PROVE  Rearranged(Without(h), it)
<1>1. it \in [Holders -> Nat] /\ it[h] \in Nat /\ runningTimers \in Seq(Elements)
  BY DEF TypeOK
<1>2. CASE it[h] = 0
  BY <1>1, <1>2, EmbedsItself DEF Without, Rearranged, Size
<1>3. CASE it[h] # 0
  <2>1. it[h] \in 1..Len(runningTimers)
    BY <1>1, <1>3 DEF Size
  <2> QED BY <1>1, <1>3, <2>1, Erased, ErasedEmbeds DEF Without, Rearranged, Size
<1> QED BY <1>2, <1>3

\* A token is reset.
LEMMA ResetRearranges ==
  ASSUME TypeOK, NEW h \in Holders, it[h] # 0, it[h] <= Size, Reset(h)
  PROVE  Rearranged(runningTimers', it')
<1>1. Without(h) = RemoveAt(runningTimers, it[h])
  BY DEF Without
<1>2. Rearranged(Without(h), it)
  BY WithoutRearranges
<1>3. updateTokens(Without(h), it) \in [Holders -> Nat]
  BY <1>2, UpdatedType DEF Rearranged
<1> QED BY <1>1, <1>2, <1>3 DEF Reset, Rearranged

\* A token is moved to another holder.
LEMMA MoveRearranges ==
  ASSUME TypeOK, NEW h \in Holders, NEW g \in Holders, g # h, it[h] # 0, it[g] <= Size,
         Move(h, g)
  PROVE  Rearranged(runningTimers', it')
<1> DEFINE v == Without(g)
           u == updateTokens(v, it)
           i == u[h]
<1>1. Rearranged(v, it)
  BY WithoutRearranges
<1>2. v \in Seq(Elements) /\ u \in [Holders -> Nat] /\ Len(v) <= Size /\ Embeds(v, runningTimers)
  BY <1>1, UpdatedType DEF Rearranged
<1>3. i \in 1..Len(v)
  <2>1. i # 0
    <3>1. CASE \E k \in DOMAIN v : v[k].token = h
      <4>1. DOMAIN v = 1..Len(v)
        BY <1>2
      <4>2. i = CHOOSE k \in DOMAIN v : v[k].token = h
        BY <3>1 DEF updateTokens
      <4>3. i \in DOMAIN v
        BY <3>1, <4>2
      <4> QED BY <1>2, <4>1, <4>3
    <3>2. CASE ~ \E k \in DOMAIN v : v[k].token = h
      BY <3>2 DEF updateTokens
    <3> QED BY <3>1, <3>2
  <2>2. i <= Len(v)
    BY DEF Move
  <2> QED BY <1>2, <2>1, <2>2
<1>4. /\ runningTimers' = ReplaceAt(v, i, [v[i] EXCEPT !.token = g])
      /\ it' = [u EXCEPT ![g] = i, ![h] = 0]
  BY DEF Move
<1> HIDE DEF v, u
<1>5. [v[i] EXCEPT !.token = g] \in Elements /\ Embeds(runningTimers', v)
  BY <1>2, <1>3, <1>4, RetokenedEmbeds
<1>6. runningTimers' \in Seq(Elements) /\ Len(runningTimers') = Len(v)
  BY <1>2, <1>3, <1>4, <1>5, Replaced
<1>7. Embeds(runningTimers', runningTimers)
  BY <1>2, <1>5, EmbedsTransitive
<1>8. it' \in [Holders -> Nat]
  BY <1>2, <1>3, <1>4
<1> QED BY <1>2, <1>6, <1>7, <1>8 DEF Rearranged

\* A timer expires, and perhaps the next one goes with it.
LEMMA EraseRearranges ==
  ASSUME TypeOK, pos >= 1, EraseExpired(pos)
  PROVE  Rearranged(runningTimers', it')
<1>1. runningTimers \in Seq(Elements) /\ it \in [Holders -> Nat] /\ pos \in Nat /\ Size \in Nat
  BY DEF TypeOK, Size
<1>2. CASE pos = Size /\ EraseLast
  BY <1>1, <1>2, Shortened, ShortenedEmbeds DEF EraseLast, Rearranged, Size
<1>3. CASE pos < Size /\ EraseOverwriting(pos)
  <2> DEFINE v == RemoveAt(runningTimers, pos)
             w == RemoveAt(v, pos)
  <2>1. pos \in 1..Len(runningTimers)
    BY <1>1, <1>3 DEF Size
  <2>2. v \in Seq(Elements) /\ Len(v) = Size - 1 /\ Embeds(v, runningTimers)
    BY <1>1, <2>1, Erased, ErasedEmbeds DEF Size
  <2> HIDE DEF v
  <2>3. pos \in 1..Len(v)
    BY <1>1, <1>3, <2>2
  <2>4. w \in Seq(Elements) /\ Len(w) = Size - 2 /\ Embeds(w, v)
    BY <1>1, <2>2, <2>3, Erased, ErasedEmbeds
  <2> HIDE DEF w
  <2>5. Embeds(w, runningTimers)
    BY <2>2, <2>4, EmbedsTransitive
  <2>6. updateTokens(w, it) \in [Holders -> Nat]
    BY <1>1, <2>4, UpdatedType
  <2>7. runningTimers' = w /\ it' \in [Holders -> Nat]
    BY <1>1, <1>3, <2>6 DEF EraseOverwriting, v, w
  <2> QED BY <1>1, <2>4, <2>5, <2>7 DEF Rearranged
<1> QED BY <1>2, <1>3 DEF EraseExpired

\* All timers are cleared.
LEMMA ClearRearranges ==
  ASSUME TypeOK, runningTimers' = <<>>,
         it' = [h \in Holders |-> IF \E k \in 1..Size : runningTimers[k].token = h
                                  THEN 0 ELSE it[h]]
  PROVE  Rearranged(runningTimers', it')
<1> DEFINE f == [k \in 1..0 |-> 0]
<1>1. f \in [1..0 -> 1..Size] /\ ~ \E k \in 1..0 : TRUE
  OBVIOUS
<1>2. Len(<<>>) = 0 /\ <<>> \in Seq(Elements)
  OBVIOUS
<1> HIDE DEF f
<1>3. Embeds(<<>>, runningTimers)
  <2> SUFFICES \E g \in [1..0 -> 1..Size] :
         /\ \A k, l \in 1..0 : g[k] = g[l] => k = l
         /\ \A k \in 1..0 : Same(<<>>[k], runningTimers[g[k]])
    BY <1>2 DEF Embeds, Size
  <2>1. /\ \A k, l \in 1..0 : f[k] = f[l] => k = l
        /\ \A k \in 1..0 : Same(<<>>[k], runningTimers[f[k]])
    BY <1>1
  <2> QED BY <1>1, <2>1
<1> QED BY <1>2, <1>3 DEF Rearranged, TypeOK, Size

-----------------------------------------------------------------------------
(* Types *)

\* A step that rearranges the vector at most keeps the types.
LEMMA RearrangedKeeps ==
  ASSUME TimersInv, Rearranged(runningTimers', it'),
         UNCHANGED <<capacity, clock, started, countVars>>,
         pc' \in {"idle", "loop", "callback", "undefined"}, pos' \in Nat,
         pc' \in {"loop", "callback"} => pos' >= 1,
         fireTime' \in Nat, fireTime' <= clock
  PROVE  TimersInv'
<1>1. DistinctTimers(runningTimers') /\ StartedTimers(runningTimers')
  BY RearrangedTimers DEF TimersInv
<1>2. /\ runningTimers' \in Seq(Elements) /\ Len(runningTimers') <= Size
      /\ it' \in [Holders -> Nat]
  BY DEF Rearranged
<1>3. \A j, k \in DOMAIN runningTimers' : j # k => runningTimers'[j].timer # runningTimers'[k].timer
  BY <1>1, <1>2 DEF DistinctTimers
<1>4. Size' <= capacity'
  BY <1>2 DEF TimersInv, TypeOK, Size
<1>5. TypeOK'
  BY <1>2, <1>3, <1>4 DEF TimersInv, TypeOK, countVars
<1>6. Times' /\ StartedTimers(runningTimers)'
  BY <1>1 DEF TimersInv, Times, countVars, StartedTimers
<1> QED BY <1>5, <1>6 DEF TimersInv

\* So does one that leaves it alone.
LEMMA StillKeeps ==
  ASSUME TimersInv, UNCHANGED tokenVars,
         UNCHANGED <<capacity, clock, started, countVars>>,
         pc' \in {"idle", "loop", "callback", "undefined"}, pos' \in Nat,
         pc' \in {"loop", "callback"} => pos' >= 1,
         fireTime' \in Nat, fireTime' <= clock
  PROVE  TimersInv'
<1>1. Rearranged(runningTimers, it)
  BY EmbedsItself DEF TimersInv, TypeOK, Rearranged, Size
<1>2. Rearranged(runningTimers', it')
  BY <1>1 DEF tokenVars
<1> QED BY <1>2, RearrangedKeeps

\* So does one that replaces an element by one with the same timer.
LEMMA AdjustedKeeps ==
  ASSUME TimersInv, NEW i \in 1..Size, NEW e \in Elements, e.timer = runningTimers[i].timer,
         runningTimers' = ReplaceAt(runningTimers, i, e),
         UNCHANGED <<it, capacity, fireTime, clock, started, born>>,
         calls' \in [Timers -> Nat], burst' \in [Timers -> Nat],
         \A t \in Timers \ started : calls'[t] = calls[t] /\ burst'[t] = burst[t],
         pc' \in {"idle", "loop", "callback", "undefined"}, pos' \in Nat,
         pc' \in {"loop", "callback"} => pos' >= 1
  PROVE  TimersInv'
<1>1. /\ runningTimers' \in Seq(Elements) /\ Len(runningTimers') = Size
      /\ \A k \in 1..Size : runningTimers'[k] = IF k = i THEN e ELSE runningTimers[k]
  <2>1. runningTimers \in Seq(Elements) /\ i \in 1..Len(runningTimers)
    BY DEF TimersInv, TypeOK, Size
  <2>2. /\ ReplaceAt(runningTimers, i, e) \in Seq(Elements)
        /\ Len(ReplaceAt(runningTimers, i, e)) = Len(runningTimers)
        /\ \A k \in 1..Len(runningTimers) :
             ReplaceAt(runningTimers, i, e)[k] = IF k = i THEN e ELSE runningTimers[k]
    BY <2>1, ExceptSeq DEF ReplaceAt
  <2> QED BY <2>2 DEF Size
<1>2. \A k \in 1..Size : runningTimers'[k].timer = runningTimers[k].timer
  BY <1>1
<1>3. DOMAIN runningTimers' = 1..Size /\ DOMAIN runningTimers = 1..Size
  BY <1>1 DEF TimersInv, TypeOK, Size
<1>4. \A j, k \in DOMAIN runningTimers' : j # k => runningTimers'[j].timer # runningTimers'[k].timer
  <2>1. \A j, k \in DOMAIN runningTimers : j # k => runningTimers[j].timer # runningTimers[k].timer
    BY DEF TimersInv, TypeOK
  <2> QED BY <1>2, <1>3, <2>1
<1>5. TypeOK'
  BY <1>1, <1>4 DEF TimersInv, TypeOK, Size
<1>6. StartedTimers(runningTimers)'
  BY <1>1, <1>2 DEF TimersInv, StartedTimers, Size
<1>7. Times'
  BY DEF TimersInv, Times
<1> QED BY <1>5, <1>6, <1>7 DEF TimersInv

\* A timer is emplaced.
LEMMA EmplaceKeeps ==
  ASSUME TimersInv, NEW h \in Holders, NEW t \in Timers, t \notin started,
         it[h] <= Size, Emplace(h, t),
         Grow, started' = started \cup {t}, born' = [born EXCEPT ![t] = clock],
         UNCHANGED <<ub, pc, pos, fireTime, clock, calls, burst>>
  PROVE  TimersInv'
<1> DEFINE v == Without(h)
           e == [timer |-> t, token |-> h, interval |-> Interval[t],
                 next |-> clock + Interval[t], paused |-> FALSE]
<1>1. TypeOK /\ StartedTimers(runningTimers)
  BY DEF TimersInv
<1>2. Rearranged(v, it)
  BY <1>1, WithoutRearranges
<1>3. DistinctTimers(v) /\ StartedTimers(v) /\ v \in Seq(Elements) /\ Len(v) <= Size
  BY <1>1, <1>2, RearrangedTimers DEF Rearranged
<1>4. e \in Elements /\ e.timer = t
  BY <1>1, IntervalAssumption DEF Elements, TypeOK
<1>5. runningTimers' = Append(v, e) /\ it' = [updateTokens(Append(v, e), it) EXCEPT ![h] = Len(Append(v, e))]
  BY DEF Emplace
<1> HIDE DEF v, e
<1>6. /\ runningTimers' \in Seq(Elements) /\ Len(runningTimers') = Len(v) + 1
      /\ \A k \in 1..Len(v) : runningTimers'[k] = v[k]
      /\ runningTimers'[Len(v) + 1] = e
  BY <1>3, <1>4, <1>5, AppendProperties
<1>7. it' \in [Holders -> Nat]
  <2>1. Append(v, e) \in Seq(Elements) /\ it \in [Holders -> Nat]
    BY <1>1, <1>5, <1>6 DEF TypeOK
  <2>2. updateTokens(Append(v, e), it) \in [Holders -> Nat]
    BY <2>1, UpdatedType
  <2>3. Len(Append(v, e)) \in Nat
    BY <2>1
  <2> QED BY <1>5, <2>2, <2>3
<1>8. \A k \in 1..Len(v) : runningTimers'[k].timer \in started /\ runningTimers'[k].timer # t
  BY <1>3, <1>6 DEF StartedTimers
<1>9. \A j, k \in DOMAIN runningTimers' : j # k => runningTimers'[j].timer # runningTimers'[k].timer
  <2>1. \A j, k \in 1..Len(v) : j # k => runningTimers'[j].timer # runningTimers'[k].timer
    BY <1>3, <1>6 DEF DistinctTimers
  <2>2. DOMAIN runningTimers' = 1..(Len(v) + 1) /\ Len(v) \in Nat
    BY <1>3, <1>6
  <2> QED BY <1>4, <1>6, <1>8, <2>1, <2>2
<1>10. capacity' \in Nat /\ Size' <= capacity'
  <2>1. Size \in Nat /\ capacity \in Nat /\ Size <= capacity /\ Size' = Len(v) + 1
        /\ Len(v) \in Nat
    BY <1>1, <1>3, <1>6 DEF TypeOK, Size
  <2> QED BY <1>3, <2>1 DEF Grow, Reallocates
<1>11. TypeOK'
  BY <1>1, <1>6, <1>7, <1>9, <1>10 DEF TypeOK
<1>12. StartedTimers(runningTimers)'
  BY <1>3, <1>4, <1>6, <1>8 DEF StartedTimers
<1>13. Times'
  BY <1>1 DEF TimersInv, Times, TypeOK
<1> QED BY <1>11, <1>12, <1>13 DEF TimersInv

\* Every step keeps the types.
LEMMA TimersStep ==
  ASSUME TimersInv, [Next]_vars PROVE TimersInv'
<1>t. TypeOK /\ pos \in Nat /\ fireTime \in Nat /\ fireTime <= clock /\ clock \in Nat
      /\ Size \in Nat /\ runningTimers \in Seq(Elements) /\ it \in [Holders -> Nat]
      /\ calls \in [Timers -> Nat] /\ burst \in [Timers -> Nat]
      /\ (pc \in {"loop", "callback"} => pos >= 1)
      /\ pc \in {"idle", "loop", "callback", "undefined"}
  BY DEF TimersInv, TypeOK, Times, Size
<1>e. ASSUME NEW i \in 1..Size PROVE runningTimers[i] \in Elements
  BY <1>t DEF Size
<1>1. ASSUME NEW h \in Holders, ResetToken(h) PROVE TimersInv'
  <2>1. CASE it[h] <= Size /\ Reset(h) /\ UNCHANGED <<ub, pc>>
    <3>1. Rearranged(runningTimers', it')
      BY <1>t, <1>1, <2>1, ResetRearranges DEF ResetToken
    <3> QED BY <1>t, <1>1, <2>1, <3>1, RearrangedKeeps DEF ResetToken
  <2>2. CASE ResetIsUndefined(h) /\ UNCHANGED tokenVars
    BY <1>t, <1>1, <2>2, StillKeeps DEF ResetToken, ResetIsUndefined, Undefined
  <2> QED BY <1>1, <2>1, <2>2 DEF ResetToken
<1>2. ASSUME NEW h \in Holders, NEW g \in Holders, MoveToken(h, g) PROVE TimersInv'
  <2>1. CASE it[h] <= Size /\ it[g] <= Size /\ Move(h, g) /\ UNCHANGED <<ub, pc>>
    <3>1. Rearranged(runningTimers', it')
      BY <1>t, <1>2, <2>1, MoveRearranges DEF MoveToken
    <3> QED BY <1>t, <1>2, <2>1, <3>1, RearrangedKeeps DEF MoveToken
  <2>2. CASE pc' = "undefined" /\ UNCHANGED tokenVars
    BY <1>t, <1>2, <2>2, StillKeeps DEF MoveToken
  <2> QED BY <1>2, <2>1, <2>2 DEF MoveToken, ResetIsUndefined, Undefined
<1>3. ASSUME NEW h \in Holders, NEW t \in Timers, StartTimer(h, t) PROVE TimersInv'
  <2>1. CASE it[h] <= Size /\ Emplace(h, t) /\ UNCHANGED <<ub, pc>>
    BY <1>3, <2>1, EmplaceKeeps DEF StartTimer
  <2>2. CASE pc' = "undefined" /\ UNCHANGED tokenVars
    <3>1. capacity' \in Nat /\ Size <= capacity'
      BY <1>t, <1>3 DEF StartTimer, Grow, Reallocates, TypeOK
    <3>2. TypeOK'
      BY <1>t, <1>3, <2>2, <3>1 DEF StartTimer, TypeOK, tokenVars, Size
    <3>3. StartedTimers(runningTimers)'
      BY <1>3, <2>2 DEF StartTimer, TimersInv, StartedTimers, tokenVars
    <3>4. Times'
      BY <1>t, <1>3 DEF StartTimer, TimersInv, Times, TypeOK
    <3> QED BY <2>2, <3>2, <3>3, <3>4 DEF TimersInv
  <2> QED BY <1>3, <2>1, <2>2 DEF StartTimer, StartIsUndefined, Undefined
<1>4. ASSUME NEW h \in Holders, NEW e, Adjust(h, e),
             it[h] \in 1..Size => e \in Elements /\ e.timer = runningTimers[it[h]].timer
      PROVE  TimersInv'
  <2>1. CASE it[h] \in 1..Size /\ runningTimers' = ReplaceAt(runningTimers, it[h], e)
             /\ UNCHANGED <<ub, pc>>
    BY <1>t, <1>4, <2>1, AdjustedKeeps DEF Adjust, countVars
  <2>2. CASE it[h] > Size /\ pc' = "undefined" /\ UNCHANGED runningTimers
    BY <1>t, <1>4, <2>2, StillKeeps DEF Adjust, tokenVars
  <2> QED BY <1>4, <2>1, <2>2 DEF Adjust, Undefined
<1>5. ASSUME NEW h \in Holders,
             TokenStop(h) \/ TokenStart(h) \/ TokenAgain(h) \/ \E i \in NewIntervals : TokenStartEvery(h, i)
      PROVE  TimersInv'
  <2>1. CASE TokenStop(h)
    BY <1>4, <1>e, <2>1 DEF TokenStop, Elements
  <2>2. CASE TokenStart(h)
    BY <1>4, <1>e, <2>2 DEF TokenStart, Elements
  <2>3. CASE TokenAgain(h)
    <3> DEFINE e == runningTimers[it[h]]
               d == [e EXCEPT !.paused = FALSE, !.next = clock + e.interval]
    <3>1. ASSUME it[h] \in 1..Size PROVE d \in Elements /\ d.timer = e.timer
      <4>1. e \in Elements
        BY <1>e, <3>1
      <4>2. e.interval \in Nat /\ clock + e.interval \in Int
        BY <1>t, <4>1 DEF Elements
      <4> HIDE DEF e
      <4> QED BY <4>1, <4>2 DEF Elements
    <3>2. Adjust(h, d)
      BY <2>3 DEF TokenAgain
    <3> HIDE DEF d
    <3> QED BY <1>4, <3>1, <3>2
  <2>4. ASSUME NEW i \in NewIntervals, TokenStartEvery(h, i) PROVE TimersInv'
    BY <1>4, <1>e, <2>4, IntervalAssumption DEF TokenStartEvery, Elements
  <2> QED BY <1>5, <2>1, <2>2, <2>3, <2>4
<1>6. CASE clearTimers
  <2>1. CASE /\ runningTimers' = <<>>
             /\ it' = [h \in Holders |-> IF \E k \in 1..Size : runningTimers[k].token = h
                                         THEN 0 ELSE it[h]]
             /\ UNCHANGED <<ub, pc>>
    <3>1. Rearranged(runningTimers', it')
      BY <1>t, <2>1, ClearRearranges
    <3> QED BY <1>t, <1>6, <2>1, <3>1, RearrangedKeeps DEF clearTimers
  <2>2. CASE pc' = "undefined" /\ UNCHANGED tokenVars
    BY <1>t, <1>6, <2>2, StillKeeps DEF clearTimers
  <2> QED BY <1>6, <2>1, <2>2 DEF clearTimers, Undefined
<1>7. CASE Tick
  <2>1. TypeOK'
    BY <1>t, <1>7 DEF Tick, TypeOK, tokenVars, fireVars, Size
  <2>2. StartedTimers(runningTimers)' /\ Times'
    BY <1>t, <1>7 DEF Tick, TimersInv, StartedTimers, Times, tokenVars, fireVars, TypeOK
  <2> QED BY <1>7, <2>1, <2>2 DEF Tick, TimersInv, fireVars
<1>8. CASE fire \/ Skip \/ CallbackGoesOn \/ fireReturns
  BY <1>t, <1>8, StillKeeps DEF fire, Skip, CallbackGoesOn, fireReturns
<1>9. CASE SkipPaused \/ Call
  <2> DEFINE e == runningTimers[pos]
             d == [e EXCEPT !.next = nextTick(e)]
  <2>1. pos \in 1..Size /\ runningTimers' = ReplaceAt(runningTimers, pos, d)
    BY <1>t, <1>9 DEF SkipPaused, Call
  <2>2. e \in Elements
    BY <1>e, <2>1
  <2>3. nextTick(e) \in Int
    <3>1. e.next \in Int /\ e.interval \in Nat
      BY <2>2 DEF Elements
    <3> HIDE DEF e
    <3> QED BY <1>t, <3>1 DEF nextTick
  <2>4. d \in Elements /\ d.timer = e.timer /\ e.timer \in Timers
    BY <2>2, <2>3 DEF Elements
  <2>5. e.timer \in started
    BY <2>1 DEF TimersInv, StartedTimers, Size
  <2> HIDE DEF e, d
  <2>6. calls' \in [Timers -> Nat] /\ burst' \in [Timers -> Nat]
        /\ \A t \in Timers \ started : calls'[t] = calls[t] /\ burst'[t] = burst[t]
    <3>1. CASE UNCHANGED countVars
      BY <1>t, <3>1 DEF countVars
    <3>2. CASE /\ calls' = [calls EXCEPT ![e.timer] = @ + 1]
               /\ burst' = [burst EXCEPT ![e.timer] = @ + (IF fireTime = clock THEN 1 ELSE 0)]
      <4>1. calls[e.timer] + 1 \in Nat /\ burst[e.timer] + (IF fireTime = clock THEN 1 ELSE 0) \in Nat
        BY <1>t, <2>4
      <4> QED BY <1>t, <2>4, <2>5, <3>2, <4>1
    <3> QED BY <1>9, <3>1, <3>2 DEF SkipPaused, Call, e
  <2>7. /\ UNCHANGED <<it, capacity, fireTime, clock, started, born>>
        /\ pc' \in {"loop", "callback"} /\ pos' \in Nat /\ pos' >= 1
    BY <1>t, <1>9 DEF SkipPaused, Call, countVars
  <2>8. d.timer = runningTimers[pos].timer
    BY <2>4 DEF e
  <2> QED BY <2>1, <2>4, <2>6, <2>7, <2>8, AdjustedKeeps
<1>10. CASE CallbackEnds
  <2>1. Rearranged(runningTimers', it')
    BY <1>t, <1>10, EraseRearranges DEF CallbackEnds
  <2> QED BY <1>t, <1>10, <2>1, RearrangedKeeps DEF CallbackEnds
<1>11. CASE UNCHANGED vars
  BY <1>t, <1>11, StillKeeps DEF vars, fireVars
<1> QED BY <1>1, <1>2, <1>3, <1>5, <1>6, <1>7, <1>8, <1>9, <1>10, <1>11 DEF Next

\* The types hold from the beginning.
LEMMA TimersInit == Init => TimersInv
BY DEF Init, TimersInv, TypeOK, Size, StartedTimers, Times

LEMMA TimersInvariant == Spec => []TimersInv
BY TimersInit, TimersStep, PTL DEF Spec

\* The variables have their types, the vector fits its capacity and no timer is
\* in it twice, even when an expired timer takes another one with it
\* (TimedCallbacks.cpp:173-185).
THEOREM TimersTypeCorrect == Spec => []TypeOK
<1>1. TimersInv => TypeOK
  BY DEF TimersInv
<1> QED BY <1>1, TimersInvariant, PTL

-----------------------------------------------------------------------------
(* How often a callback is called *)

\* What a step does to the times of timers: nothing, but some timers may go;
Rearranges ==
  Rearranged(runningTimers', it') /\ UNCHANGED <<clock, started, countVars>>

\* time passes;
Passes ==
  /\ UNCHANGED <<runningTimers, started, calls, born>>
  /\ clock' = clock + 1 /\ clock \in Nat
  /\ burst' = [t \in Timers |-> 0]

\* a timer gets another interval, or starts anew;
AdjustedTo(i, e) ==
  /\ i \in 1..Size /\ e \in Elements
  /\ e.timer = runningTimers[i].timer
  /\ e.interval \in {runningTimers[i].interval} \cup NewIntervals
  /\ \/ e.next = runningTimers[i].next
     \/ e.next = clock + e.interval
  /\ runningTimers' = ReplaceAt(runningTimers, i, e)

Adjusts == (\E i, e : AdjustedTo(i, e)) /\ UNCHANGED <<clock, started, countVars>>

\* a timer is started;
Starts(t) ==
  /\ t \in Timers \ started
  /\ started' = started \cup {t} /\ born' = [born EXCEPT ![t] = clock]
  /\ UNCHANGED <<clock, calls, burst>>
  /\ \/ UNCHANGED runningTimers
     \/ \E v, i, e : /\ Rearranged(v, i)
                     /\ e \in Elements /\ e.timer = t
                     /\ e.interval = Interval[t] /\ e.next = clock + Interval[t]
                     /\ runningTimers' = Append(v, e)

\* or a timer was due.
StepKind == \/ Rearranges \/ Passes \/ Adjusts
            \/ \E t \in Timers : Starts(t)
            \/ SkipPaused \/ Call

\* There are no other steps.
LEMMA StepKinds ==
  ASSUME TimersInv, [Next]_vars PROVE StepKind
<1>t. TypeOK /\ pos \in Nat /\ clock \in Nat
      /\ Size \in Nat /\ runningTimers \in Seq(Elements) /\ it \in [Holders -> Nat]
      /\ (pc \in {"loop", "callback"} => pos >= 1)
  BY DEF TimersInv, TypeOK, Times, Size
<1>e. ASSUME NEW i \in 1..Size PROVE runningTimers[i] \in Elements
  BY <1>t DEF Size
<1>s. ASSUME UNCHANGED tokenVars, UNCHANGED <<clock, started, countVars>>
      PROVE  Rearranges
  <2>1. Rearranged(runningTimers, it)
    BY <1>t, EmbedsItself DEF Rearranged, Size
  <2> QED BY <1>s, <2>1 DEF Rearranges, tokenVars
<1>1. ASSUME NEW h \in Holders, ResetToken(h) PROVE Rearranges
  <2>1. CASE it[h] <= Size /\ Reset(h)
    BY <1>t, <1>1, <2>1, ResetRearranges DEF ResetToken, Rearranges
  <2>2. CASE UNCHANGED tokenVars
    BY <1>1, <1>s, <2>2 DEF ResetToken
  <2> QED BY <1>1, <2>1, <2>2 DEF ResetToken
<1>2. ASSUME NEW h \in Holders, NEW g \in Holders, MoveToken(h, g) PROVE Rearranges
  <2>1. CASE it[g] <= Size /\ Move(h, g)
    BY <1>t, <1>2, <2>1, MoveRearranges DEF MoveToken, Rearranges
  <2>2. CASE UNCHANGED tokenVars
    BY <1>2, <1>s, <2>2 DEF MoveToken
  <2> QED BY <1>2, <2>1, <2>2 DEF MoveToken
<1>3. ASSUME NEW h \in Holders, NEW t \in Timers, StartTimer(h, t) PROVE Starts(t)
  <2>1. CASE it[h] <= Size /\ Emplace(h, t)
    <3> DEFINE e == [timer |-> t, token |-> h, interval |-> Interval[t],
                     next |-> clock + Interval[t], paused |-> FALSE]
    <3>1. e \in Elements /\ e.timer = t /\ e.interval = Interval[t] /\ e.next = clock + Interval[t]
      BY <1>t, IntervalAssumption DEF Elements
    <3>2. runningTimers' = Append(Without(h), e)
      BY <2>1 DEF Emplace
    <3>3. Rearranged(Without(h), it)
      BY <1>t, <2>1, WithoutRearranges
    <3> HIDE DEF e
    <3> QED BY <1>3, <3>1, <3>2, <3>3 DEF StartTimer, Starts
  <2>2. CASE UNCHANGED tokenVars
    BY <1>3, <2>2 DEF StartTimer, Starts, tokenVars
  <2> QED BY <1>3, <2>1, <2>2 DEF StartTimer
<1>4. ASSUME NEW h \in Holders, NEW e, Adjust(h, e),
             it[h] \in 1..Size /\ UNCHANGED ub => AdjustedTo(it[h], e)
      PROVE  Rearranges \/ Adjusts
  <2>1. CASE it[h] > Size /\ UNCHANGED runningTimers
    BY <1>4, <1>s, <2>1 DEF Adjust, tokenVars
  <2>2. CASE it[h] \in 1..Size /\ UNCHANGED ub
    BY <1>4, <2>2 DEF Adjust, Adjusts
  <2> QED BY <1>4, <2>1, <2>2 DEF Adjust
<1>5. ASSUME NEW h \in Holders,
             TokenStop(h) \/ TokenStart(h) \/ TokenAgain(h) \/ \E i \in NewIntervals : TokenStartEvery(h, i)
      PROVE  Rearranges \/ Adjusts
  <2> DEFINE e == runningTimers[it[h]]
  <2>1. ASSUME NEW d, Adjust(h, d),
               it[h] \in 1..Size => /\ d \in Elements /\ d.timer = e.timer
                                    /\ d.interval \in {e.interval} \cup NewIntervals
                                    /\ d.next = e.next \/ d.next = clock + d.interval
        PROVE  Rearranges \/ Adjusts
    <3>1. it[h] \in 1..Size /\ UNCHANGED ub => AdjustedTo(it[h], d)
      <4> SUFFICES ASSUME it[h] \in 1..Size, UNCHANGED ub PROVE AdjustedTo(it[h], d)
        OBVIOUS
      <4>1. ~(it[h] > Size)
        BY <1>t
      <4>2. runningTimers' = ReplaceAt(runningTimers, it[h], d)
        BY <2>1, <4>1 DEF Adjust
      <4> QED BY <2>1, <4>2 DEF AdjustedTo
    <3> QED BY <1>4, <2>1, <3>1
  <2>2. it[h] \in 1..Size => e \in Elements
    BY <1>e
  <2> HIDE DEF e
  <2>3. CASE TokenStop(h)
    BY <2>1, <2>2, <2>3 DEF TokenStop, Elements, e
  <2>4. CASE TokenStart(h)
    BY <2>1, <2>2, <2>4 DEF TokenStart, Elements, e
  <2>5. CASE TokenAgain(h)
    <3>1. it[h] \in 1..Size => e.interval \in Nat /\ clock + e.interval \in Int
      BY <1>t, <2>2 DEF Elements
    <3> QED BY <2>1, <2>2, <2>5, <3>1 DEF TokenAgain, Elements, e
  <2>6. ASSUME NEW i \in NewIntervals, TokenStartEvery(h, i) PROVE Rearranges \/ Adjusts
    BY <2>1, <2>2, <2>6, IntervalAssumption DEF TokenStartEvery, Elements, e
  <2> QED BY <1>5, <2>3, <2>4, <2>5, <2>6
<1>6. CASE clearTimers
  <2>1. CASE /\ runningTimers' = <<>>
             /\ it' = [h \in Holders |-> IF \E k \in 1..Size : runningTimers[k].token = h
                                         THEN 0 ELSE it[h]]
    BY <1>t, <1>6, <2>1, ClearRearranges DEF clearTimers, Rearranges, StepKind
  <2>2. CASE UNCHANGED tokenVars
    BY <1>6, <1>s, <2>2 DEF clearTimers, StepKind
  <2> QED BY <1>6, <2>1, <2>2 DEF clearTimers
<1>7. CASE Tick
  BY <1>t, <1>7 DEF Tick, Passes, tokenVars, StepKind
<1>8. CASE fire \/ Skip \/ CallbackGoesOn \/ fireReturns
  BY <1>s, <1>8 DEF fire, Skip, CallbackGoesOn, fireReturns, StepKind
<1>9. CASE CallbackEnds
  BY <1>t, <1>9, EraseRearranges DEF CallbackEnds, Rearranges, StepKind
<1>10. CASE UNCHANGED vars
  BY <1>s, <1>10 DEF vars, StepKind
<1> QED BY <1>1, <1>2, <1>3, <1>5, <1>6, <1>7, <1>8, <1>9, <1>10 DEF Next, StepKind

\* Nobody shortens the interval of a timer.
NeverShortened ==
  \A k \in 1..Size, l \in 1..Len(runningTimers') :
    runningTimers[k].timer = runningTimers'[l].timer =>
      runningTimers[k].interval <= runningTimers'[l].interval

\* The times of a timer do not depend on its place.
LEMMA TimesRearranged ==
  ASSUME TimersInv, NEW v, NEW i, Rearranged(v, i)
  PROVE  /\ RateInv  => \A k \in 1..Len(v) : RateOf(v[k])
         /\ BurstInv => \A k \in 1..Len(v) : BurstOf(v[k])
<1>1. PICK f \in [1..Len(v) -> 1..Size] : \A k \in 1..Len(v) : Same(v[k], runningTimers[f[k]])
  BY DEF Rearranged, Embeds, Size
<1>2. ASSUME NEW k \in 1..Len(v)
      PROVE  (RateInv => RateOf(v[k])) /\ (BurstInv => BurstOf(v[k]))
  <2>1. f[k] \in 1..Size /\ Same(v[k], runningTimers[f[k]])
    BY <1>1
  <2> QED BY <2>1 DEF RateInv, BurstInv, RateOf, BurstOf, Same
<1> QED BY <1>2

\* What is replaced, and what is not.
LEMMA AdjustedElements ==
  ASSUME TimersInv, NEW i \in 1..Size, NEW e \in Elements, e.timer = runningTimers[i].timer,
         runningTimers' = ReplaceAt(runningTimers, i, e)
  PROVE  /\ Size' = Size
         /\ runningTimers'[i] = e
         /\ \A k \in 1..Size : k # i =>
              runningTimers'[k] = runningTimers[k] /\ runningTimers[k].timer # e.timer
<1>1. runningTimers \in Seq(Elements) /\ i \in 1..Len(runningTimers)
  BY DEF TimersInv, TypeOK, Size
<1>2. \A j, k \in 1..Len(runningTimers) : j # k => runningTimers[j].timer # runningTimers[k].timer
  BY <1>1 DEF TimersInv, TypeOK
<1> QED BY <1>1, <1>2, ExceptSeq DEF Size, ReplaceAt

\* The elements, and the numbers that count for them.
LEMMA ElementTypes ==
  ASSUME TimersInv, NEW k \in 1..Size
  PROVE  /\ runningTimers[k] \in Elements
         /\ runningTimers[k].timer \in started /\ runningTimers[k].timer \in Timers
         /\ runningTimers[k].interval \in Nat \ {0} /\ runningTimers[k].next \in Int
<1>1. runningTimers[k] \in Elements /\ runningTimers[k].timer \in started
  BY DEF TimersInv, TypeOK, Size, StartedTimers
<1> QED BY <1>1 DEF Elements

\* The types of what is counted.
LEMMA CountTypes ==
  ASSUME TimersInv
  PROVE  /\ started \subseteq Timers /\ clock \in Nat /\ fireTime \in Nat /\ fireTime <= clock
         /\ \A t \in Timers : /\ calls[t] \in Nat /\ burst[t] \in Nat /\ born[t] \in Nat
                              /\ Interval[t] \in Nat \ {0}
         /\ calls \in [Timers -> Nat] /\ burst \in [Timers -> Nat] /\ born \in [Timers -> Nat]
         /\ \A t \in started : born[t] <= clock
         /\ \A t \in Timers \ started : calls[t] = 0 /\ burst[t] = 0
BY IntervalAssumption DEF TimersInv, TypeOK, Times

\* One more call takes one more interval.
LEMMA OneMore ==
  ASSUME NEW a \in Int, NEW b \in Int PROVE (a + 1) * b = a * b + b
OBVIOUS

\* A timer that was due is called no earlier than its interval allows.
LEMMA RateOfDue ==
  ASSUME TimersInv, RateInv, SkipPaused \/ Call
  PROVE  RateInv'
<1> DEFINE e == runningTimers[pos]
           d == [e EXCEPT !.next = nextTick(e)]
           t == e.timer
<1>1. pos \in 1..Size /\ runningTimers' = ReplaceAt(runningTimers, pos, d) /\ fireTime >= e.next
      /\ UNCHANGED <<clock, started, born>>
  BY DEF SkipPaused, Call, Due, countVars, TimersInv, TypeOK
<1>2. e \in Elements /\ t \in started /\ t \in Timers /\ e.interval \in Nat \ {0} /\ e.next \in Int
  BY <1>1, ElementTypes
<1>3. nextTick(e) \in Int /\ nextTick(e) >= e.next + e.interval
  <2> HIDE DEF e
  <2> QED BY <1>2, CountTypes DEF nextTick
<1>4. d \in Elements /\ d.timer = t /\ d.interval = e.interval /\ d.next = nextTick(e)
  BY <1>2, <1>3 DEF Elements
<1>5. Size' = Size /\ runningTimers'[pos] = d
      /\ \A k \in 1..Size : k # pos =>
           runningTimers'[k] = runningTimers[k] /\ runningTimers[k].timer # t
  <2> HIDE DEF d
  <2> QED BY <1>1, <1>4, AdjustedElements
<1>6. /\ calls' \in [Timers -> Nat] /\ calls'[t] \in {calls[t], calls[t] + 1}
      /\ \A u \in Timers : u # t => calls'[u] = calls[u]
  BY <1>2, CountTypes DEF SkipPaused, Call, countVars
<1>7. RateOf(e)
  BY <1>1 DEF RateInv
<1>8. /\ calls'[t] * Interval[t] <= clock - born[t]
      /\ born[t] + (calls'[t] + 1) * Interval[t] <= nextTick(e)
      /\ Interval[t] <= e.interval
  <2> DEFINE c == calls[t]
             n == Interval[t]
             m == nextTick(e)
  <2>1. c \in Nat /\ n \in Nat /\ born[t] \in Nat /\ clock \in Nat /\ fireTime \in Nat
        /\ fireTime <= clock /\ m \in Int
    BY <1>2, <1>3, CountTypes
  <2>2. n <= e.interval /\ born[t] + (c + 1) * n <= e.next /\ e.next <= fireTime
        /\ m >= e.next + e.interval
    BY <1>1, <1>3, <1>7, <1>2, CountTypes DEF RateOf
  <2>3. (c + 1) * n = c * n + n /\ (c + 1 + 1) * n = (c + 1) * n + n /\ c * n \in Int /\ (c + 1) * n \in Int
    BY <2>1, OneMore
  <2> DEFINE p == c * n
             q == (c + 1) * n
             r == (c + 1 + 1) * n
  <2>4. p + n = q /\ q + n = r /\ p \in Int /\ q \in Int /\ r \in Int
    BY <2>1, <2>3
  <2>5. p <= clock - born[t] /\ q <= clock - born[t] /\ born[t] + q <= m /\ born[t] + r <= m
    <3> HIDE DEF c, n, m, p, q, r, e, t
    <3>1. born[t] + q <= e.next /\ e.next \in Int /\ e.interval \in Nat
      BY <1>2, <2>2 DEF q
    <3> QED BY <2>1, <2>2, <2>4, <3>1
  <2> QED BY <1>6, <2>2, <2>5
<1> HIDE DEF e, d, t
<1>9. RateBound'
  BY <1>1, <1>2, <1>6, <1>8, CountTypes DEF RateInv, RateBound
<1>10. ASSUME NEW k \in 1..Size PROVE RateOf(runningTimers[k])'
  <2>1. CASE k = pos
    BY <1>1, <1>4, <1>5, <1>8, <2>1 DEF RateOf
  <2>2. CASE k # pos
    <3>1. runningTimers'[k] = runningTimers[k] /\ runningTimers[k].timer # t
          /\ runningTimers[k].timer \in Timers
      BY <1>5, <2>2, ElementTypes
    <3>2. calls'[runningTimers[k].timer] = calls[runningTimers[k].timer]
      BY <1>6, <3>1
    <3>3. RateOf(runningTimers[k])
      BY DEF RateInv
    <3> QED BY <1>1, <3>1, <3>2, <3>3 DEF RateOf
  <2> QED BY <2>1, <2>2
<1> QED BY <1>5, <1>9, <1>10 DEF RateInv

\* The steps that start a timer.
LEMMA StartedElements ==
  ASSUME TimersInv, NEW t \in Timers, Starts(t)
  PROVE  \/ UNCHANGED runningTimers
         \/ \E v, i, e : /\ Rearranged(v, i) /\ v \in Seq(Elements)
                         /\ e.timer = t /\ e.interval = Interval[t] /\ e.next = clock + Interval[t]
                         /\ Size' = Len(v) + 1 /\ Len(v) \in Nat
                         /\ runningTimers'[Len(v) + 1] = e
                         /\ \A k \in 1..Len(v) : /\ runningTimers'[k] = v[k]
                                                 /\ v[k].timer \in started
<1> SUFFICES ASSUME NEW v, NEW i, NEW e, Rearranged(v, i), e \in Elements,
                    e.timer = t, e.interval = Interval[t], e.next = clock + Interval[t],
                    runningTimers' = Append(v, e)
             PROVE  /\ v \in Seq(Elements)
                    /\ Size' = Len(v) + 1 /\ Len(v) \in Nat
                    /\ runningTimers'[Len(v) + 1] = e
                    /\ \A k \in 1..Len(v) : runningTimers'[k] = v[k] /\ v[k].timer \in started
  BY DEF Starts
<1>1. v \in Seq(Elements) /\ StartedTimers(v)
  BY RearrangedTimers DEF TimersInv, Rearranged
<1> QED BY <1>1, AppendProperties DEF Size, StartedTimers

\* The rate of an element after the step.
RateAfter(e) ==
  /\ Interval[e.timer] <= e.interval
  /\ born'[e.timer] + (calls'[e.timer] + 1) * Interval[e.timer] <= e.next

LEMMA RateInvAfter ==
  ASSUME RateBound', \A k \in 1..Size' : RateAfter(runningTimers'[k])
  PROVE  RateInv'
BY DEF RateInv, RateAfter, RateOf, Size

\* What is called once is not called too soon the first time.
LEMMA RateOfStarted ==
  ASSUME TimersInv, RateInv, NEW t \in Timers, Starts(t)
  PROVE  RateInv'
<1>1. /\ t \notin started /\ started' = started \cup {t}
      /\ born' = [born EXCEPT ![t] = clock] /\ UNCHANGED <<clock, calls>>
  BY DEF Starts
<1>2. calls[t] = 0 /\ born'[t] = clock /\ \A u \in started : born'[u] = born[u] /\ u # t
  BY <1>1, CountTypes
<1>3. RateBound'
  <2>1. 0 * Interval[t] = 0 /\ clock - clock = 0
    BY CountTypes
  <2> QED BY <1>1, <1>2, <2>1 DEF RateInv, RateBound
<1>4. ASSUME NEW e, RateOf(e), e.timer \in started PROVE RateAfter(e)
  BY <1>1, <1>2, <1>4 DEF RateOf, RateAfter
<1>5. CASE UNCHANGED runningTimers
  <2>1. ASSUME NEW k \in 1..Size PROVE RateAfter(runningTimers[k])
    BY <1>4, ElementTypes DEF RateInv
  <2>2. Size' = Size /\ \A k \in 1..Size : RateAfter(runningTimers'[k])
    BY <1>5, <2>1 DEF Size
  <2> QED BY <1>3, <2>2, RateInvAfter
<1>6. ASSUME NEW v, NEW i, NEW e, Rearranged(v, i), v \in Seq(Elements),
             e.timer = t, e.interval = Interval[t], e.next = clock + Interval[t],
             Size' = Len(v) + 1, Len(v) \in Nat, runningTimers'[Len(v) + 1] = e,
             \A k \in 1..Len(v) : runningTimers'[k] = v[k] /\ v[k].timer \in started
      PROVE  RateInv'
  <2>1. (0 + 1) * Interval[t] = Interval[t]
    BY CountTypes
  <2>2. RateAfter(e)
    BY <1>1, <1>2, <1>6, <2>1, CountTypes DEF RateAfter
  <2>3. ASSUME NEW k \in 1..Len(v) PROVE RateAfter(runningTimers'[k])
    BY <1>4, <1>6, TimesRearranged
  <2>4. ASSUME NEW k \in 1..Size' PROVE RateAfter(runningTimers'[k])
    <3>1. k \in 1..Len(v) \/ k = Len(v) + 1
      BY <1>6, <2>4
    <3> QED BY <1>6, <2>2, <2>3, <3>1
  <2> QED BY <1>3, <2>4, RateInvAfter
<1> QED BY <1>5, <1>6, StartedElements

\* A timer that is adjusted is called an interval from now at the earliest, or as before.
LEMMA RateOfAdjusted ==
  ASSUME TimersInv, RateInv, Adjusts, NeverShortened
  PROVE  RateInv'
<1>1. PICK i, e : AdjustedTo(i, e)
  BY DEF Adjusts
<1> DEFINE t == e.timer
           o == runningTimers[i]
<1>2. /\ i \in 1..Size /\ e \in Elements /\ t = o.timer
      /\ runningTimers' = ReplaceAt(runningTimers, i, e)
      /\ UNCHANGED <<clock, started, calls, born>>
      /\ e.next = o.next \/ e.next = clock + e.interval
  BY <1>1 DEF AdjustedTo, Adjusts, countVars
<1>3. Size' = Size /\ runningTimers'[i] = e
      /\ \A k \in 1..Size : k # i =>
           runningTimers'[k] = runningTimers[k] /\ runningTimers[k].timer # t
  BY <1>2, AdjustedElements
<1>4. t \in started /\ t \in Timers /\ o.interval \in Nat /\ e.interval \in Nat /\ RateOf(o)
  BY <1>2, ElementTypes DEF RateInv, Elements
<1>5. o.interval <= e.interval
  BY <1>2, <1>3 DEF NeverShortened, Size
<1>6. RateBound'
  BY <1>2 DEF RateInv, RateBound
<1>7. RateOf(e)
  <2>1. Interval[t] <= e.interval
    BY <1>2, <1>4, <1>5, CountTypes DEF RateOf
  <2>2. CASE e.next = o.next
    BY <1>2, <1>4, <2>1, <2>2 DEF RateOf
  <2>3. CASE e.next = clock + e.interval
    <3> DEFINE p == calls[t] * Interval[t]
               q == (calls[t] + 1) * Interval[t]
    <3>1. p \in Int /\ q = p + Interval[t]
      BY <1>4, CountTypes, OneMore
    <3>2. p <= clock - born[t]
      BY <1>4 DEF RateInv, RateBound
    <3> HIDE DEF p, q
    <3>3. born[t] + q <= e.next
      BY <1>4, <2>1, <2>3, <3>1, <3>2, CountTypes
    <3> QED BY <2>1, <3>3 DEF RateOf, q
  <2> QED BY <1>2, <2>2, <2>3
<1>8. ASSUME NEW k \in 1..Size PROVE RateOf(runningTimers'[k])
  BY <1>3, <1>7 DEF RateInv
<1>9. ASSUME NEW k \in 1..Size PROVE RateOf(runningTimers[k])'
  BY <1>2, <1>8 DEF RateOf
<1> QED BY <1>3, <1>6, <1>9 DEF RateInv

\* Every step keeps the rate.
LEMMA RateStep ==
  ASSUME TimersInv, RateInv, [Next]_vars, [NeverShortened]_vars
  PROVE  RateInv'
<1>1. CASE Rearranges
  <2>1. \A k \in 1..Len(runningTimers') : RateOf(runningTimers'[k])
    BY <1>1, TimesRearranged DEF Rearranges
  <2>2. UNCHANGED <<clock, started, calls, born>>
    BY <1>1 DEF Rearranges, countVars
  <2> QED BY <2>1, <2>2 DEF RateInv, RateBound, RateOf, Size
<1>2. CASE Passes
  <2>1. RateBound'
    <3>1. ASSUME NEW t \in started PROVE calls[t] * Interval[t] <= clock + 1 - born[t]
      <4>1. calls[t] * Interval[t] <= clock - born[t] /\ calls[t] * Interval[t] \in Int
        BY CountTypes DEF RateInv, RateBound
      <4> HIDE DEF Passes
      <4> QED BY <4>1, CountTypes
    <3>2. clock' = clock + 1 /\ started' = started /\ calls' = calls /\ born' = born
      BY <1>2 DEF Passes
    <3>3. ASSUME NEW t \in started' PROVE calls'[t] * Interval[t] <= clock' - born'[t]
      <4>1. t \in started /\ calls[t] * Interval[t] <= clock + 1 - born[t]
        BY <3>1, <3>2
      <4>2. calls'[t] = calls[t] /\ born'[t] = born[t] /\ clock' = clock + 1
        BY <3>2
      <4>3. calls[t] \in Nat /\ Interval[t] \in Nat /\ clock \in Nat /\ born[t] \in Nat
        BY <4>1, CountTypes
      <4> DEFINE c == calls'[t]
                 b == born'[t]
      <4>4. c = calls[t] /\ b = born[t]
        BY <4>2
      <4> HIDE DEF c, b
      <4>5. c * Interval[t] <= clock' - b
        BY <4>1, <4>2, <4>3, <4>4
      <4> QED BY <4>5 DEF c, b
    <3> QED BY <3>3 DEF RateBound
  <2> QED BY <1>2, <2>1 DEF Passes, RateInv, RateOf, Size
<1>3. CASE Adjusts
  <2>1. CASE NeverShortened
    BY <1>3, <2>1, RateOfAdjusted
  <2>2. CASE UNCHANGED vars
    BY <2>2 DEF vars, tokenVars, countVars, RateInv, RateBound, RateOf, Size
  <2> QED BY <2>1, <2>2
<1>4. ASSUME NEW t \in Timers, Starts(t) PROVE RateInv'
  BY <1>4, RateOfStarted
<1>5. CASE SkipPaused \/ Call
  BY <1>5, RateOfDue
<1> QED BY <1>1, <1>2, <1>3, <1>4, <1>5, StepKinds DEF StepKind

\* A callback is called no more often than its timer's interval allows, however
\* late fire() comes and whatever callbacks do to the timers meanwhile, unless
\* somebody shortens an interval (TimedCallbacks.cpp:7-19, 116-133).
THEOREM RateIsBounded == Spec /\ [][NeverShortened]_vars => []RateBound
<1>1. Init => RateInv
  BY DEF Init, RateInv, RateBound, Size
<1>2. TimersInv /\ RateInv /\ [Next]_vars /\ [NeverShortened]_vars => RateInv'
  BY RateStep
<1>3. RateInv => RateBound
  BY DEF RateInv
<1> QED BY <1>1, <1>2, <1>3, TimersInvariant, PTL DEF Spec

-----------------------------------------------------------------------------
(* How many missed calls are made up for *)

\* What counts for an element after the step.
BurstAfter(e) ==
  /\ burst'[e.timer] = 1 => clock' - 2 * e.interval <= e.next
  /\ burst'[e.timer] = 2 => clock' - e.interval <= e.next
  /\ burst'[e.timer] = 3 => clock' <= e.next
  /\ burst'[e.timer] = 4 => clock' < e.next

LEMMA BurstInvAfter ==
  ASSUME AtMostTwoMissed', \A k \in 1..Size' : BurstAfter(runningTimers'[k])
  PROVE  BurstInv'
BY DEF BurstInv, BurstAfter, BurstOf, Size

\* Nothing is counted, and time stands still.
LEMMA BurstUncounted ==
  ASSUME NEW e, BurstOf(e), UNCHANGED <<clock, burst>> PROVE BurstAfter(e)
BY DEF BurstOf, BurstAfter

\* A timer that was due: each of the four calls brings the next one nearer, and
\* after the fourth it is no longer due.
LEMMA BurstOfDue ==
  ASSUME TimersInv, BurstInv, SkipPaused \/ Call
  PROVE  BurstInv'
<1> DEFINE e == runningTimers[pos]
           d == [e EXCEPT !.next = nextTick(e)]
           t == e.timer
<1>1. pos \in 1..Size /\ runningTimers' = ReplaceAt(runningTimers, pos, d) /\ fireTime >= e.next
      /\ clock' = clock
  BY DEF SkipPaused, Call, Due, countVars, TimersInv, TypeOK
<1>2. e \in Elements /\ t \in Timers /\ e.interval \in Nat \ {0} /\ e.next \in Int
  BY <1>1, ElementTypes
<1>3. /\ nextTick(e) \in Int
      /\ nextTick(e) >= e.next + e.interval
      /\ nextTick(e) >= fireTime - 2 * e.interval
  <2> HIDE DEF e
  <2> QED BY <1>2, CountTypes DEF nextTick
<1>4. d \in Elements /\ d.timer = t /\ d.interval = e.interval /\ d.next = nextTick(e)
  BY <1>2, <1>3 DEF Elements
<1>5. Size' = Size /\ runningTimers'[pos] = d
      /\ \A k \in 1..Size : k # pos =>
           runningTimers'[k] = runningTimers[k] /\ runningTimers[k].timer # t
  <2> HIDE DEF d
  <2> QED BY <1>1, <1>4, AdjustedElements
<1>6. /\ burst'[t] = burst[t] \/ (burst'[t] = burst[t] + 1 /\ fireTime = clock)
      /\ \A u \in Timers : u # t => burst'[u] = burst[u]
  BY <1>2, CountTypes DEF SkipPaused, Call, countVars
<1>7. BurstOf(e) /\ burst[t] \in 0..4
  BY <1>1, <1>2, CountTypes DEF BurstInv, AtMostTwoMissed
<1>8. burst'[t] <= 4 /\ BurstAfter(d)
  <2> DEFINE b == burst[t]
             c == burst'[t]
             n == e.next
             i == e.interval
             m == nextTick(e)
  <2>1. /\ b \in 0..4 /\ n \in Int /\ i \in Nat \ {0} /\ m \in Int
        /\ clock \in Nat /\ fireTime \in Nat /\ fireTime <= clock /\ n <= fireTime
        /\ m >= n + i /\ m >= fireTime - 2 * i
        /\ c = b \/ (c = b + 1 /\ fireTime = clock)
    BY <1>1, <1>2, <1>3, <1>6, <1>7, CountTypes
  <2>2. /\ b = 1 => clock - 2 * i <= n
        /\ b = 2 => clock - i <= n
        /\ b = 3 => clock <= n
        /\ b = 4 => clock < n
    BY <1>7 DEF BurstOf
  <2>3. /\ c <= 4
        /\ c = 1 => clock - 2 * i <= m
        /\ c = 2 => clock - i <= m
        /\ c = 3 => clock <= m
        /\ c = 4 => clock < m
    <3> HIDE DEF b, c, n, i, m, e, t
    <3>1. CASE c = b
      BY <2>1, <2>2, <3>1
    <3>2. CASE c = b + 1 /\ fireTime = clock
      BY <2>1, <2>2, <3>2
    <3> QED BY <2>1, <3>1, <3>2
  <2>4. d.timer = t /\ d.interval = i /\ d.next = m /\ clock' = clock
    BY <1>1, <1>4
  <2> HIDE DEF b, n, i, m, d
  <2> QED BY <2>3, <2>4 DEF BurstAfter
<1> HIDE DEF e, d, t
<1>9. AtMostTwoMissed'
  BY <1>2, <1>6, <1>8 DEF BurstInv, AtMostTwoMissed
<1>10. ASSUME NEW k \in 1..Size PROVE BurstAfter(runningTimers'[k])
  <2>1. CASE k = pos
    BY <1>5, <1>8, <2>1
  <2>2. CASE k # pos
    <3>1. runningTimers'[k] = runningTimers[k]
          /\ burst'[runningTimers[k].timer] = burst[runningTimers[k].timer]
      BY <1>5, <1>6, <2>2, ElementTypes
    <3>2. BurstOf(runningTimers[k])
      BY DEF BurstInv
    <3> QED BY <1>1, <3>1, <3>2 DEF BurstOf, BurstAfter
  <2> QED BY <2>1, <2>2
<1> QED BY <1>5, <1>9, <1>10, BurstInvAfter

\* A timer that is started was not called.
LEMMA BurstOfStarted ==
  ASSUME TimersInv, BurstInv, NEW t \in Timers, Starts(t)
  PROVE  BurstInv'
<1>1. t \notin started /\ burst[t] = 0 /\ UNCHANGED <<clock, burst>>
  BY CountTypes DEF Starts
<1>2. AtMostTwoMissed'
  BY <1>1 DEF BurstInv, AtMostTwoMissed
<1>3. ASSUME NEW e, BurstOf(e) PROVE BurstAfter(e)
  BY <1>1, <1>3, BurstUncounted
<1>4. CASE UNCHANGED runningTimers
  <2>1. Size' = Size /\ \A k \in 1..Size : BurstAfter(runningTimers'[k])
    BY <1>3, <1>4 DEF BurstInv, Size
  <2> QED BY <1>2, <2>1, BurstInvAfter
<1>5. ASSUME NEW v, NEW i, NEW e, Rearranged(v, i), e.timer = t,
             Size' = Len(v) + 1, Len(v) \in Nat, runningTimers'[Len(v) + 1] = e,
             \A k \in 1..Len(v) : runningTimers'[k] = v[k]
      PROVE  BurstInv'
  <2>1. BurstAfter(e)
    BY <1>1, <1>5 DEF BurstAfter
  <2>2. ASSUME NEW k \in 1..Len(v) PROVE BurstAfter(runningTimers'[k])
    BY <1>3, <1>5, TimesRearranged
  <2>3. ASSUME NEW k \in 1..Size' PROVE BurstAfter(runningTimers'[k])
    <3>1. k \in 1..Len(v) \/ k = Len(v) + 1
      BY <1>5, <2>3
    <3> QED BY <1>5, <2>1, <2>2, <3>1
  <2> QED BY <1>2, <2>3, BurstInvAfter
<1> QED BY <1>4, <1>5, StartedElements

\* A timer that is adjusted waits longer, or starts anew.
LEMMA BurstOfAdjusted ==
  ASSUME TimersInv, BurstInv, Adjusts, NeverShortened
  PROVE  BurstInv'
<1>1. PICK i, e : AdjustedTo(i, e)
  BY DEF Adjusts
<1> DEFINE o == runningTimers[i]
<1>2. /\ i \in 1..Size /\ e \in Elements /\ e.timer = o.timer
      /\ runningTimers' = ReplaceAt(runningTimers, i, e)
      /\ UNCHANGED <<clock, burst>>
      /\ e.next = o.next \/ e.next = clock + e.interval
  BY <1>1 DEF AdjustedTo, Adjusts, countVars
<1>3. Size' = Size /\ runningTimers'[i] = e
      /\ \A k \in 1..Size : k # i => runningTimers'[k] = runningTimers[k]
  BY <1>2, AdjustedElements
<1>4. /\ o.interval \in Nat \ {0} /\ o.next \in Int /\ e.interval \in Nat \ {0} /\ e.next \in Int
      /\ clock \in Nat /\ BurstOf(o)
  BY <1>2, ElementTypes, CountTypes DEF BurstInv, Elements
<1>5. o.interval <= e.interval
  BY <1>2, <1>3 DEF NeverShortened, Size
<1> HIDE DEF o
<1>6. AtMostTwoMissed'
  BY <1>2 DEF BurstInv, AtMostTwoMissed
<1>7. BurstOf(e)
  <2>1. CASE e.next = o.next
    BY <1>2, <1>4, <1>5, <2>1 DEF BurstOf
  <2>2. CASE e.next = clock + e.interval
    BY <1>4, <2>2 DEF BurstOf
  <2> QED BY <1>2, <2>1, <2>2
<1>8. ASSUME NEW k \in 1..Size PROVE BurstOf(runningTimers'[k])
  BY <1>3, <1>7 DEF BurstInv
<1>9. ASSUME NEW k \in 1..Size PROVE BurstAfter(runningTimers'[k])
  BY <1>2, <1>8, BurstUncounted
<1> QED BY <1>3, <1>6, <1>9, BurstInvAfter

\* Every step keeps the number of calls at one time.
LEMMA BurstStep ==
  ASSUME TimersInv, BurstInv, [Next]_vars, [NeverShortened]_vars
  PROVE  BurstInv'
<1>1. CASE Rearranges
  <2>1. UNCHANGED <<clock, burst>>
    BY <1>1 DEF Rearranges, countVars
  <2>2. \A k \in 1..Len(runningTimers') : BurstAfter(runningTimers'[k])
    BY <1>1, <2>1, TimesRearranged, BurstUncounted DEF Rearranges
  <2>3. AtMostTwoMissed'
    BY <2>1 DEF BurstInv, AtMostTwoMissed
  <2> QED BY <2>2, <2>3, BurstInvAfter DEF Size
<1>2. CASE Passes
  <2>1. \A t \in Timers : burst'[t] = 0
    BY <1>2 DEF Passes
  <2>2. \A k \in 1..Size' : BurstAfter(runningTimers'[k])
    BY <1>2, <2>1, ElementTypes DEF Passes, BurstAfter, Size
  <2> QED BY <2>1, <2>2, BurstInvAfter DEF AtMostTwoMissed
<1>3. CASE Adjusts
  <2>1. CASE NeverShortened
    BY <1>3, <2>1, BurstOfAdjusted
  <2>2. CASE UNCHANGED vars
    BY <2>2 DEF vars, tokenVars, countVars, BurstInv, AtMostTwoMissed, BurstOf, Size
  <2> QED BY <2>1, <2>2
<1>4. ASSUME NEW t \in Timers, Starts(t) PROVE BurstInv'
  BY <1>4, BurstOfStarted
<1>5. CASE SkipPaused \/ Call
  BY <1>5, BurstOfDue
<1> QED BY <1>1, <1>2, <1>3, <1>4, <1>5, StepKinds DEF StepKind

\* A timer that is late makes up for at most two missed ticks: its callback is
\* called at most four times while the clock stands still, however late fire()
\* comes, unless somebody shortens an interval (TimedCallbacks.cpp:7-19, 173-185).
THEOREM MissedAreBounded == Spec /\ [][NeverShortened]_vars => []AtMostTwoMissed
<1>1. Init => BurstInv
  BY DEF Init, BurstInv, AtMostTwoMissed, Size
<1>2. TimersInv /\ BurstInv /\ [Next]_vars /\ [NeverShortened]_vars => BurstInv'
  BY BurstStep
<1>3. BurstInv => AtMostTwoMissed
  BY DEF BurstInv
<1> QED BY <1>1, <1>2, <1>3, TimersInvariant, PTL DEF Spec

-----------------------------------------------------------------------------
(* When nobody shortens an interval *)

\* Timers have the intervals they are made with, or new ones.
IntervalsInv ==
  \A k \in 1..Size :
    runningTimers[k].interval \in {Interval[runningTimers[k].timer]} \cup NewIntervals

\* A step gives timers new intervals or leaves them theirs.
IntervalsKept ==
  \A k \in 1..Size, l \in 1..Size' :
    runningTimers[k].timer = runningTimers'[l].timer =>
      runningTimers'[l].interval \in {runningTimers[k].interval} \cup NewIntervals

\* The intervals of vectors that a step may leave.
LEMMA RearrangedIntervals ==
  ASSUME TimersInv, NEW v, NEW i, Rearranged(v, i)
  PROVE  /\ \A k \in 1..Size, l \in 1..Len(v) :
              runningTimers[k].timer = v[l].timer => v[l].interval = runningTimers[k].interval
         /\ IntervalsInv => \A l \in 1..Len(v) : v[l].interval \in {Interval[v[l].timer]} \cup NewIntervals
<1>1. PICK f \in [1..Len(v) -> 1..Size] : \A k \in 1..Len(v) : Same(v[k], runningTimers[f[k]])
  BY DEF Rearranged, Embeds, Size
<1>2. \A j, k \in 1..Size : j # k => runningTimers[j].timer # runningTimers[k].timer
  BY DEF TimersInv, TypeOK, Size
<1>3. \A l \in 1..Len(v) : /\ f[l] \in 1..Size
                           /\ v[l].timer = runningTimers[f[l]].timer
                           /\ v[l].interval = runningTimers[f[l]].interval
  BY <1>1 DEF Same
<1> QED BY <1>2, <1>3 DEF IntervalsInv

LEMMA AdjustedIntervals ==
  ASSUME TimersInv, IntervalsInv,
         NEW i \in 1..Size, NEW e \in Elements, e.timer = runningTimers[i].timer,
         e.interval \in {runningTimers[i].interval} \cup NewIntervals,
         runningTimers' = ReplaceAt(runningTimers, i, e)
  PROVE  IntervalsKept /\ IntervalsInv'
<1>1. Size' = Size /\ runningTimers'[i] = e
      /\ \A k \in 1..Size : k # i =>
           runningTimers'[k] = runningTimers[k] /\ runningTimers[k].timer # e.timer
  BY AdjustedElements
<1>2. \A j, k \in 1..Size : j # k => runningTimers[j].timer # runningTimers[k].timer
  BY DEF TimersInv, TypeOK, Size
<1>3. IntervalsKept
  BY <1>1, <1>2 DEF IntervalsKept
<1>4. \A k \in 1..Size :
        runningTimers'[k].interval \in {Interval[runningTimers'[k].timer]} \cup NewIntervals
  BY <1>1 DEF IntervalsInv
<1>5. IntervalsInv'
  BY <1>1, <1>4 DEF IntervalsInv
<1> QED BY <1>3, <1>5

LEMMA IntervalsStep ==
  ASSUME TimersInv, IntervalsInv, [Next]_vars
  PROVE  IntervalsKept /\ IntervalsInv'
<1>1. CASE Rearranges
  BY <1>1, RearrangedIntervals DEF Rearranges, IntervalsKept, IntervalsInv, Size
<1>2. CASE Passes
  <2>1. Rearranged(runningTimers, it)
    BY EmbedsItself DEF TimersInv, TypeOK, Rearranged, Size
  <2>2. runningTimers' = runningTimers
    BY <1>2 DEF Passes
  <2> QED BY <2>1, <2>2, RearrangedIntervals DEF IntervalsKept, IntervalsInv, Size
<1>3. CASE Adjusts
  BY <1>3, AdjustedIntervals DEF Adjusts, AdjustedTo
<1>4. ASSUME NEW t \in Timers, Starts(t) PROVE IntervalsKept /\ IntervalsInv'
  <2>1. CASE UNCHANGED runningTimers
    <3>1. Rearranged(runningTimers, it)
      BY EmbedsItself DEF TimersInv, TypeOK, Rearranged, Size
    <3> QED BY <2>1, <3>1, RearrangedIntervals DEF IntervalsKept, IntervalsInv, Size
  <2>2. ASSUME NEW v, NEW i, NEW e, Rearranged(v, i), e.timer = t, e.interval = Interval[t],
               Size' = Len(v) + 1, Len(v) \in Nat, runningTimers'[Len(v) + 1] = e,
               \A k \in 1..Len(v) : runningTimers'[k] = v[k]
        PROVE  IntervalsKept /\ IntervalsInv'
    <3>1. \A l \in 1..Size' : l \in 1..Len(v) \/ l = Len(v) + 1
      BY <2>2
    <3>2. \A k \in 1..Size : runningTimers[k].timer # t
      BY <1>4, ElementTypes DEF Starts
    <3>3. \A k \in 1..Size, l \in 1..Len(v) :
            runningTimers[k].timer = v[l].timer => v[l].interval = runningTimers[k].interval
      BY <2>2, RearrangedIntervals
    <3>4. \A l \in 1..Len(v) : v[l].interval \in {Interval[v[l].timer]} \cup NewIntervals
      BY <2>2, RearrangedIntervals
    <3>5. IntervalsKept
      BY <2>2, <3>1, <3>2, <3>3 DEF IntervalsKept
    <3>6. \A l \in 1..Size' :
            runningTimers'[l].interval \in {Interval[runningTimers'[l].timer]} \cup NewIntervals
      BY <2>2, <3>1, <3>4
    <3> QED BY <3>5, <3>6 DEF IntervalsInv
  <2> QED BY <1>4, <2>1, <2>2, StartedElements
<1>5. CASE SkipPaused \/ Call
  <2> DEFINE e == runningTimers[pos]
             d == [e EXCEPT !.next = nextTick(e)]
  <2>1. pos \in 1..Size /\ runningTimers' = ReplaceAt(runningTimers, pos, d)
    BY <1>5 DEF SkipPaused, Call, TimersInv, TypeOK
  <2>2. e \in Elements /\ e.interval \in Nat \ {0} /\ e.next \in Int
    BY <2>1, ElementTypes
  <2>3. nextTick(e) \in Int
    <3> HIDE DEF e
    <3> QED BY <2>2, CountTypes DEF nextTick
  <2>4. d \in Elements /\ d.timer = e.timer /\ d.interval = e.interval
    BY <2>2, <2>3 DEF Elements
  <2> HIDE DEF d
  <2> QED BY <2>1, <2>4, AdjustedIntervals
<1> QED BY <1>1, <1>2, <1>3, <1>4, <1>5, StepKinds DEF StepKind

\* Nothing is shortened where start(interval) is only used with one interval that
\* no timer is made with a longer one than.
LEMMA LongerIntervals ==
  ASSUME \A i, j \in NewIntervals, t \in Timers : i = j /\ Interval[t] <= i
  PROVE  Spec => [][NeverShortened]_vars
<1>1. Init => IntervalsInv
  BY DEF Init, IntervalsInv, Size
<1>2. ASSUME TimersInv, IntervalsInv, [Next]_vars PROVE NeverShortened /\ IntervalsInv'
  <2>1. IntervalsKept /\ IntervalsInv'
    BY <1>2, IntervalsStep
  <2>2. ASSUME NEW k \in 1..Size, NEW l \in 1..Len(runningTimers'),
               runningTimers[k].timer = runningTimers'[l].timer
        PROVE  runningTimers[k].interval <= runningTimers'[l].interval
    <3> DEFINE o == runningTimers[k]
               n == runningTimers'[l]
    <3>1. n.interval \in {o.interval} \cup NewIntervals
      BY <2>1, <2>2 DEF IntervalsKept, Size
    <3>2. o.interval \in {Interval[o.timer]} \cup NewIntervals
      BY <1>2 DEF IntervalsInv
    <3>3. o.interval \in Nat /\ o.timer \in Timers
      BY <1>2, ElementTypes
    <3> HIDE DEF o, n
    <3>4. o.interval <= n.interval
      BY <3>1, <3>2, <3>3
    <3> QED BY <3>4 DEF o, n
  <2> QED BY <2>1, <2>2 DEF NeverShortened
<1> QED BY <1>1, <1>2, TimersInvariant, PTL DEF Spec

\* The callbacks' rate is bounded in every such program (TimedCallbacks.cpp:116-123).
COROLLARY RateWithLongerIntervals ==
  ASSUME \A i, j \in NewIntervals, t \in Timers : i = j /\ Interval[t] <= i
  PROVE  Spec => [](RateBound /\ AtMostTwoMissed)
<1>1. Spec => [][NeverShortened]_vars
  BY LongerIntervals
<1> QED BY <1>1, RateIsBounded, MissedAreBounded, PTL

-----------------------------------------------------------------------------
(* Tokens and their elements *)

\* The tokens i and the vector v point at each other.
AgreeOn(v, i) ==
  /\ \A h \in Holders : i[h] # 0 => i[h] \in 1..Len(v) /\ v[i[h]].token = h
  /\ \A k \in 1..Len(v) : i[v[k].token] = k

TokensInv == AgreeOn(runningTimers, it) /\ ub # "iterator past the end"

\* No two elements have the same token.
DistinctTokens(v) == \A j, k \in 1..Len(v) : v[j].token = v[k].token => j = k

\* The timer that h has in v.
HeldBy(v, h, t) ==
  \/ \E k \in 1..Len(v) : v[k].token = h /\ v[k].timer = t
  \/ t = NoTimer /\ \A k \in 1..Len(v) : v[k].token # h

\* An expired timer is not the last one: the one behind it loses its token.
ExpiresInFront == CallbackEnds /\ pos < Size

\* Tokens that agree are different, and say which timers are held.
LEMMA AgreeingTokens ==
  ASSUME NEW v \in Seq(Elements), NEW i \in [Holders -> Nat], AgreeOn(v, i)
  PROVE  /\ DistinctTokens(v)
         /\ \A h \in Holders : HeldBy(v, h, IF i[h] \in 1..Len(v) THEN v[i[h]].timer ELSE NoTimer)
         /\ \A t : \A h \in Holders : HeldBy(v, h, t) =>
              t = IF i[h] \in 1..Len(v) THEN v[i[h]].timer ELSE NoTimer
<1>1. DistinctTokens(v)
  BY DEF AgreeOn, DistinctTokens
<1>2. ASSUME NEW h \in Holders
      PROVE  HeldBy(v, h, IF i[h] \in 1..Len(v) THEN v[i[h]].timer ELSE NoTimer)
  <2>1. CASE i[h] \in 1..Len(v)
    <3>1. v[i[h]].token = h
      BY <2>1 DEF AgreeOn
    <3> QED BY <2>1, <3>1 DEF HeldBy
  <2>2. CASE i[h] \notin 1..Len(v)
    <3>1. \A k \in 1..Len(v) : v[k].token # h
      BY <2>2 DEF AgreeOn
    <3> QED BY <2>2, <3>1 DEF HeldBy
  <2> QED BY <2>1, <2>2
<1>3. ASSUME NEW h \in Holders, NEW t, HeldBy(v, h, t)
      PROVE  t = IF i[h] \in 1..Len(v) THEN v[i[h]].timer ELSE NoTimer
  <2>1. ASSUME NEW k \in 1..Len(v), v[k].token = h, v[k].timer = t
        PROVE  t = IF i[h] \in 1..Len(v) THEN v[i[h]].timer ELSE NoTimer
    BY <2>1 DEF AgreeOn
  <2>2. CASE t = NoTimer /\ \A k \in 1..Len(v) : v[k].token # h
    <3>1. i[h] \notin 1..Len(v)
      BY <2>2 DEF AgreeOn
    <3> QED BY <2>2, <3>1
  <2> QED BY <1>3, <2>1, <2>2 DEF HeldBy
<1> QED BY <1>1, <1>2, <1>3

\* What updateTokens tells tokens.
LEMMA UpdatedAt ==
  ASSUME NEW v \in Seq(Elements), NEW i, DistinctTokens(v)
  PROVE  /\ \A k \in 1..Len(v) : updateTokens(v, i)[v[k].token] = k
         /\ \A h \in Holders : (\A k \in 1..Len(v) : v[k].token # h) => updateTokens(v, i)[h] = i[h]
<1>1. DOMAIN v = 1..Len(v)
  OBVIOUS
<1>2. ASSUME NEW k \in 1..Len(v) PROVE updateTokens(v, i)[v[k].token] = k
  <2> DEFINE h == v[k].token
  <2>1. h \in Holders
    <3>1. v[k] \in Elements
      OBVIOUS
    <3> QED BY <3>1 DEF Elements
  <2>2. \E j \in DOMAIN v : v[j].token = h
    BY <1>1
  <2>3. updateTokens(v, i)[h] = CHOOSE j \in DOMAIN v : v[j].token = h
    BY <2>1, <2>2 DEF updateTokens
  <2>4. \A j \in DOMAIN v : v[j].token = h => j = k
    BY <1>1 DEF DistinctTokens
  <2> HIDE DEF h
  <2>5. (CHOOSE j \in DOMAIN v : v[j].token = h) \in DOMAIN v
        /\ v[CHOOSE j \in DOMAIN v : v[j].token = h].token = h
    BY <2>2
  <2>6. updateTokens(v, i)[h] = k
    BY <2>3, <2>4, <2>5
  <2> QED BY <2>6 DEF h
<1>3. ASSUME NEW h \in Holders, \A k \in 1..Len(v) : v[k].token # h
      PROVE  updateTokens(v, i)[h] = i[h]
  BY <1>1, <1>3 DEF updateTokens
<1> QED BY <1>2, <1>3

\* Tokens that are told where they are agree, if the others know that they are unused.
LEMMA UpdatedAgree ==
  ASSUME NEW v \in Seq(Elements), DistinctTokens(v), NEW i, NEW u \in [Holders -> Nat],
         \A h \in Holders : IF \E k \in 1..Len(v) : v[k].token = h
                            THEN u[h] = updateTokens(v, i)[h] ELSE u[h] = 0
  PROVE  AgreeOn(v, u)
<1>1. ASSUME NEW k \in 1..Len(v) PROVE u[v[k].token] = k
  <2>1. v[k].token \in Holders
    <3>1. v[k] \in Elements
      OBVIOUS
    <3> QED BY <3>1 DEF Elements
  <2> QED BY <2>1, UpdatedAt
<1>2. ASSUME NEW h \in Holders, u[h] # 0 PROVE u[h] \in 1..Len(v) /\ v[u[h]].token = h
  <2>1. PICK k \in 1..Len(v) : v[k].token = h
    BY <1>2
  <2> QED BY <1>1, <2>1
<1> QED BY <1>1, <1>2 DEF AgreeOn

\* When h stops its timer, the other holders keep theirs.
LEMMA WithoutHeld ==
  ASSUME TypeOK, AgreeOn(runningTimers, it), NEW h \in Holders
  PROVE  /\ Without(h) \in Seq(Elements)
         /\ DistinctTokens(Without(h))
         /\ \A k \in 1..Len(Without(h)) : Without(h)[k].token # h
         /\ \A g \in Holders \ {h} : HeldBy(Without(h), g, TimerOf(g))
         /\ \A g \in Holders : it[g] = 0 => \A k \in 1..Len(Without(h)) : Without(h)[k].token # g
         /\ \A g \in Holders \ {h} : it[g] # 0 => \E k \in 1..Len(Without(h)) : Without(h)[k].token = g
<1> DEFINE v == runningTimers
           w == Without(h)
           n == Len(v)
<1>1. v \in Seq(Elements) /\ it \in [Holders -> Nat] /\ n \in Nat
  BY DEF TypeOK
<1>2. DistinctTokens(v) /\ \A g \in Holders : HeldBy(v, g, TimerOf(g))
  BY <1>1, AgreeingTokens DEF TimerOf, Size
<1>3. CASE it[h] = 0
  BY <1>1, <1>2, <1>3 DEF Without, AgreeOn
<1>4. CASE it[h] # 0
  <2> DEFINE p == it[h]
  <2>1. p \in 1..n /\ v[p].token = h
    BY <1>4 DEF AgreeOn
  <2>2. w = RemoveAt(v, p)
    BY <1>4 DEF Without
  <2>3. /\ w \in Seq(Elements) /\ Len(w) = n - 1
        /\ \A k \in 1..(n - 1) : w[k] = IF k < p THEN v[k] ELSE v[k + 1]
    BY <1>1, <2>1, <2>2, Erased
  <2> HIDE DEF w, p, n
  <2> DEFINE f == [k \in 1..(n - 1) |-> IF k < p THEN k ELSE k + 1]
  <2>4. \A k \in 1..(n - 1) : f[k] \in 1..n /\ f[k] # p /\ w[k] = v[f[k]]
    BY <1>1, <2>1, <2>3 DEF n
  <2>5. \A j, k \in 1..(n - 1) : f[j] = f[k] => j = k
    BY <1>1, <2>1
  <2>6. \A l \in 1..n : l # p => \E k \in 1..(n - 1) : f[k] = l
    <3> SUFFICES ASSUME NEW l \in 1..n, l # p PROVE \E k \in 1..(n - 1) : f[k] = l
      OBVIOUS
    <3>1. CASE l < p
      <4>1. l \in 1..(n - 1) /\ f[l] = l
        BY <1>1, <2>1, <3>1
      <4> QED BY <4>1
    <3>2. CASE l > p
      <4>1. l - 1 \in 1..(n - 1) /\ f[l - 1] = l
        BY <1>1, <2>1, <3>2
      <4> QED BY <4>1
    <3> QED BY <1>1, <2>1, <3>1, <3>2
  <2> HIDE DEF f
  <2>7. \A l \in 1..n : v[l].token = h => l = p
    BY <1>2, <2>1 DEF DistinctTokens, n
  <2>8. DistinctTokens(w)
    <3>1. \A j, k \in 1..n : v[j].token = v[k].token => j = k
      BY <1>2 DEF DistinctTokens, n
    <3>2. ASSUME NEW j \in 1..(n - 1), NEW k \in 1..(n - 1), w[j].token = w[k].token
          PROVE  j = k
      <4>1. f[j] \in 1..n /\ f[k] \in 1..n /\ v[f[j]].token = v[f[k]].token
        BY <2>4, <3>2
      <4>2. f[j] = f[k]
        BY <3>1, <4>1
      <4> QED BY <2>5, <4>2
    <3> QED BY <2>3, <3>2 DEF DistinctTokens
  <2>9. \A k \in 1..Len(w) : w[k].token # h
    BY <2>3, <2>4, <2>7
  <2>10. ASSUME NEW g \in Holders \ {h}, NEW t, HeldBy(v, g, t) PROVE HeldBy(w, g, t)
    <3>1. ASSUME NEW l \in 1..n, v[l].token = g, v[l].timer = t PROVE HeldBy(w, g, t)
      <4>1. PICK k \in 1..(n - 1) : f[k] = l
        BY <2>1, <2>6, <3>1
      <4>2. k \in 1..Len(w) /\ w[k].token = g /\ w[k].timer = t
        BY <2>3, <2>4, <3>1, <4>1
      <4> QED BY <4>2 DEF HeldBy
    <3>2. CASE t = NoTimer /\ \A k \in 1..n : v[k].token # g
      BY <2>3, <2>4, <3>2 DEF HeldBy
    <3> QED BY <2>10, <3>1, <3>2 DEF HeldBy, n
  <2>11. ASSUME NEW g \in Holders, it[g] = 0 PROVE \A k \in 1..Len(w) : w[k].token # g
    <3>1. \A l \in 1..n : v[l].token # g
      BY <2>11 DEF AgreeOn, n
    <3> QED BY <2>3, <2>4, <3>1
  <2>12. ASSUME NEW g \in Holders \ {h}, it[g] # 0 PROVE \E k \in 1..Len(w) : w[k].token = g
    <3>1. it[g] \in 1..n /\ v[it[g]].token = g
      BY <2>12 DEF AgreeOn, n
    <3>2. PICK k \in 1..(n - 1) : f[k] = it[g]
      BY <2>1, <2>6, <3>1
    <3> QED BY <2>3, <2>4, <3>1, <3>2
  <2> QED BY <1>2, <2>3, <2>8, <2>9, <2>10, <2>11, <2>12 DEF w
<1> QED BY <1>1, <1>3, <1>4

\* A holder's timer after a step that leaves tokens in agreement.
LEMMA HeldAfter ==
  ASSUME TimersInv', AgreeOn(runningTimers, it)', NEW h \in Holders, NEW t,
         HeldBy(runningTimers', h, t)
  PROVE  TimerOf(h)' = t
<1>1. runningTimers' \in Seq(Elements) /\ it' \in [Holders -> Nat]
  BY DEF TimersInv, TypeOK
<1>2. AgreeOn(runningTimers', it')
  BY DEF AgreeOn
<1>3. t = IF it'[h] \in 1..Len(runningTimers') THEN runningTimers'[it'[h]].timer ELSE NoTimer
  BY <1>1, <1>2, AgreeingTokens
<1> QED BY <1>3 DEF TimerOf, Size

\* A token is reset.
LEMMA ResetAgrees ==
  ASSUME TimersInv, TimersInv', AgreeOn(runningTimers, it), NEW h \in Holders, it[h] # 0, Reset(h)
  PROVE  /\ AgreeOn(runningTimers', it')
         /\ HeldBy(runningTimers', h, NoTimer)
         /\ \A g \in Holders \ {h} : HeldBy(runningTimers', g, TimerOf(g))
<1> DEFINE w == Without(h)
<1>1. /\ w \in Seq(Elements) /\ DistinctTokens(w)
      /\ \A k \in 1..Len(w) : w[k].token # h
      /\ \A g \in Holders \ {h} : HeldBy(w, g, TimerOf(g))
      /\ \A g \in Holders : it[g] = 0 => \A k \in 1..Len(w) : w[k].token # g
      /\ \A g \in Holders \ {h} : it[g] # 0 => \E k \in 1..Len(w) : w[k].token = g
  BY WithoutHeld DEF TimersInv
<1>2. runningTimers' = w /\ it' = [updateTokens(w, it) EXCEPT ![h] = 0]
  BY DEF Reset, Without
<1> HIDE DEF w
<1>3. it' \in [Holders -> Nat] /\ updateTokens(w, it) \in [Holders -> Nat]
  BY <1>1, UpdatedType DEF TimersInv, TypeOK
<1>4. ASSUME NEW g \in Holders
      PROVE  IF \E k \in 1..Len(w) : w[k].token = g
             THEN it'[g] = updateTokens(w, it)[g] ELSE it'[g] = 0
  <2>1. CASE g = h
    BY <1>1, <1>2, <1>3, <2>1
  <2>2. CASE g # h
    <3>1. it'[g] = updateTokens(w, it)[g]
      BY <1>2, <1>3, <2>2
    <3> QED BY <1>1, <2>2, <3>1, UpdatedAt
  <2> QED BY <2>1, <2>2
<1>5. AgreeOn(w, it')
  BY <1>1, <1>3, <1>4, UpdatedAgree
<1>6. HeldBy(w, h, NoTimer)
  BY <1>1 DEF HeldBy
<1> QED BY <1>1, <1>2, <1>5, <1>6

\* A timer is started for a token.
LEMMA EmplaceAgrees ==
  ASSUME TimersInv, TimersInv', AgreeOn(runningTimers, it), NEW h \in Holders, NEW t \in Timers,
         Emplace(h, t)
  PROVE  /\ AgreeOn(runningTimers', it')
         /\ HeldBy(runningTimers', h, t)
         /\ \A g \in Holders \ {h} : HeldBy(runningTimers', g, TimerOf(g))
<1> DEFINE w == Without(h)
           e == [timer |-> t, token |-> h, interval |-> Interval[t],
                 next |-> clock + Interval[t], paused |-> FALSE]
           v == Append(w, e)
           n == Len(w)
<1>1. /\ w \in Seq(Elements) /\ DistinctTokens(w)
      /\ \A k \in 1..n : w[k].token # h
      /\ \A g \in Holders \ {h} : HeldBy(w, g, TimerOf(g))
      /\ \A g \in Holders : it[g] = 0 => \A k \in 1..n : w[k].token # g
      /\ \A g \in Holders \ {h} : it[g] # 0 => \E k \in 1..n : w[k].token = g
  BY WithoutHeld DEF TimersInv
<1>2. runningTimers' = v /\ it' = [updateTokens(v, it) EXCEPT ![h] = Len(v)]
  BY DEF Emplace
<1>3. e \in Elements /\ e.token = h /\ e.timer = t
  BY IntervalAssumption, CountTypes DEF Elements
<1> HIDE DEF w, e
<1>4. /\ v \in Seq(Elements) /\ Len(v) = n + 1 /\ n \in Nat
      /\ v[n + 1] = e /\ \A k \in 1..n : v[k] = w[k]
  BY <1>1, <1>3, AppendProperties
<1> HIDE DEF v
<1>5. \A k \in 1..Len(v) : k \in 1..n \/ k = n + 1
  BY <1>4
<1>6. DistinctTokens(v)
  <2>1. \A j, k \in 1..n : v[j].token = v[k].token => j = k
    BY <1>1, <1>4 DEF DistinctTokens
  <2>2. \A k \in 1..n : v[k].token # h
    BY <1>1, <1>4
  <2> QED BY <1>3, <1>4, <1>5, <2>1, <2>2 DEF DistinctTokens
<1>7. it' \in [Holders -> Nat] /\ updateTokens(v, it) \in [Holders -> Nat]
  BY <1>4, UpdatedType DEF TimersInv, TypeOK
<1>8. ASSUME NEW g \in Holders
      PROVE  IF \E k \in 1..Len(v) : v[k].token = g
             THEN it'[g] = updateTokens(v, it)[g] ELSE it'[g] = 0
  <2>1. CASE g = h
    <3>1. n + 1 \in 1..Len(v) /\ v[n + 1].token = g
      BY <1>3, <1>4, <2>1
    <3>2. updateTokens(v, it)[g] = n + 1
      BY <1>4, <1>6, <3>1, UpdatedAt
    <3> QED BY <1>2, <1>4, <1>7, <2>1, <3>1, <3>2
  <2>2. CASE g # h
    <3>1. it'[g] = updateTokens(v, it)[g]
      BY <1>2, <1>7, <2>2
    <3>2. it[g] # 0 => \E k \in 1..Len(v) : v[k].token = g
      <4>1. \A k \in 1..n : k \in 1..Len(v)
        BY <1>4
      <4> QED BY <1>1, <1>4, <2>2, <4>1
    <3> QED BY <1>4, <1>6, <3>1, <3>2, UpdatedAt
  <2> QED BY <2>1, <2>2
<1>9. AgreeOn(v, it')
  <2>1. v \in Seq(Elements)
    BY <1>4
  <2> QED BY <1>6, <1>7, <1>8, <2>1, UpdatedAgree
<1>10. HeldBy(v, h, t)
  <2>1. n + 1 \in 1..Len(v)
    BY <1>4
  <2> QED BY <1>3, <1>4, <2>1 DEF HeldBy
<1>11. ASSUME NEW g \in Holders \ {h} PROVE HeldBy(v, g, TimerOf(g))
  <2>1. ASSUME NEW k \in 1..n, w[k].token = g, w[k].timer = TimerOf(g) PROVE HeldBy(v, g, TimerOf(g))
    <3>1. k \in 1..Len(v) /\ v[k] = w[k]
      BY <1>4
    <3> QED BY <2>1, <3>1 DEF HeldBy
  <2>2. CASE TimerOf(g) = NoTimer /\ \A k \in 1..n : w[k].token # g
    <3>1. \A k \in 1..Len(v) : v[k].token # g
      BY <1>3, <1>4, <1>5, <2>2
    <3> QED BY <2>2, <3>1 DEF HeldBy
  <2>3. HeldBy(w, g, TimerOf(g))
    BY <1>1
  <2> QED BY <2>1, <2>2, <2>3 DEF HeldBy
<1> QED BY <1>2, <1>9, <1>10, <1>11

\* A token is moved to another holder.
LEMMA MoveAgrees ==
  ASSUME TimersInv, TimersInv', AgreeOn(runningTimers, it),
         NEW h \in Holders, NEW g \in Holders, g # h, it[h] # 0, Move(h, g)
  PROVE  /\ AgreeOn(runningTimers', it')
         /\ HeldBy(runningTimers', h, NoTimer)
         /\ HeldBy(runningTimers', g, TimerOf(h))
         /\ \A x \in Holders \ {g, h} : HeldBy(runningTimers', x, TimerOf(x))
<1> DEFINE w == Without(g)
           n == Len(w)
           u == updateTokens(w, it)
           i == u[h]
           e == [w[i] EXCEPT !.token = g]
           v == ReplaceAt(w, i, e)
<1>1. /\ w \in Seq(Elements) /\ DistinctTokens(w)
      /\ \A k \in 1..n : w[k].token # g
      /\ \A x \in Holders \ {g} : HeldBy(w, x, TimerOf(x))
      /\ \A x \in Holders : it[x] = 0 => \A k \in 1..n : w[k].token # x
      /\ \A x \in Holders \ {g} : it[x] # 0 => \E k \in 1..n : w[k].token = x
  BY WithoutHeld DEF TimersInv
<1>2. runningTimers' = v /\ it' = [u EXCEPT ![g] = i, ![h] = 0]
  BY DEF Move
<1> HIDE DEF w
<1>3. u \in [Holders -> Nat]
  BY <1>1, UpdatedType DEF TimersInv, TypeOK
<1>4. PICK p \in 1..n : w[p].token = h
  BY <1>1
<1>5. \A k \in 1..n : u[w[k].token] = k
  BY <1>1, UpdatedAt
<1>6. i = p
  BY <1>4, <1>5
<1>7. \A x \in Holders \ {g} : (\A k \in 1..n : w[k].token # x) => u[x] = 0
  BY <1>1, UpdatedAt
<1> HIDE DEF u
<1>8. e \in Elements /\ e.token = g /\ e.timer = w[p].timer
  <2>1. w[p] \in Elements
    BY <1>1, <1>4
  <2> QED BY <1>6, <2>1 DEF Elements
<1> HIDE DEF e
<1>9. /\ v \in Seq(Elements) /\ Len(v) = n /\ n \in Nat
      /\ \A k \in 1..n : v[k] = IF k = p THEN e ELSE w[k]
  BY <1>1, <1>6, <1>8, Replaced
<1>10. \A k \in 1..n : k # p => v[k].token # g /\ v[k].token # h
  BY <1>1, <1>4, <1>9 DEF DistinctTokens
<1> HIDE DEF v
<1>11. it'[g] = p /\ it'[h] = 0 /\ \A x \in Holders \ {g, h} : it'[x] = u[x]
  BY <1>2, <1>3, <1>6
<1>12. AgreeOn(v, it')
  <2>1. ASSUME NEW k \in 1..Len(v) PROVE it'[v[k].token] = k
    <3>1. CASE k = p
      BY <1>8, <1>9, <1>11, <3>1
    <3>2. CASE k # p
      <4>1. v[k] = w[k] /\ v[k] \in Elements
        BY <1>9, <3>2
      <4>2. v[k].token \in Holders \ {g, h}
        BY <1>9, <1>10, <3>2, <4>1 DEF Elements
      <4> QED BY <1>5, <1>9, <1>11, <4>1, <4>2
    <3> QED BY <3>1, <3>2
  <2>2. ASSUME NEW x \in Holders, it'[x] # 0 PROVE it'[x] \in 1..Len(v) /\ v[it'[x]].token = x
    <3>1. CASE x = g
      BY <1>8, <1>9, <1>11, <3>1
    <3>2. CASE x # g
      <4>1. x # h /\ it'[x] = u[x]
        BY <1>11, <2>2, <3>2
      <4>2. PICK k \in 1..n : w[k].token = x
        BY <1>7, <2>2, <3>2, <4>1
      <4>3. k # p
        BY <1>4, <4>1, <4>2
      <4> QED BY <1>5, <1>9, <4>1, <4>2, <4>3
    <3> QED BY <3>1, <3>2
  <2> QED BY <2>1, <2>2 DEF AgreeOn
<1>13. HeldBy(v, h, NoTimer)
  <2>1. \A k \in 1..Len(v) : v[k].token # h
    BY <1>8, <1>9, <1>10
  <2> QED BY <2>1 DEF HeldBy
<1>14. HeldBy(v, g, TimerOf(h))
  <2>1. HeldBy(w, h, TimerOf(h))
    BY <1>1
  <2>2. w[p].timer = TimerOf(h)
    BY <1>1, <1>4, <2>1 DEF HeldBy, DistinctTokens
  <2> QED BY <1>8, <1>9, <2>2 DEF HeldBy
<1>15. ASSUME NEW x \in Holders \ {g, h} PROVE HeldBy(v, x, TimerOf(x))
  <2>1. ASSUME NEW k \in 1..n, w[k].token = x, w[k].timer = TimerOf(x) PROVE HeldBy(v, x, TimerOf(x))
    <3>1. k # p
      BY <1>4, <2>1
    <3>2. k \in 1..Len(v) /\ v[k] = w[k]
      BY <1>9, <3>1
    <3> QED BY <2>1, <3>2 DEF HeldBy
  <2>2. CASE TimerOf(x) = NoTimer /\ \A k \in 1..n : w[k].token # x
    <3>1. \A k \in 1..Len(v) : v[k].token # x
      BY <1>8, <1>9, <2>2
    <3> QED BY <2>2, <3>1 DEF HeldBy
  <2>3. HeldBy(w, x, TimerOf(x))
    BY <1>1
  <2> QED BY <2>1, <2>2, <2>3 DEF HeldBy
<1> QED BY <1>2, <1>12, <1>13, <1>14, <1>15

\* The last timer expires.
LEMMA EraseLastAgrees ==
  ASSUME TimersInv, AgreeOn(runningTimers, it), Size > 0, EraseLast
  PROVE  /\ Last(runningTimers).token \in Holders
         /\ AgreeOn(runningTimers', it')
         /\ HeldBy(runningTimers', Last(runningTimers).token, NoTimer)
         /\ \A g \in Holders \ {Last(runningTimers).token} : HeldBy(runningTimers', g, TimerOf(g))
<1> DEFINE v == runningTimers
           w == Front(runningTimers)
           n == Len(v)
           h == Last(runningTimers).token
<1>1. v \in Seq(Elements) /\ it \in [Holders -> Nat] /\ n \in Nat /\ n > 0
  BY DEF TimersInv, TypeOK, Size
<1>2. w \in Seq(Elements) /\ Len(w) = n - 1 /\ \A k \in 1..(n - 1) : w[k] = v[k]
  BY <1>1, Shortened
<1>3. Last(v) = v[n] /\ v[n] \in Elements
  BY <1>1 DEF Last
<1>4. h = v[n].token /\ h \in Holders
  BY <1>3 DEF Elements
<1>5. runningTimers' = w /\ it' = [g \in Holders |-> IF g = h THEN 0 ELSE it[g]]
  BY DEF EraseLast
<1>6. DistinctTokens(v) /\ \A g \in Holders : HeldBy(v, g, TimerOf(g))
  BY <1>1, AgreeingTokens DEF TimerOf, Size
<1> HIDE DEF w, h
<1>7. \A k \in 1..(n - 1) : w[k].token # h /\ w[k].token \in Holders
  <2>1. ASSUME NEW k \in 1..(n - 1) PROVE v[k].token # h /\ v[k].token \in Holders
    <3>1. k \in 1..n /\ k # n /\ n \in 1..n /\ v[k] \in Elements
      BY <1>1
    <3> QED BY <1>4, <1>6, <3>1 DEF DistinctTokens, Elements
  <2> QED BY <1>2, <2>1
<1>8. AgreeOn(w, it')
  <2>1. ASSUME NEW k \in 1..(n - 1) PROVE it'[w[k].token] = k
    <3>1. it[v[k].token] = k
      BY <1>1 DEF AgreeOn
    <3> QED BY <1>2, <1>5, <1>7, <3>1
  <2>2. ASSUME NEW g \in Holders, it'[g] # 0 PROVE it'[g] \in 1..(n - 1) /\ w[it'[g]].token = g
    <3>1. g # h /\ it'[g] = it[g] /\ it[g] # 0
      BY <1>5, <2>2
    <3>2. it[g] \in 1..n /\ v[it[g]].token = g
      BY <3>1 DEF AgreeOn
    <3>3. it[g] \in 1..(n - 1)
      BY <1>1, <1>4, <3>1, <3>2
    <3> QED BY <1>2, <3>1, <3>2, <3>3
  <2> QED BY <1>2, <2>1, <2>2 DEF AgreeOn
<1>9. HeldBy(w, h, NoTimer)
  BY <1>2, <1>7 DEF HeldBy
<1>10. ASSUME NEW g \in Holders \ {h} PROVE HeldBy(w, g, TimerOf(g))
  <2>1. ASSUME NEW k \in 1..n, v[k].token = g, v[k].timer = TimerOf(g) PROVE HeldBy(w, g, TimerOf(g))
    <3>1. k \in 1..(n - 1)
      BY <1>1, <1>4, <2>1
    <3> QED BY <1>2, <2>1, <3>1 DEF HeldBy
  <2>2. CASE TimerOf(g) = NoTimer /\ \A k \in 1..n : v[k].token # g
    <3>1. \A k \in 1..Len(w) : w[k].token # g
      BY <1>1, <1>2, <2>2
    <3> QED BY <2>2, <3>1 DEF HeldBy
  <2> QED BY <1>6, <2>1, <2>2 DEF HeldBy
<1> QED BY <1>4, <1>5, <1>8, <1>9, <1>10 DEF h

\* All timers are cleared.
LEMMA ClearAgrees ==
  ASSUME TimersInv, AgreeOn(runningTimers, it), runningTimers' = <<>>,
         it' = [h \in Holders |-> IF \E k \in 1..Size : runningTimers[k].token = h
                                  THEN 0 ELSE it[h]]
  PROVE  /\ AgreeOn(runningTimers', it')
         /\ \A g \in Holders : HeldBy(runningTimers', g, NoTimer)
<1>1. \A h \in Holders : it[h] # 0 => it[h] \in 1..Size /\ runningTimers[it[h]].token = h
  BY DEF AgreeOn, Size
<1>2. \A h \in Holders : it'[h] = 0
  BY <1>1
<1>3. Len(runningTimers') = 0 /\ ~ \E k \in 1..0 : TRUE
  OBVIOUS
<1> QED BY <1>2, <1>3 DEF AgreeOn, HeldBy

\* An element is replaced by another one for the same token.
LEMMA AdjustedAgrees ==
  ASSUME TimersInv, AgreeOn(runningTimers, it), NEW i \in 1..Size, NEW e \in Elements,
         e.timer = runningTimers[i].timer, e.token = runningTimers[i].token,
         runningTimers' = ReplaceAt(runningTimers, i, e), it' = it
  PROVE  /\ AgreeOn(runningTimers', it')
         /\ \A g \in Holders : HeldBy(runningTimers', g, TimerOf(g))
<1>1. Len(runningTimers') = Len(runningTimers)
      /\ \A k \in 1..Len(runningTimers) : /\ runningTimers'[k].token = runningTimers[k].token
                                          /\ runningTimers'[k].timer = runningTimers[k].timer
  BY AdjustedElements DEF Size
<1>2. \A g \in Holders : HeldBy(runningTimers, g, TimerOf(g))
  BY AgreeingTokens DEF TimerOf, Size, TimersInv, TypeOK
<1>3. AgreeOn(runningTimers', it')
  BY <1>1 DEF AgreeOn
<1>4. ASSUME NEW g \in Holders PROVE HeldBy(runningTimers', g, TimerOf(g))
  BY <1>1, <1>2 DEF HeldBy
<1> QED BY <1>3, <1>4

\* The timers that holders have, and will have.
held == [h \in Holders |-> TimerOf(h)]

Becomes(m) ==
  /\ AgreeOn(runningTimers', it') /\ ub' # "iterator past the end"
  /\ m = [h \in Holders |-> m[h]]
  /\ \A h \in Holders : HeldBy(runningTimers', h, m[h])

LEMMA BecomesHeld ==
  ASSUME TimersInv', NEW m, Becomes(m)
  PROVE  TokensInv' /\ held' = m
<1>1. TokensInv'
  BY DEF Becomes, TokensInv, AgreeOn
<1>2. ASSUME NEW h \in Holders PROVE TimerOf(h)' = m[h]
  <2>1. AgreeOn(runningTimers, it)'
    BY <1>1 DEF TokensInv
  <2> QED BY <2>1, HeldAfter DEF Becomes
<1>3. held' = [h \in Holders |-> m[h]]
  BY <1>2 DEF held
<1> QED BY <1>1, <1>3 DEF Becomes

\* Every step leaves tokens in agreement, and what it does to the holders'
\* timers is something that TimerHandles does, unless an expired timer takes
\* the one behind it with it.
LEMMA TokensStep ==
  ASSUME TimersInv, TimersInv', TokensInv, [Next]_vars, ~ExpiresInFront
  PROVE  TokensInv' /\ [Handles!Next]_held
<1>t. /\ runningTimers \in Seq(Elements) /\ it \in [Holders -> Nat] /\ Size \in Nat
      /\ pos \in Nat /\ (pc \in {"loop", "callback"} => pos >= 1)
  BY DEF TimersInv, TypeOK, Size
<1>b. AgreeOn(runningTimers, it) /\ ub # "iterator past the end"
  BY DEF TokensInv
<1>u. \A h \in Holders : it[h] <= Size /\ ~(it[h] > Size)
  <2>1. \A h \in Holders : it[h] # 0 => it[h] \in 1..Size
    BY <1>b DEF AgreeOn, Size
  <2> QED BY <1>t, <2>1
<1>h. held \in [Holders -> Timers \cup {NoTimer}] /\ \A h \in Holders : held[h] = TimerOf(h)
  BY <1>t, ElementTypes DEF held, TimerOf
<1>s. ASSUME UNCHANGED tokenVars, ub' # "iterator past the end"
      PROVE  TokensInv' /\ [Handles!Next]_held
  <2>1. \A h \in Holders : HeldBy(runningTimers, h, TimerOf(h))
    BY <1>t, <1>b, AgreeingTokens DEF TimerOf, Size
  <2>2. Becomes(held)
    BY <1>t, <1>b, <1>s, <2>1 DEF Becomes, tokenVars, held
  <2> QED BY <2>2, BecomesHeld
<1>1. ASSUME NEW h \in Holders, ResetToken(h) PROVE TokensInv' /\ [Handles!Next]_held
  <2>1. CASE Reset(h) /\ ub' = ub
    <3>1. Becomes([held EXCEPT ![h] = NoTimer])
      BY <1>t, <1>b, <1>h, <1>1, <2>1, ResetAgrees DEF Becomes, ResetToken
    <3>2. Handles!End(h)
      BY <3>1, BecomesHeld DEF Handles!End, held
    <3> QED BY <3>1, <3>2, BecomesHeld DEF Handles!Next
  <2>2. CASE ResetIsUndefined(h) /\ UNCHANGED tokenVars
    <3>1. ub' # "iterator past the end"
      BY <1>u, <2>2 DEF ResetIsUndefined, Undefined
    <3> QED BY <1>s, <2>2, <3>1
  <2> QED BY <1>1, <2>1, <2>2 DEF ResetToken
<1>2. ASSUME NEW h \in Holders, NEW g \in Holders, MoveToken(h, g)
      PROVE  TokensInv' /\ [Handles!Next]_held
  <2>1. CASE Move(h, g) /\ ub' = ub
    <3>1. Becomes([held EXCEPT ![g] = held[h], ![h] = NoTimer])
      BY <1>t, <1>b, <1>h, <1>2, <2>1, MoveAgrees DEF Becomes, MoveToken
    <3>2. Handles!Move(h, g)
      BY <3>1, BecomesHeld DEF Handles!Move, held
    <3> QED BY <1>2, <3>1, <3>2, BecomesHeld DEF Handles!Next, MoveToken
  <2>2. CASE it[h] > Size \/ (it[g] \in 1..Size /\ updateTokens(Without(g), it)[h] = Size)
    <3>1. it[g] \in 1..Size /\ updateTokens(Without(g), it)[h] = Size /\ it[h] # 0 /\ g # h
      BY <1>u, <1>2, <2>2 DEF MoveToken
    <3> DEFINE w == Without(g)
    <3>2. /\ w \in Seq(Elements) /\ DistinctTokens(w)
          /\ \E k \in 1..Len(w) : w[k].token = h
      BY <1>t, <1>b, <3>1, WithoutHeld DEF TimersInv
    <3>3. Len(w) = Size - 1
      BY <1>t, <3>1, Erased DEF Without, Size
    <3> HIDE DEF w
    <3>4. PICK k \in 1..Len(w) : w[k].token = h
      BY <3>2
    <3>5. updateTokens(w, it)[h] = k
      BY <3>2, <3>4, UpdatedAt
    <3> QED BY <1>t, <3>1, <3>3, <3>5 DEF w
  <2>3. CASE ResetIsUndefined(g) /\ UNCHANGED tokenVars
    <3>1. ub' # "iterator past the end"
      BY <1>u, <2>3 DEF ResetIsUndefined, Undefined
    <3> QED BY <1>s, <2>3, <3>1
  <2> QED BY <1>2, <2>1, <2>2, <2>3 DEF MoveToken
<1>3. ASSUME NEW h \in Holders, NEW t \in Timers, StartTimer(h, t)
      PROVE  TokensInv' /\ [Handles!Next]_held
  <2>1. CASE Emplace(h, t) /\ ub' = ub
    <3>1. Becomes([held EXCEPT ![h] = t])
      BY <1>t, <1>b, <1>h, <2>1, EmplaceAgrees DEF Becomes
    <3>2. \A g \in Holders : held[g] # t
      <4>1. ASSUME NEW k \in 1..Size PROVE runningTimers[k].timer # t
        BY <1>3, ElementTypes DEF StartTimer
      <4> QED BY <1>h, <4>1, NamesAssumption DEF TimerOf
    <3>3. Handles!Assign(h, t)
      BY <3>1, <3>2, BecomesHeld DEF Handles!Assign, held
    <3> QED BY <3>1, <3>3, BecomesHeld DEF Handles!Next
  <2>2. CASE StartIsUndefined(h) /\ UNCHANGED tokenVars
    <3>1. ub' # "iterator past the end"
      BY <1>u, <2>2 DEF StartIsUndefined, Undefined
    <3> QED BY <1>s, <2>2, <3>1
  <2> QED BY <1>3, <2>1, <2>2 DEF StartTimer
<1>a. ASSUME NEW i \in 1..Size, NEW e \in Elements,
             e.timer = runningTimers[i].timer, e.token = runningTimers[i].token,
             runningTimers' = ReplaceAt(runningTimers, i, e), it' = it, ub' = ub
      PROVE  TokensInv' /\ [Handles!Next]_held
  <2>1. Becomes(held)
    BY <1>t, <1>b, <1>a, <1>h, AdjustedAgrees DEF Becomes
  <2> QED BY <2>1, BecomesHeld
<1>4. ASSUME NEW h \in Holders, NEW e, Adjust(h, e),
             it[h] \in 1..Size => /\ e \in Elements /\ e.timer = runningTimers[it[h]].timer
                                  /\ e.token = runningTimers[it[h]].token
      PROVE  TokensInv' /\ [Handles!Next]_held
  <2>1. ~(it[h] > Size)
    BY <1>t, <1>u
  <2> QED BY <1>4, <1>a, <2>1 DEF Adjust
<1>5. ASSUME NEW h \in Holders,
             TokenStop(h) \/ TokenStart(h) \/ TokenAgain(h) \/ \E i \in NewIntervals : TokenStartEvery(h, i)
      PROVE  TokensInv' /\ [Handles!Next]_held
  <2> DEFINE e == runningTimers[it[h]]
  <2>1. it[h] \in 1..Size => e \in Elements
    BY <1>t DEF Size
  <2> HIDE DEF e
  <2>2. CASE TokenStop(h)
    BY <1>4, <2>1, <2>2 DEF TokenStop, Elements, e
  <2>3. CASE TokenStart(h)
    BY <1>4, <2>1, <2>3 DEF TokenStart, Elements, e
  <2>4. CASE TokenAgain(h)
    <3>1. it[h] \in 1..Size => clock + e.interval \in Int
      BY <2>1, CountTypes DEF Elements
    <3> QED BY <1>4, <2>1, <2>4, <3>1 DEF TokenAgain, Elements, e
  <2>5. ASSUME NEW i \in NewIntervals, TokenStartEvery(h, i)
        PROVE  TokensInv' /\ [Handles!Next]_held
    BY <1>4, <2>1, <2>5, IntervalAssumption DEF TokenStartEvery, Elements, e
  <2> QED BY <1>5, <2>2, <2>3, <2>4, <2>5
<1>6. CASE clearTimers
  <2>1. CASE /\ runningTimers' = <<>>
             /\ it' = [h \in Holders |-> IF \E k \in 1..Size : runningTimers[k].token = h
                                         THEN 0 ELSE it[h]]
             /\ ub' = ub
    <3>1. Becomes([h \in Holders |-> NoTimer])
      BY <1>t, <1>b, <2>1, ClearAgrees DEF Becomes
    <3>2. Handles!Clear
      BY <3>1, BecomesHeld DEF Handles!Clear, held
    <3> QED BY <3>1, <3>2, BecomesHeld DEF Handles!Next
  <2>2. CASE UNCHANGED tokenVars /\ ub' = "timer destroyed in its callback"
    BY <1>s, <2>2
  <2> QED BY <1>6, <2>1, <2>2 DEF clearTimers, Undefined
<1>7. CASE Tick \/ fire \/ Skip \/ CallbackGoesOn \/ fireReturns
  BY <1>b, <1>s, <1>7 DEF Tick, fire, Skip, CallbackGoesOn, fireReturns
<1>8. CASE SkipPaused \/ Call
  <2> DEFINE e == runningTimers[pos]
             d == [e EXCEPT !.next = nextTick(e)]
  <2>1. pos \in 1..Size /\ runningTimers' = ReplaceAt(runningTimers, pos, d) /\ it' = it /\ ub' = ub
    BY <1>t, <1>8 DEF SkipPaused, Call
  <2>2. e \in Elements /\ e.interval \in Nat \ {0} /\ e.next \in Int
    BY <2>1, ElementTypes
  <2>3. nextTick(e) \in Int
    <3> HIDE DEF e
    <3> QED BY <2>2, CountTypes DEF nextTick
  <2>4. d \in Elements /\ d.timer = e.timer /\ d.token = e.token
    BY <2>2, <2>3 DEF Elements
  <2> HIDE DEF d
  <2> QED BY <1>a, <2>1, <2>4
<1>9. CASE CallbackEnds
  <2>1. EraseLast /\ pos = Size /\ Size > 0 /\ ub' = ub
    BY <1>t, <1>9 DEF CallbackEnds, ExpiresInFront, EraseExpired
  <2> DEFINE h == Last(runningTimers).token
  <2>2. h \in Holders /\ Becomes([held EXCEPT ![h] = NoTimer])
    BY <1>t, <1>b, <1>h, <2>1, EraseLastAgrees DEF Becomes
  <2> HIDE DEF h
  <2>3. Handles!End(h)
    BY <2>2, BecomesHeld DEF Handles!End, held
  <2> QED BY <2>2, <2>3, BecomesHeld DEF Handles!Next
<1>10. CASE UNCHANGED vars
  BY <1>b, <1>s, <1>10 DEF vars
<1> QED BY <1>1, <1>2, <1>3, <1>5, <1>6, <1>7, <1>8, <1>9, <1>10 DEF Next

\* Tokens agree at first.
LEMMA TokensInit == Init => TokensInv /\ Handles!Init
<1> SUFFICES ASSUME Init PROVE TokensInv /\ Handles!Init
  OBVIOUS
<1>1. Len(runningTimers) = 0 /\ \A h \in Holders : it[h] = 0
  BY DEF Init
<1>2. AgreeOn(runningTimers, it)
  BY <1>1 DEF AgreeOn
<1>3. \A h \in Holders : TimerOf(h) = NoTimer
  BY <1>1 DEF TimerOf, Size
<1> QED BY <1>2, <1>3 DEF TokensInv, Handles!Init, Init

\* Every token in use points at the element that points back at it, whatever the
\* program and its callbacks do with tokens, as long as no timer expires in front
\* of another one: EraseOverwriting is the only way to lose a timer, and it always
\* starts there (TimedCallbacks.cpp:47-59, 79-105, 157-185).
THEOREM TokensAlwaysAgree == Spec /\ [][~ExpiresInFront]_vars => []TokensAgree
<1>1. Init => TokensInv
  BY TokensInit
<1>2. TimersInv /\ TimersInv' /\ TokensInv /\ [Next]_vars /\ [~ExpiresInFront]_vars => TokensInv'
  <2>1. ASSUME TimersInv, TimersInv', TokensInv, UNCHANGED vars PROVE TokensInv'
    BY <2>1 DEF TokensInv, AgreeOn, vars, tokenVars
  <2> QED BY <2>1, TokensStep
<1>3. TimersInv /\ TokensInv => TokensAgree
  <2> SUFFICES ASSUME TimersInv, TokensInv PROVE TokensAgree
    OBVIOUS
  <2>1. \A h \in Holders : it[h] # 0 => it[h] <= Size /\ runningTimers[it[h]].token = h
    <3>1. Size \in Nat
      BY DEF TimersInv, TypeOK, Size
    <3>2. \A h \in Holders : it[h] # 0 => it[h] \in 1..Size /\ runningTimers[it[h]].token = h
      BY DEF TokensInv, AgreeOn, Size
    <3> QED BY <3>1, <3>2
  <2>2. \A k \in 1..Size : it[runningTimers[k].token] = k
    BY DEF TokensInv, AgreeOn, Size
  <2> QED BY <2>1, <2>2 DEF TokensAgree, TokensInv, TimersInv
<1> QED BY <1>1, <1>2, <1>3, TimersInvariant, PTL DEF Spec

\* Then a token stands for one timer until its holder, clearTimers or the timer's
\* own callback ends it: the vector implements TimerHandles.
THEOREM RefinesHandles == Spec /\ [][~ExpiresInFront]_vars => ImplementsHandles
<1>1. Init => TokensInv /\ Handles!Init
  BY TokensInit
<1>2. TimersInv /\ TimersInv' /\ TokensInv /\ [Next]_vars /\ [~ExpiresInFront]_vars
      => TokensInv' /\ [Handles!Next]_held
  <2>1. ASSUME TimersInv, TokensInv, UNCHANGED vars PROVE TokensInv' /\ held' = held
    BY <2>1 DEF TokensInv, AgreeOn, vars, tokenVars, held, TimerOf, Size
  <2> QED BY <2>1, TokensStep
<1> QED BY <1>1, <1>2, TimersInvariant, PTL DEF Spec, ImplementsHandles, Handles!Spec, held

\* Both hold of programs whose callbacks never ask to be stopped.
COROLLARY LastingTimers ==
  ASSUME OneShot = {} PROVE Spec => []TokensAgree /\ ImplementsHandles
<1>1. [Next]_vars => [~ExpiresInFront]_vars
  BY DEF ExpiresInFront, CallbackEnds
<1> QED BY <1>1, TokensAlwaysAgree, RefinesHandles, PTL DEF Spec
=============================================================================
