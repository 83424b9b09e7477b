--------------------------- MODULE TimedCallbacks ---------------------------
(***************************************************************************)
(* Timers multiplexed on one event-loop timer (TimedCallbacks.hpp, .cpp):  *)
(* runningTimers is a vector whose elements point at their tokens, and the *)
(* tokens hold iterators into it, kept right by updateTokens.  fire() goes *)
(* through the vector by index and calls user code, which may operate on   *)
(* the tokens of other timers.                                             *)
(*                                                                         *)
(* A holder is a variable of the program that a token is assigned to; each *)
(* timer is started once.  An iterator is an index.  What a step does that *)
(* C++ leaves undefined is recorded in ub and nothing follows it, but for  *)
(* the nested erase described at EraseExpired, of which the outcome that   *)
(* the library's vector produces is modelled.                              *)
(***************************************************************************)
EXTENDS Integers, FiniteSets, SequencesExt

CONSTANTS
  Timers, Holders,
  NoTimer,
  Interval,      \* interval each timer is made with
  NewIntervals,  \* and those that start(interval) sets
  OneShot,       \* timers whose callback may return false
  CallbackOps,   \* what callbacks do to the timers
  MaxTime        \* bound on the clock

AllCallbackOps == {"resetOwn", "resetEarlier", "resetLater", "start", "adjust", "clear"}

ASSUME NamesAssumption    == NoTimer \notin Timers
ASSUME IntervalAssumption == /\ Interval \in [Timers -> Nat \ {0}]
                             /\ NewIntervals \subseteq Nat \ {0}
ASSUME UseAssumption      == OneShot \subseteq Timers /\ CallbackOps \subseteq AllCallbackOps
ASSUME TimeAssumption     == MaxTime \in Nat

VARIABLES
  runningTimers,  \* sequence of [timer, token, interval, next, paused]
  capacity,       \* of the vector
  it,             \* each token's iterator, 0 when its tc is null
  pc, pos,        \* where fire() is: its program point and its iterator
  fireTime,       \* fire()'s now
  clock,
  started,        \* timers that were started
  ub,
  calls, burst,   \* calls of each callback: all, and those of the current time
  born            \* when each timer was started

tokenVars == <<runningTimers, it>>
fireVars  == <<pc, pos, fireTime>>
countVars == <<calls, burst, born>>
vars == <<tokenVars, capacity, fireVars, clock, started, ub, countVars>>

Size == Len(runningTimers)

Undefined(what) == ub' = what /\ pc' = "undefined"

-----------------------------------------------------------------------------
(* The vector and its tokens *)

\* Mutant: the vector moves its elements, and the tokens are not told.
updateNothing(v, i) == i

\* updateTokens: the elements v tell their tokens where they are.
updateTokens(v, i) ==
  [h \in Holders |-> IF \E k \in DOMAIN v : v[k].token = h
                     THEN CHOOSE k \in DOMAIN v : v[k].token = h
                     ELSE i[h]]

\* TimerToken = nullptr on a token in use.
Reset(h) ==
  LET v == RemoveAt(runningTimers, it[h])
  IN  /\ runningTimers' = v
      /\ it' = [updateTokens(v, it) EXCEPT ![h] = 0]

\* The vector when h has stopped the timer that it had.
Without(h) == IF it[h] = 0 THEN runningTimers ELSE RemoveAt(runningTimers, it[h])

\* timer(), assigned to h: emplace at the end, then the old timer is stopped.
Emplace(h, t) ==
  LET e == [timer |-> t, token |-> h, interval |-> Interval[t],
            next |-> clock + Interval[t], paused |-> FALSE]
      v == Append(Without(h), e)
  IN  /\ runningTimers' = v
      /\ it' = [updateTokens(v, it) EXCEPT ![h] = Len(v)]

\* Mutant: takes h's iterator before g's timer is stopped.
MoveStale(h, g) ==
  LET v == Without(g)
  IN  /\ it[h] <= Len(v)
      /\ runningTimers' = ReplaceAt(v, it[h], [v[it[h]] EXCEPT !.token = g])
      /\ it' = [updateTokens(v, it) EXCEPT ![g] = it[h], ![h] = 0]

\* The token of h is moved to g: g's timer is stopped, which moves h's.
Move(h, g) ==
  LET v == Without(g)
      i == updateTokens(v, it)[h]
  IN  /\ i <= Len(v)
      /\ runningTimers' = ReplaceAt(v, i, [v[i] EXCEPT !.token = g])
      /\ it' = [updateTokens(v, it) EXCEPT ![g] = i, ![h] = 0]

Reallocates == Size = capacity

Grow == capacity' = IF ~Reallocates THEN capacity ELSE IF capacity = 0 THEN 1 ELSE 2 * capacity

\* Every element has a live token: without one it is stopped.  The move
\* assignment that vector::erase overwrites it with resets that token, which
\* stops the timer by a nested erase; the outer one goes on to overwrite the
\* element behind, too, of which the token keeps an iterator to this place.
EraseOverwriting(i) ==
  LET v == RemoveAt(RemoveAt(runningTimers, i), i)
      behind == runningTimers[i + 1].token
  IN  /\ runningTimers' = v
      /\ it' = [h \in Holders |-> IF h = runningTimers[i].token THEN 0
                                  ELSE IF h = behind THEN i
                                  ELSE updateTokens(v, it)[h]]

\* The last element is only destroyed, and ~TimerInfo clears its token.
EraseLast ==
  /\ runningTimers' = Front(runningTimers)
  /\ it' = [h \in Holders |-> IF h = Last(runningTimers).token THEN 0 ELSE it[h]]

EraseExpired(i) == (i = Size /\ EraseLast) \/ (i < Size /\ EraseOverwriting(i))

-----------------------------------------------------------------------------
Init ==
  /\ runningTimers = <<>>
  /\ capacity = 0
  /\ it = [h \in Holders |-> 0]
  /\ pc = "idle" /\ pos = 0 /\ fireTime = 0
  /\ clock = 0
  /\ started = {}
  /\ ub = "none"
  /\ calls = [t \in Timers |-> 0]
  /\ burst = [t \in Timers |-> 0]
  /\ born = [t \in Timers |-> 0]

-----------------------------------------------------------------------------
(* Operations of the program, at top level or in a callback *)

InCallback(op) == pc = "callback" /\ op \in CallbackOps

\* A reset in a callback destroys the running callback or moves it, unless the
\* timer comes later in the vector.  An iterator past the end is not usable.
ResetIsUndefined(h) ==
  \/ it[h] > Size /\ Undefined("iterator past the end")
  \/ /\ InCallback("resetOwn") /\ it[h] = pos
     /\ Undefined("timer destroyed in its callback")
  \/ /\ InCallback("resetEarlier") /\ it[h] < pos
     /\ Undefined("callback moved while it runs")

ResetToken(h) ==
  /\ it[h] # 0
  /\ pc \in {"idle", "callback"}
  /\ \/ /\ it[h] <= Size
        /\ pc = "idle" \/ (InCallback("resetLater") /\ it[h] > pos)
        /\ Reset(h)
        /\ UNCHANGED <<ub, pc>>
     \/ ResetIsUndefined(h) /\ UNCHANGED tokenVars
  /\ UNCHANGED <<capacity, pos, fireTime, clock, started, countVars>>

MoveToken(h, g) ==
  /\ g # h /\ it[h] # 0
  /\ pc \in {"idle", "callback"}
  /\ \/ /\ it[h] <= Size /\ it[g] <= Size
        /\ pc = "idle" \/ it[g] = 0 \/ (InCallback("resetLater") /\ it[g] > pos)
        /\ Move(h, g)
        /\ UNCHANGED <<ub, pc>>
     \/ /\ it[h] > Size \/ (it[g] \in 1..Size /\ updateTokens(Without(g), it)[h] = Size)
        /\ Undefined("iterator past the end") /\ UNCHANGED tokenVars
     \/ it[g] # 0 /\ ResetIsUndefined(g) /\ UNCHANGED tokenVars
  /\ UNCHANGED <<capacity, pos, fireTime, clock, started, countVars>>

\* In a callback, a vector that grows invalidates fire()'s iterator.
StartIsUndefined(h) ==
  \/ it[h] > Size /\ Undefined("iterator past the end")
  \/ pc = "callback" /\ Reallocates /\ Undefined("iterator invalidated")
  \/ pc = "callback" /\ it[h] = pos /\ Undefined("timer destroyed in its callback")
  \/ pc = "callback" /\ it[h] \in 1..(pos - 1) /\ Undefined("callback moved while it runs")

StartTimer(h, t) ==
  /\ pc = "idle" \/ InCallback("start")
  /\ t \notin started
  /\ started' = started \cup {t}
  /\ born' = [born EXCEPT ![t] = clock]
  /\ Grow
  /\ \/ /\ it[h] <= Size
        /\ pc = "callback" => ~Reallocates /\ it[h] \notin 1..pos
        /\ Emplace(h, t)
        /\ UNCHANGED <<ub, pc>>
     \/ StartIsUndefined(h) /\ UNCHANGED tokenVars
  /\ UNCHANGED <<pos, fireTime, clock, calls, burst>>

Adjust(h, e) ==
  /\ pc = "idle" \/ InCallback("adjust")
  /\ \/ /\ it[h] \in 1..Size
        /\ runningTimers' = ReplaceAt(runningTimers, it[h], e)
        /\ UNCHANGED <<ub, pc>>
     \/ it[h] > Size /\ Undefined("iterator past the end") /\ UNCHANGED runningTimers
  /\ UNCHANGED <<it, capacity, pos, fireTime, clock, started, countVars>>

TokenStop(h) == Adjust(h, [runningTimers[it[h]] EXCEPT !.paused = TRUE])

TokenStart(h) == Adjust(h, [runningTimers[it[h]] EXCEPT !.paused = FALSE])

TokenStartEvery(h, i) ==
  Adjust(h, [runningTimers[it[h]] EXCEPT !.paused = FALSE, !.interval = i])

TokenAgain(h) ==
  Adjust(h, [runningTimers[it[h]] EXCEPT
               !.paused = FALSE, !.next = clock + runningTimers[it[h]].interval])

clearTimers ==
  /\ Size > 0
  /\ \/ /\ pc = "idle"
        /\ runningTimers' = <<>>
        /\ it' = [h \in Holders |-> IF \E k \in 1..Size : runningTimers[k].token = h
                                    THEN 0 ELSE it[h]]
        /\ UNCHANGED <<ub, pc>>
     \/ InCallback("clear") /\ Undefined("timer destroyed in its callback")
                            /\ UNCHANGED tokenVars
  /\ UNCHANGED <<capacity, pos, fireTime, clock, started, countVars>>

Tick ==
  /\ pc \in {"idle", "callback"}
  /\ clock < MaxTime
  /\ clock' = clock + 1
  /\ burst' = [t \in Timers |-> 0]
  /\ UNCHANGED <<tokenVars, capacity, fireVars, started, ub, calls, born>>

-----------------------------------------------------------------------------
(* fire(), the callback of the event loop's timer *)

fire ==
  /\ pc = "idle"
  /\ pc' = "loop" /\ pos' = 1 /\ fireTime' = clock
  /\ UNCHANGED <<tokenVars, capacity, clock, started, ub, countVars>>

\* Mutant: a late timer catches up with every tick it missed.
nextTickAll(e) == e.next + e.interval

\* The next tick: at most two missed ones are made up for.
nextTick(e) ==
  IF e.next + e.interval > fireTime - 2 * e.interval
  THEN e.next + e.interval
  ELSE fireTime - 2 * e.interval

\* maybeCall up to the callback.
Skip ==
  /\ pc = "loop" /\ pos <= Size
  /\ fireTime < runningTimers[pos].next
  /\ pos' = pos + 1
  /\ UNCHANGED <<tokenVars, capacity, pc, fireTime, clock, started, ub, countVars>>

\* Mutant: a timer is due at once.
DueAtOnce(e) == ~e.paused

Due(e) == fireTime >= e.next

SkipPaused ==
  /\ pc = "loop" /\ pos <= Size
  /\ LET e == runningTimers[pos]
     IN  /\ Due(e) /\ e.paused
         /\ runningTimers' = ReplaceAt(runningTimers, pos, [e EXCEPT !.next = nextTick(e)])
  /\ pos' = pos + 1
  /\ UNCHANGED <<it, capacity, pc, fireTime, clock, started, ub, countVars>>

Call ==
  /\ pc = "loop" /\ pos <= Size
  /\ LET e == runningTimers[pos]
     IN  /\ Due(e) /\ ~e.paused
         /\ runningTimers' = ReplaceAt(runningTimers, pos, [e EXCEPT !.next = nextTick(e)])
         /\ calls' = [calls EXCEPT ![e.timer] = @ + 1]
         /\ burst' = [burst EXCEPT ![e.timer] = @ + (IF fireTime = clock THEN 1 ELSE 0)]
  /\ pc' = "callback"
  /\ UNCHANGED <<it, capacity, pos, fireTime, clock, started, ub, born>>

\* The callback returns true, and then false.
CallbackGoesOn ==
  /\ pc = "callback"
  /\ pc' = "loop" /\ pos' = pos + 1
  /\ UNCHANGED <<tokenVars, capacity, fireTime, clock, started, ub, countVars>>

CallbackEnds ==
  /\ pc = "callback" /\ runningTimers[pos].timer \in OneShot
  /\ EraseExpired(pos)
  /\ pc' = "loop"
  /\ UNCHANGED <<capacity, pos, fireTime, clock, started, ub, countVars>>

fireReturns ==
  /\ pc = "loop" /\ pos > Size
  /\ pc' = "idle" /\ pos' = 0 /\ fireTime' = 0
  /\ UNCHANGED <<tokenVars, capacity, clock, started, ub, countVars>>

-----------------------------------------------------------------------------
Next ==
  \/ \E h \in Holders : \/ ResetToken(h) \/ TokenStop(h) \/ TokenStart(h) \/ TokenAgain(h)
                        \/ \E i \in NewIntervals : TokenStartEvery(h, i)
                        \/ \E g \in Holders : MoveToken(h, g)
                        \/ \E t \in Timers : StartTimer(h, t)
  \/ clearTimers \/ Tick
  \/ fire \/ Skip \/ SkipPaused \/ Call \/ CallbackGoesOn \/ CallbackEnds \/ fireReturns

Spec == Init /\ [][Next]_vars

-----------------------------------------------------------------------------
(* Properties *)

Elements ==
  [timer : Timers, token : Holders, interval : Nat \ {0}, next : Int, paused : BOOLEAN]

\* The values the variables take: the vector fits its capacity, and no timer
\* is in it twice.
TypeOK ==
  /\ runningTimers \in Seq(Elements)
  /\ \A j, k \in DOMAIN runningTimers :
       j # k => runningTimers[j].timer # runningTimers[k].timer
  /\ capacity \in Nat /\ Size <= capacity
  /\ it \in [Holders -> Nat]
  /\ pc \in {"idle", "loop", "callback", "undefined"}
  /\ pos \in Nat /\ fireTime \in Nat /\ clock \in Nat
  /\ started \subseteq Timers
  /\ {calls, burst, born} \subseteq [Timers -> Nat]

\* Every token in use points at the element that points back at it, across the
\* moves of erase and of growing: no token is left behind, none points at
\* another holder's timer, and no timer runs that nobody holds.  No token is used
\* whose iterator does not point into the vector, as long as timers are ended by
\* their tokens.
TokensAgree ==
  /\ TypeOK
  /\ ub # "iterator past the end"
  /\ \A h \in Holders : it[h] # 0 => it[h] <= Size /\ runningTimers[it[h]].token = h
  /\ \A k \in 1..Size : it[runningTimers[k].token] = k

\* A callback is not called more often than its interval allows, however late
\* fire() comes, as long as nobody shortens the interval.
RateBound ==
  \A t \in started : calls[t] * Interval[t] <= clock - born[t]

\* A timer makes up for at most two missed ticks: with the one that was waited
\* for and the current one, four calls while the clock stands still.
AtMostTwoMissed == \A t \in Timers : burst[t] <= 4

TimerOf(h) == IF it[h] \in 1..Size THEN runningTimers[it[h]].timer ELSE NoTimer

Handles == INSTANCE TimerHandles WITH timerOf <- [h \in Holders |-> TimerOf(h)]

\* A token stands for one timer until its holder or the timer's callback ends
\* it, which concerns no other token.
ImplementsHandles == Handles!Spec

-----------------------------------------------------------------------------
(* A statement of the source's comments that does not hold *)

\* TimedCallbacks.cpp:13, a callback "returns false if the timer should be
\* stopped": the timers that are not stopped stay.
OnlyExpiredStops ==
  [][pc = "callback" /\ Size' < Size /\ pc' = "loop" => Size' = Size - 1]_vars

=============================================================================
