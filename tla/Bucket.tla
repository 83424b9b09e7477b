------------------------------- MODULE Bucket -------------------------------
(***************************************************************************)
(* Bucket (Bucket.cpp): a rate limiter.  The allowance grows by rate every *)
(* per seconds, up to rate, and is brought up to date when it is used.     *)
(*                                                                         *)
(* The clock counts seconds since it started with the machine; allowances  *)
(* are counted in 1/Scale, so that what a second adds is a whole number.   *)
(* The rounding of float is left out.                                      *)
(***************************************************************************)
EXTENDS Integers

CONSTANTS
  Rates, Pers,        \* values of rate and of per
  Scale,
  Uptime, MaxTime     \* bounds: the clock's first and last value

\* Of the constants; the module that gives them values assumes it.
BucketAssumption ==
  /\ Rates \subseteq Nat
  /\ Pers \subseteq Nat \ {0}      \* the constructors do not make 1 of 0, as set() does
  /\ Scale \in Nat \ {0} /\ \A p \in Pers : Scale % p = 0
  /\ Uptime \in Nat /\ MaxTime \in Nat

VARIABLES
  rate, per, allowance, lastCheck,
  clock,
  since, spent        \* an observer's: when it began to look, and what was spent since

settings == <<rate, per>>
balance  == <<allowance, lastCheck>>
observed == <<since, spent>>
limiterVars == <<settings, balance, clock, observed>>

Punishments == {"NONE", "SET_TO_ZERO", "ALLOW_NEGATIVE"}

Lower(a, b) == IF a > b THEN b ELSE a

\* getAllowance() and updateAllowance() for given settings.
Earned(r, p) == (clock - lastCheck) * r * (Scale \div p)

\* Mutant: what was earned is not limited.
AllowanceUnlimited(r, p) == allowance + Earned(r, p)

AllowanceNow(r, p) == Lower(allowance + Earned(r, p), r * Scale)

-----------------------------------------------------------------------------
\* lastCheck is the clock's zero, so that the first update adds the uptime.
BucketInit ==
  /\ rate \in Rates /\ per \in Pers
  /\ \E a \in Rates : allowance = a * Scale
  /\ lastCheck = 0
  /\ clock = Uptime
  /\ since = Uptime /\ spent = 0

Tick ==
  /\ clock < MaxTime
  /\ clock' = clock + 1
  /\ UNCHANGED <<settings, balance, observed>>

\* An observer may begin to look at any time, and does so again after a set().
Observe ==
  /\ since' = clock /\ spent' = 0
  /\ UNCHANGED <<settings, balance, clock>>

\* The time since the last check is counted with the new rate.
set(nrate, nper) ==
  /\ rate' = nrate /\ per' = IF nper < 1 THEN 1 ELSE nper
  /\ allowance' = AllowanceNow(rate', per')
  /\ lastCheck' = clock
  /\ since' = clock /\ spent' = 0
  /\ UNCHANGED clock

\* lastCheck stays.
setAllowance(nrate, nper, nallowance) ==
  /\ rate' = nrate /\ per' = IF nper < 1 THEN 1 ELSE nper
  /\ allowance' = nallowance * Scale
  /\ since' = clock /\ spent' = 0
  /\ UNCHANGED <<lastCheck, clock>>

Punished(now, count, ptype) ==
  CASE ptype = "NONE"           -> now
    [] ptype = "SET_TO_ZERO"    -> 0
    [] ptype = "ALLOW_NEGATIVE" -> -Lower(count * Scale - now, 2 * rate * Scale)

spend(count, ptype) ==
  LET now == AllowanceNow(rate, per)
      ok  == now >= count * Scale
  IN  /\ allowance' = IF ok THEN now - count * Scale ELSE Punished(now, count, ptype)
      /\ lastCheck' = clock
      /\ spent' = IF ok THEN spent + count ELSE spent
      /\ UNCHANGED <<settings, clock, since>>

BucketNext ==
  \/ Tick \/ Observe
  \/ \E r \in Rates, p \in Pers \cup {0} :
       set(r, p) \/ \E a \in Rates : setAllowance(r, p, a)
  \/ \E count \in Rates, ptype \in Punishments : spend(count, ptype)

BucketSpec == BucketInit /\ [][BucketNext]_limiterVars

-----------------------------------------------------------------------------
(* Properties *)

\* Whenever one begins to look, and whatever punishments are chosen, no more is
\* spent than one full bucket and what the time since then has added.
WithinBudget == spent * Scale <= rate * Scale + (clock - since) * rate * (Scale \div per)
=============================================================================
