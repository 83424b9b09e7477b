-------------------------- MODULE MCTimedCallbacks --------------------------
EXTENDS TimedCallbacks, TLC

CONSTANTS t1, t2, t3, t4, h1, h2, h3

MCTimers == {t1, t2, t3, t4}
MCHolders == {h1, h2, h3}

\* Intervals of one tick and of two.
MCInterval == [t \in Timers |-> IF t \in {t1, t2} THEN 1 ELSE 2]

\* Holders are alike: nothing tells one of them from another.
MCSymmetry == Permutations(Holders)
=============================================================================
