---------------------------- MODULE TimerHandles ----------------------------
(***************************************************************************)
(* What TimedCallbacks promises to the holders of its tokens: a token      *)
(* stands for the timer it was made for until the holder drops it, the     *)
(* timer's callback asks to be stopped, or all timers are cleared; what    *)
(* happens to one timer does not concern the others.                       *)
(***************************************************************************)
CONSTANTS Timers, Holders, NoTimer

VARIABLE timerOf     \* the timer each holder's token stands for

Init == timerOf = [h \in Holders |-> NoTimer]

\* A token is assigned for a new timer; one the holder had is dropped.
Assign(h, t) ==
  /\ \A g \in Holders : timerOf[g] # t
  /\ timerOf' = [timerOf EXCEPT ![h] = t]

\* A token is assigned to another holder, who drops its own.
Move(h, g) == timerOf' = [timerOf EXCEPT ![g] = timerOf[h], ![h] = NoTimer]

\* The holder drops its token, or the timer's callback returned false.
End(h) == timerOf' = [timerOf EXCEPT ![h] = NoTimer]

Clear == timerOf' = [h \in Holders |-> NoTimer]

Next ==
  \/ \E h \in Holders : \/ End(h)
                        \/ \E t \in Timers : Assign(h, t)
                        \/ \E g \in Holders \ {h} : Move(h, g)
  \/ Clear

Spec == Init /\ [][Next]_timerOf
=============================================================================
