------------------------------ MODULE TaskFifo ------------------------------
(***************************************************************************)
(* What TaskBuffer promises of each of its two queues: a task is run at    *)
(* most once, after it was submitted, one task at a time and in the order  *)
(* of submission.                                                          *)
(***************************************************************************)
EXTENDS Sequences

CONSTANTS Tasks, NoTask

VARIABLES waiting,   \* tasks that were submitted and not started, in order
          running,   \* the task that is being run
          finished   \* tasks that were run

vars == <<waiting, running, finished>>

Init == waiting = <<>> /\ running = NoTask /\ finished = {}

Known == {waiting[i] : i \in DOMAIN waiting} \cup {running} \cup finished

Submit(t) ==
  /\ t \notin Known
  /\ waiting' = Append(waiting, t)
  /\ UNCHANGED <<running, finished>>

Start ==
  /\ running = NoTask /\ waiting # <<>>
  /\ running' = Head(waiting)
  /\ waiting' = Tail(waiting)
  /\ UNCHANGED finished

Finish ==
  /\ running # NoTask
  /\ running' = NoTask
  /\ finished' = finished \cup {running}
  /\ UNCHANGED waiting

Next == Start \/ Finish \/ \E t \in Tasks : Submit(t)

Spec == Init /\ [][Next]_vars
=============================================================================
