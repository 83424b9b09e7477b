--------------------------- MODULE QueryLifecycle ---------------------------
(***************************************************************************)
(* What AsyncPostgres promises to the owners of its queries: a query waits *)
(* until no other is being executed and it is the first of those that wait,*)
(* by priority and then by age; it is executed, and again if the connection*)
(* was lost; and it ends once, answered or withdrawn.                      *)
(***************************************************************************)
EXTENDS Naturals

CONSTANTS Queries, Priority

VARIABLES phase,    \* what became of each query
          age       \* when it was submitted, 0 if it was not

vars == <<phase, age>>

Phases == {"new", "waiting", "executing", "ended"}

In(p) == {q \in Queries : phase[q] = p}

Move(q, from, to) == phase[q] = from /\ phase' = [phase EXCEPT ![q] = to]

Before(p, q) ==
  Priority[p] > Priority[q] \/ (Priority[p] = Priority[q] /\ age[p] < age[q])

Init == phase = [q \in Queries |-> "new"] /\ age = [q \in Queries |-> 0]

Submit(q) ==
  /\ Move(q, "new", "waiting")
  /\ age' \in [Queries -> Nat]
  /\ \A p \in Queries : IF p = q THEN age'[p] > 0 /\ \A o \in Queries : age'[q] > age[o]
                                 ELSE age'[p] = age[p]

Execute(q) ==
  /\ In("executing") = {}
  /\ Move(q, "waiting", "executing")
  /\ \A p \in In("waiting") \ {q} : Before(q, p)
  /\ UNCHANGED age

LoseConnection(q) == Move(q, "executing", "waiting") /\ UNCHANGED age

Answer(q) == Move(q, "executing", "ended") /\ UNCHANGED age

Withdraw(q) == Move(q, "waiting", "ended") /\ UNCHANGED age

Next == \E q \in Queries :
          Submit(q) \/ Execute(q) \/ LoseConnection(q) \/ Answer(q) \/ Withdraw(q)

Spec == Init /\ [][Next]_vars
=============================================================================
