----------------------------- MODULE Coroutines -----------------------------
(***************************************************************************)
(* Async<T> (async.hpp, async.tpp): coroutines that start at once, that    *)
(* another coroutine may await, and whose frame is freed by whoever is     *)
(* last, the task or its awaiter.                                          *)
(*                                                                         *)
(* A task runs until it awaits, waits for an event (Defer, awaitify) or    *)
(* ends; resumptions nest, on the event loop's thread and on those of a    *)
(* TaskBuffer, whose switchToThread and switchToMain move a task from one  *)
(* to the other.  At the bottom of each is a plain function, which can     *)
(* start tasks but not await them.                                         *)
(***************************************************************************)
EXTENDS Naturals, FiniteSets

CONSTANTS
  Tasks,      \* the coroutines that may be called, each once
  Kept,       \* tasks whose Async object is a variable of their caller; the
              \* others' is a temporary of a full expression
  Threads,    \* the event loop's and the workers', and what runs at their bottom
  NoTask

ASSUME TasksAssumption == Threads \cap Tasks = {} /\ NoTask \notin Tasks \cup Threads
ASSUME KeptAssumption  == Kept \subseteq Tasks

VARIABLES
  frame,               \* state of each task's frame
  awaiter_h, awaiter_destroyed,   \* its promise
  holder,              \* who has the task's Async object
  task_h,              \* whether that points to the frame
  top,                 \* what each thread executes,
  under,               \* and what it goes on with when the task suspends or ends
  asks,                \* the task that await_ready found unfinished
  awaited,             \* tasks that somebody awaited
  endedFirst,          \* tasks that ended while somebody had their object
  missed,              \* tasks that ended while another thread was to await them
  heldOn,              \* tasks whose object its holder still had when it suspended
                       \* after it was resumed by them
  touched              \* undefined behaviour: frames used when they were gone

promiseVars == <<awaiter_h, awaiter_destroyed>>
handleVars  == <<holder, task_h>>
stackVars   == <<top, under>>
historyVars == <<awaited, endedFirst, missed, heldOn>>
vars == <<frame, promiseVars, handleVars, stackVars, asks, historyVars, touched>>

\* running and resuming (in final_suspend, while the awaiter runs) are on a
\* stack; final is the state that done() tells.
FrameStates == {"none", "running", "deferred", "awaiting", "resuming", "final", "gone"}

\* The thread k executes its own code or that of a coroutine.
Executes(k) == top[k] \in Tasks => frame[top[k]] = "running" /\ asks[top[k]] = NoTask

Push(k, t) ==
  /\ top' = [top EXCEPT ![k] = t]
  /\ under' = [under EXCEPT ![t] = top[k]]

Pop(k) ==
  /\ top' = [top EXCEPT ![k] = under[top[k]]]
  /\ under' = [under EXCEPT ![top[k]] = NoTask]

Held(c) == {t \in Tasks : holder[t] = c}
Temporaries(c) == Held(c) \ Kept

-----------------------------------------------------------------------------
Init ==
  /\ frame = [t \in Tasks |-> "none"]
  /\ awaiter_h = [t \in Tasks |-> NoTask]
  /\ awaiter_destroyed = [t \in Tasks |-> FALSE]
  /\ holder = [t \in Tasks |-> NoTask]
  /\ task_h = [t \in Tasks |-> FALSE]
  /\ top = [k \in Threads |-> k]
  /\ under = [t \in Tasks |-> NoTask]
  /\ asks = [t \in Tasks |-> NoTask]
  /\ awaited = {} /\ endedFirst = {} /\ missed = {} /\ heldOn = {} /\ touched = {}

\* The coroutine t is called, and not suspended at first.
Call(k, t) ==
  /\ Executes(k) /\ frame[t] = "none"
  /\ frame' = [frame EXCEPT ![t] = "running"]
  /\ holder' = [holder EXCEPT ![t] = top[k]]
  /\ task_h' = [task_h EXCEPT ![t] = TRUE]
  /\ Push(k, t)
  /\ UNCHANGED <<promiseVars, asks, historyVars, touched>>

\* c is suspended: objects of tasks that are about to go on after they have
\* resumed it are still there.
HoldsOn(c) == heldOn' = heldOn \cup {t \in Held(c) : frame[t] = "resuming"}

\* t waits for an event,
Wait(k, t) ==
  /\ Executes(k) /\ top[k] = t
  /\ frame' = [frame EXCEPT ![t] = "deferred"]
  /\ Pop(k) /\ HoldsOn(t)
  /\ UNCHANGED <<promiseVars, handleVars, asks, awaited, endedFirst, missed, touched>>

\* which may come from the thread's loop, or from the code that it executes.
Event(k, t) ==
  /\ Executes(k) /\ frame[t] = "deferred"
  /\ frame' = [frame EXCEPT ![t] = "running"]
  /\ Push(k, t)
  /\ UNCHANGED <<promiseVars, handleVars, asks, historyVars, touched>>

\* ~Async of the objects of the tasks S.
DestroyHandles(S) ==
  /\ holder' = [t \in Tasks |-> IF t \in S THEN NoTask ELSE holder[t]]
  /\ awaiter_destroyed' =
       [t \in Tasks |-> awaiter_destroyed[t] \/ (t \in S /\ task_h[t])]
  /\ touched' = touched \cup {t \in S : task_h[t] /\ frame[t] = "gone"}

Destroys(k, S) ==
  /\ Executes(k) /\ S # {}
  /\ DestroyHandles(S)
  /\ UNCHANGED <<frame, awaiter_h, task_h, stackVars, asks, historyVars>>

\* A variable goes out of scope,
Drop(k, t) ==
  /\ t \in Kept \cap Held(top[k]) /\ Temporaries(top[k]) = {}
  /\ Destroys(k, {t})

\* or a full expression ends and with it its temporaries, awaited or not.
EndExpression(k) == Destroys(k, Temporaries(top[k]))

\* co_await of a task that has ended: await_resume frees its frame.
AwaitReady(t) ==
  /\ frame[t] = "final"
  /\ frame' = [frame EXCEPT ![t] = "gone"]
  /\ task_h' = [task_h EXCEPT ![t] = FALSE]
  /\ UNCHANGED asks

\* Of one that has not: await_ready returns false.
AwaitUnready(c, t) ==
  /\ frame[t] # "final"
  /\ asks' = [asks EXCEPT ![c] = t]
  /\ UNCHANGED <<frame, task_h>>

\* A task is awaited once.
Await(k, c, t) ==
  /\ Executes(k) /\ top[k] = c /\ holder[t] = c
  /\ t \notin awaited
  /\ awaited' = awaited \cup {t}
  /\ AwaitReady(t) \/ AwaitUnready(c, t)
  /\ UNCHANGED <<promiseVars, holder, stackVars, endedFirst, missed, heldOn, touched>>

\* Mutant: the awaiter is not noted.
AwaitSuspendForgets(k, c) ==
  /\ top[k] = c /\ asks[c] # NoTask
  /\ asks' = [asks EXCEPT ![c] = NoTask]
  /\ frame' = [frame EXCEPT ![c] = "awaiting"]
  /\ Pop(k) /\ HoldsOn(c)
  /\ UNCHANGED <<promiseVars, handleVars, awaited, endedFirst, missed, touched>>

\* await_suspend: c becomes the awaiter of a task that may have ended meanwhile,
\* on another thread.
AwaitSuspend(k, c) ==
  /\ top[k] = c /\ asks[c] # NoTask
  /\ awaiter_h' = [awaiter_h EXCEPT ![asks[c]] = c]
  /\ asks' = [asks EXCEPT ![c] = NoTask]
  /\ frame' = [frame EXCEPT ![c] = "awaiting"]
  /\ Pop(k) /\ HoldsOn(c)
  /\ UNCHANGED <<awaiter_destroyed, handleVars, awaited, endedFirst, missed, touched>>

\* final_suspend with an awaiter: it is resumed from in here.
ResumeAwaiter(k, t) ==
  LET c == awaiter_h[t]
  IN  /\ frame' = [frame EXCEPT ![t] = "resuming", ![c] = "running"]
      /\ Push(k, c)

\* Mutant: final_suspend always suspends.
StayAlways(k, t) ==
  /\ frame' = [frame EXCEPT ![t] = "final"]
  /\ Pop(k)

\* Mutant: final_suspend never suspends.
GoAlways(k, t) ==
  /\ frame' = [frame EXCEPT ![t] = "gone"]
  /\ Pop(k)

\* final_suspend without one: the frame stays for a later co_await, unless the
\* object is gone.
StayOrGo(k, t) ==
  /\ frame' = [frame EXCEPT ![t] = IF awaiter_destroyed[t] THEN "gone" ELSE "final"]
  /\ Pop(k)

\* t ends: its variables, the Async objects among them, are destroyed before.
Return(k, t) ==
  /\ Executes(k) /\ top[k] = t
  /\ endedFirst' = IF holder[t] = NoTask THEN endedFirst ELSE endedFirst \cup {t}
  /\ missed' = IF \E l \in Threads \ {k} : top[l] \in Tasks /\ asks[top[l]] = t
               THEN missed \cup {t} ELSE missed
  /\ DestroyHandles(Held(t))
  /\ IF awaiter_h[t] = NoTask THEN StayOrGo(k, t) ELSE ResumeAwaiter(k, t)
  /\ UNCHANGED <<awaiter_h, task_h, asks, awaited, heldOn>>

\* The awaiter is suspended or has ended: the task's final_suspend goes on and
\* does not suspend, so that the frame is freed.
Free(k, t) ==
  /\ top[k] = t /\ frame[t] = "resuming"
  /\ frame' = [frame EXCEPT ![t] = "gone"]
  /\ Pop(k)
  /\ UNCHANGED <<promiseVars, handleVars, asks, historyVars, touched>>

Next ==
  \E k \in Threads :
    \/ EndExpression(k)
    \/ \E t \in Tasks :
         \/ Call(k, t) \/ Wait(k, t) \/ Event(k, t) \/ Drop(k, t)
         \/ AwaitSuspend(k, t) \/ Return(k, t) \/ Free(k, t)
    \/ \E c, t \in Tasks : Await(k, c, t)

Spec == Init /\ [][Next]_vars

\* Events come, and every coroutine returns some day and does not run for ever.
Fairness ==
  \A t \in Tasks :
    /\ SF_vars(\E k \in Threads : Event(k, t)) /\ SF_vars(\E k \in Threads : Return(k, t))
    /\ WF_vars(\E k \in Threads : AwaitSuspend(k, t) \/ Free(k, t))

FairSpec == Spec /\ Fairness

-----------------------------------------------------------------------------
(* Properties *)

OnStack(t) == frame[t] \in {"running", "resuming"}

\* The values of the variables.  What is being executed are live frames, each
\* by one thread and once, and no other frame believes that it is executed.
TypeOK ==
  /\ frame \in [Tasks -> FrameStates]
  /\ awaiter_h \in [Tasks -> Tasks \cup {NoTask}]
  /\ awaiter_destroyed \in [Tasks -> BOOLEAN]
  /\ holder \in [Tasks -> Tasks \cup Threads \cup {NoTask}]
  /\ task_h \in [Tasks -> BOOLEAN]
  /\ top \in [Threads -> Tasks \cup Threads]
  /\ under \in [Tasks -> Tasks \cup Threads \cup {NoTask}]
  /\ asks \in [Tasks -> Tasks \cup {NoTask}]
  /\ awaited \subseteq Tasks /\ endedFirst \subseteq Tasks /\ missed \subseteq Tasks
  /\ heldOn \subseteq Tasks /\ touched \subseteq Tasks
  /\ \A t \in Tasks : OnStack(t) <=> under[t] # NoTask
  /\ \A k \in Threads : top[k] \in Tasks => OnStack(top[k])
  /\ \A k, l \in Threads : top[k] = top[l] => k = l
  /\ \A t \in Tasks : under[t] \in Tasks => OnStack(under[t])
  /\ \A t, u \in Tasks : under[t] = under[u] => t = u \/ under[t] = NoTask
  /\ \A t \in Tasks, k \in Threads : under[t] # top[k]

\* A frame is used after it was freed only by an object, be it a variable or a
\* temporary, whose holder had awaited the task, was resumed by it, and suspended
\* again before it destroyed the object.
OnlyHeldOnTouched == touched \subseteq {t \in heldOn : awaiter_h[t] # NoTask}

\* A frame that nobody can free any more is one whose task ended, unawaited,
\* before its object was dropped; tasks that were awaited, and those that
\* outlived their object, leave nothing behind.
Orphan(t) == frame[t] = "final" /\ holder[t] = NoTask

OnlyEndedFirstLeak == \A t \in Tasks : Orphan(t) => t \in endedFirst \ awaited

\* An awaiter waits for a live task, which will resume it, or for one that ended
\* on another thread between its await_ready and its await_suspend, which will
\* not; and who a live task will resume waits for it.
Live(t) == frame[t] \in {"running", "deferred", "awaiting"}

AwaiterIsResumed ==
  /\ TypeOK
  /\ \A c \in Tasks : frame[c] = "awaiting" =>
       \E t \in Tasks : awaiter_h[t] = c /\ (Live(t) \/ t \in missed)
  /\ \A t \in Tasks : Live(t) /\ awaiter_h[t] # NoTask => frame[awaiter_h[t]] = "awaiting"

\* Who awaits a task that was missed, or one that awaits such a task, and so on.
AwaitersOf(S) == {c \in Tasks : frame[c] = "awaiting" /\ \E t \in S : awaiter_h[t] = c}

LostAwaiters ==
  LET lost[n \in 1..Cardinality(Tasks)] ==
        AwaitersOf(missed \cup IF n = 1 THEN {} ELSE lost[n - 1])
  IN  lost[Cardinality(Tasks)]

\* Who awaits goes on, unless it waits for a task that was missed.
AwaitEnds ==
  \A c \in Tasks : frame[c] = "awaiting" ~> frame[c] # "awaiting" \/ c \in LostAwaiters
=============================================================================
