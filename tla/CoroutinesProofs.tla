-------------------------- MODULE CoroutinesProofs --------------------------
(***************************************************************************)
(* Whose frames are used after they were freed, whose are leaked, and that *)
(* awaiters are not lost but to another thread, for any number of          *)
(* coroutines and threads.                                                 *)
(***************************************************************************)
EXTENDS Coroutines, TLAPS

-----------------------------------------------------------------------------
(* The stacks *)

\* The part of TypeOK about what each thread executes.
Stacks ==
  /\ top \in [Threads -> Tasks \cup Threads]
  /\ under \in [Tasks -> Tasks \cup Threads \cup {NoTask}]
  /\ \A t \in Tasks : OnStack(t) <=> under[t] # NoTask
  /\ \A k \in Threads : top[k] \in Tasks => OnStack(top[k])
  /\ \A k, l \in Threads : top[k] = top[l] => k = l
  /\ \A t \in Tasks : under[t] \in Tasks => OnStack(under[t])
  /\ \A t, u \in Tasks : under[t] = under[u] => t = u \/ under[t] = NoTask
  /\ \A t \in Tasks, k \in Threads : under[t] # top[k]

\* A task that is on no stack is put on top of one.
LEMMA Pushed ==
  ASSUME Stacks, NEW k \in Threads, NEW t \in Tasks, ~OnStack(t), Push(k, t), OnStack(t)',
         \A u \in Tasks \ {t} : OnStack(u)' = OnStack(u)
  PROVE  Stacks'
<1> USE TasksAssumption
<1>1. /\ top' = [top EXCEPT ![k] = t] /\ under' = [under EXCEPT ![t] = top[k]]
      /\ under[t] = NoTask /\ top[k] \in Tasks \cup Threads /\ top[k] # NoTask
  BY DEF Push, Stacks
<1>2. \A u \in Tasks : under[u] # t
  BY DEF Stacks
<1>3. \A l \in Threads : top[l] # t
  BY DEF Stacks
<1>4. /\ top' \in [Threads -> Tasks \cup Threads]
      /\ under' \in [Tasks -> Tasks \cup Threads \cup {NoTask}]
      /\ top'[k] = t /\ \A l \in Threads \ {k} : top'[l] = top[l]
      /\ under'[t] = top[k] /\ \A u \in Tasks \ {t} : under'[u] = under[u]
  BY <1>1 DEF Stacks
<1>5. \A u \in Tasks : OnStack(u)' <=> under'[u] # NoTask
  BY <1>1, <1>4 DEF Stacks
<1>6. \A l \in Threads : top'[l] \in Tasks => OnStack(top[l])' \/ l = k
  BY <1>3, <1>4 DEF Stacks
<1>7. \A l \in Threads : top'[l] \in Tasks => under'[top'[l]] # NoTask
  BY <1>1, <1>3, <1>4 DEF Stacks
<1>8. \A l, m \in Threads : top'[l] = top'[m] => l = m
  BY <1>3, <1>4 DEF Stacks
<1>9. \A u \in Tasks : under'[u] \in Tasks => under'[under'[u]] # NoTask
  BY <1>1, <1>2, <1>4 DEF Stacks
<1>10. \A u, v \in Tasks : under'[u] = under'[v] => u = v \/ under'[u] = NoTask
  BY <1>1, <1>4 DEF Stacks
<1>11. \A u \in Tasks, l \in Threads : under'[u] # top'[l]
  BY <1>1, <1>2, <1>3, <1>4 DEF Stacks
<1>12. (\A l \in Threads : top[l] \in Tasks => OnStack(top[l]))'
  BY <1>5, <1>7
<1>13. (\A u \in Tasks : under[u] \in Tasks => OnStack(under[u]))'
  BY <1>5, <1>9
<1> QED BY <1>4, <1>5, <1>8, <1>10, <1>11, <1>12, <1>13 DEF Stacks

\* The innermost task of a stack leaves it.
LEMMA Popped ==
  ASSUME Stacks, NEW k \in Threads, NEW t \in Tasks, top[k] = t, Pop(k), ~OnStack(t)',
         \A u \in Tasks \ {t} : OnStack(u)' = OnStack(u)
  PROVE  Stacks'
<1> USE TasksAssumption
<1>1. /\ top' = [top EXCEPT ![k] = under[t]] /\ under' = [under EXCEPT ![t] = NoTask]
      /\ under[t] # NoTask /\ under[t] \in Tasks \cup Threads /\ under[t] # t
  BY DEF Pop, Stacks
<1>2. \A u \in Tasks : under[u] # t
  BY DEF Stacks
<1>3. /\ top' \in [Threads -> Tasks \cup Threads]
      /\ under' \in [Tasks -> Tasks \cup Threads \cup {NoTask}]
      /\ top'[k] = under[t] /\ \A l \in Threads \ {k} : top'[l] = top[l] /\ top'[l] # t
      /\ under'[t] = NoTask /\ \A u \in Tasks \ {t} : under'[u] = under[u]
  BY <1>1 DEF Stacks
<1>4. \A u \in Tasks : OnStack(u)' <=> under'[u] # NoTask
  BY <1>1, <1>3 DEF Stacks
<1>5. \A l \in Threads : top'[l] \in Tasks => under'[top'[l]] # NoTask
  BY <1>1, <1>3 DEF Stacks
<1>6. \A l, m \in Threads : top'[l] = top'[m] => l = m
  BY <1>3 DEF Stacks
<1>7. \A u \in Tasks : under'[u] \in Tasks => under'[under'[u]] # NoTask
  BY <1>2, <1>3 DEF Stacks
<1>8. \A u, v \in Tasks : under'[u] = under'[v] => u = v \/ under'[u] = NoTask
  BY <1>3 DEF Stacks
<1>9. \A u \in Tasks, l \in Threads : under'[u] # top'[l]
  <2> SUFFICES ASSUME NEW u \in Tasks, NEW l \in Threads PROVE under'[u] # top'[l]
    OBVIOUS
  <2>1. CASE u = t
    BY <1>1, <1>3, <2>1 DEF Stacks
  <2>2. CASE u # t
    BY <1>1, <1>3, <2>2 DEF Stacks
  <2> QED BY <2>1, <2>2
<1>10. (\A l \in Threads : top[l] \in Tasks => OnStack(top[l]))'
  BY <1>4, <1>5
<1>11. (\A u \in Tasks : under[u] \in Tasks => OnStack(under[u]))'
  BY <1>4, <1>7
<1> QED BY <1>3, <1>4, <1>6, <1>8, <1>9, <1>10, <1>11 DEF Stacks

\* The stacks do not change with tasks that stay where they are.
LEMMA Stayed ==
  ASSUME Stacks, UNCHANGED stackVars, \A u \in Tasks : OnStack(u)' = OnStack(u)
  PROVE  Stacks'
<1>1. top' = top /\ under' = under
  BY DEF stackVars
<1>2. (\A l \in Threads : top[l] \in Tasks => OnStack(top[l]))'
  BY <1>1 DEF Stacks
<1>3. (\A u \in Tasks : under[u] \in Tasks => OnStack(under[u]))'
  BY <1>1 DEF Stacks
<1> QED BY <1>1, <1>2, <1>3 DEF Stacks

-----------------------------------------------------------------------------
(* The inductive invariant *)

Types ==
  /\ frame \in [Tasks -> FrameStates]
  /\ awaiter_h \in [Tasks -> Tasks \cup {NoTask}]
  /\ awaiter_destroyed \in [Tasks -> BOOLEAN]
  /\ holder \in [Tasks -> Tasks \cup Threads \cup {NoTask}]
  /\ task_h \in [Tasks -> BOOLEAN]
  /\ asks \in [Tasks -> Tasks \cup {NoTask}]
  /\ awaited \subseteq Tasks /\ endedFirst \subseteq Tasks /\ missed \subseteq Tasks
  /\ heldOn \subseteq Tasks /\ touched \subseteq Tasks

\* Who is still to resume its awaiter, or should be.
Pending(t) == Live(t) \/ t \in missed

\* Objects are held by what lives, and point to frames that exist until they
\* have taken their value; a promise that is told of its object's end has none
\* any more.
Handles ==
  \A t \in Tasks :
    /\ holder[t] # t
    /\ holder[t] \in Tasks => Live(holder[t])
    /\ frame[t] = "none" => holder[t] = NoTask
    /\ Live(t) => task_h[t]
    /\ awaiter_destroyed[t] => frame[t] # "none" /\ holder[t] = NoTask
    /\ Live(t) /\ holder[t] = NoTask /\ awaiter_h[t] = NoTask => awaiter_destroyed[t]

\* Who was awaited has an awaiter, or is to have one, or was freed by it at once.
Awaits ==
  \A t \in Tasks :
    /\ awaiter_h[t] # NoTask => t \in awaited /\ holder[t] \in {awaiter_h[t], NoTask}
    /\ t \in awaited => \/ frame[t] = "gone" \/ awaiter_h[t] # NoTask
                        \/ holder[t] \in Tasks /\ asks[holder[t]] = t
    /\ frame[t] = "none" => t \notin awaited

\* Who is about to await holds a task that has not ended, or was missed.
Asks ==
  \A c \in Tasks : asks[c] # NoTask =>
    /\ holder[asks[c]] = c /\ asks[c] \in awaited /\ awaiter_h[asks[c]] = NoTask
    /\ Pending(asks[c])
    /\ frame[c] = "running" /\ \E k \in Threads : top[k] = c

\* A missed task is held by the one that missed it.
Misses ==
  \A t \in missed :
    /\ frame[t] = "final" /\ holder[t] \in Tasks /\ t \in awaited
    /\ awaiter_h[t] = NoTask => asks[holder[t]] = t
    /\ awaiter_h[t] # NoTask => awaiter_h[t] = holder[t] /\ frame[holder[t]] = "awaiting"

\* A frame that has ended stays for the object that was there when it ended, or
\* is freed; an object that its holder does not hold on to goes before that.
Ends ==
  \A t \in Tasks :
    /\ frame[t] = "final" => t \in endedFirst /\ (awaiter_h[t] = NoTask \/ t \in missed)
    /\ frame[t] = "resuming" => awaiter_h[t] # NoTask
    /\ frame[t] = "resuming" /\ holder[t] # NoTask /\ t \notin heldOn =>
         holder[t] \in Tasks /\ under[holder[t]] = t
    /\ frame[t] = "gone" /\ holder[t] # NoTask =>
         /\ t \in awaited
         /\ task_h[t] => t \in heldOn /\ awaiter_h[t] # NoTask

\* Those that are to resume an awaiter resume different ones,
OneEach ==
  \A t, u \in Tasks : Pending(t) /\ Pending(u) /\ awaiter_h[t] = awaiter_h[u] =>
    t = u \/ awaiter_h[t] = NoTask

\* who wait for it, as does nobody else.
Awaiting ==
  \A t \in Tasks : Live(t) /\ awaiter_h[t] # NoTask => frame[awaiter_h[t]] = "awaiting"

Awaited ==
  \A c \in Tasks : frame[c] = "awaiting" => \E t \in Tasks : awaiter_h[t] = c /\ Pending(t)

CoroutinesInv ==
  /\ Types /\ Stacks
  /\ Handles /\ Awaits /\ Asks /\ Misses /\ Ends /\ OneEach /\ Awaiting /\ Awaited
  /\ OnlyHeldOnTouched

\* What a thread executes is on its stack.
LEMMA OnTop ==
  ASSUME CoroutinesInv, NEW k \in Threads, NEW t \in Tasks, top[k] = t
  PROVE  /\ OnStack(t) /\ under[t] # NoTask
         /\ \A u \in Tasks : under[u] # t
         /\ \A l \in Threads \ {k} : top[l] # t
BY DEF CoroutinesInv, Stacks

\* A new frame, whose object the caller has.
LEMMA CallKeeps ==
  ASSUME CoroutinesInv, NEW k \in Threads, NEW t \in Tasks, Call(k, t)
  PROVE  CoroutinesInv'
<1> USE TasksAssumption, KeptAssumption DEF CoroutinesInv, Live, Pending
<1>g. /\ t # top[k] /\ top[k] # NoTask /\ holder[t] = NoTask /\ awaiter_h[t] = NoTask /\ t \notin awaited
      /\ top[k] \in Tasks \cup Threads /\ (top[k] \in Tasks => frame[top[k]] = "running" /\ asks[top[k]] = NoTask)
      /\ frame[t] = "none" /\ under[t] = NoTask /\ \A u \in Tasks : holder[u] # t /\ asks[u] # t
  <2>1. frame[t] = "none" /\ (top[k] \in Tasks => frame[top[k]] = "running" /\ asks[top[k]] = NoTask)
    BY DEF Call, Executes
  <2>2. under[t] = NoTask /\ top[k] \in Tasks \cup Threads /\ top[k] # NoTask /\ t # top[k]
    BY <2>1 DEF Stacks, OnStack
  <2>3. holder[t] = NoTask /\ t \notin awaited /\ awaiter_h[t] = NoTask
    BY <2>1 DEF Handles, Awaits
  <2>4. \A u \in Tasks : holder[u] # t
    BY <2>1 DEF Handles
  <2>5. \A u \in Tasks : asks[u] # t
    BY <2>3 DEF Asks
  <2> QED BY <2>1, <2>2, <2>3, <2>4, <2>5
<1>s. Stacks'
  BY <1>g, Pushed DEF Call, OnStack, Types
<1>1. Types'
  BY <1>g DEF Types, Stacks, FrameStates, OnStack, Handles, Awaits, Asks, Misses, Ends, OneEach, Awaiting, Awaited,
     OnlyHeldOnTouched, Call, Push, promiseVars, handleVars, stackVars, historyVars
<1>2. Handles'
  BY <1>1, <1>g DEF Types, Stacks, FrameStates, OnStack, Handles, Awaits, Asks, Misses, Ends, OneEach, Awaiting, Awaited,
     OnlyHeldOnTouched, Call, Push, promiseVars, handleVars, stackVars, historyVars
<1>3. Awaits'
  BY <1>1, <1>g DEF Types, Stacks, FrameStates, OnStack, Handles, Awaits, Asks, Misses, Ends, OneEach, Awaiting, Awaited,
     OnlyHeldOnTouched, Call, Push, promiseVars, handleVars, stackVars, historyVars
<1>4. Asks'
  BY <1>1, <1>g DEF Types, Stacks, FrameStates, OnStack, Handles, Awaits, Asks, Misses, Ends, OneEach, Awaiting, Awaited,
     OnlyHeldOnTouched, Call, Push, promiseVars, handleVars, stackVars, historyVars
<1>5. Misses'
  BY <1>1, <1>g DEF Types, Stacks, FrameStates, OnStack, Handles, Awaits, Asks, Misses, Ends, OneEach, Awaiting, Awaited,
     OnlyHeldOnTouched, Call, Push, promiseVars, handleVars, stackVars, historyVars
<1>6. Ends'
  BY <1>1, <1>g DEF Types, Stacks, FrameStates, OnStack, Handles, Awaits, Asks, Misses, Ends, OneEach, Awaiting, Awaited,
     OnlyHeldOnTouched, Call, Push, promiseVars, handleVars, stackVars, historyVars
<1>7. OneEach'
  BY <1>1, <1>g DEF Types, Stacks, FrameStates, OnStack, Handles, Awaits, Asks, Misses, Ends, OneEach, Awaiting, Awaited,
     OnlyHeldOnTouched, Call, Push, promiseVars, handleVars, stackVars, historyVars
<1>8. Awaiting'
  BY <1>1, <1>g DEF Types, Stacks, FrameStates, OnStack, Handles, Awaits, Asks, Misses, Ends, OneEach, Awaiting, Awaited,
     OnlyHeldOnTouched, Call, Push, promiseVars, handleVars, stackVars, historyVars
<1>9. Awaited'
  BY <1>1, <1>g DEF Types, Stacks, FrameStates, OnStack, Handles, Awaits, Asks, Misses, Ends, OneEach, Awaiting, Awaited,
     OnlyHeldOnTouched, Call, Push, promiseVars, handleVars, stackVars, historyVars
<1>10. OnlyHeldOnTouched'
  BY <1>1, <1>g DEF Types, Stacks, FrameStates, OnStack, Handles, Awaits, Asks, Misses, Ends, OneEach, Awaiting, Awaited,
     OnlyHeldOnTouched, Call, Push, promiseVars, handleVars, stackVars, historyVars
<1> QED BY <1>s, <1>1, <1>2, <1>3, <1>4, <1>5, <1>6, <1>7, <1>8, <1>9, <1>10

\* A task that waits for an event lives on.
LEMMA WaitKeeps ==
  ASSUME CoroutinesInv, NEW k \in Threads, NEW t \in Tasks, Wait(k, t)
  PROVE  CoroutinesInv'
<1> USE TasksAssumption, KeptAssumption DEF CoroutinesInv, Live, Pending
<1>g. top[k] = t /\ frame[t] = "running" /\ asks[t] = NoTask
  BY DEF Wait, Executes
<1>s. Stacks'
  BY <1>g, Popped DEF Wait, OnStack, Types
<1>1. Types'
  BY <1>g DEF Types, Stacks, FrameStates, OnStack, Handles, Awaits, Asks, Misses, Ends, OneEach, Awaiting, Awaited,
     OnlyHeldOnTouched, Wait, Pop, HoldsOn, Held, promiseVars, handleVars, stackVars, historyVars
<1>2. Handles'
  BY <1>1, <1>g DEF Types, Stacks, FrameStates, OnStack, Handles, Awaits, Asks, Misses, Ends, OneEach, Awaiting, Awaited,
     OnlyHeldOnTouched, Wait, Pop, HoldsOn, Held, promiseVars, handleVars, stackVars, historyVars
<1>3. Awaits'
  BY <1>1, <1>g DEF Types, Stacks, FrameStates, OnStack, Handles, Awaits, Asks, Misses, Ends, OneEach, Awaiting, Awaited,
     OnlyHeldOnTouched, Wait, Pop, HoldsOn, Held, promiseVars, handleVars, stackVars, historyVars
<1>4. Asks'
  BY <1>1, <1>g DEF Types, Stacks, FrameStates, OnStack, Handles, Awaits, Asks, Misses, Ends, OneEach, Awaiting, Awaited,
     OnlyHeldOnTouched, Wait, Pop, HoldsOn, Held, promiseVars, handleVars, stackVars, historyVars
<1>5. Misses'
  BY <1>1, <1>g DEF Types, Stacks, FrameStates, OnStack, Handles, Awaits, Asks, Misses, Ends, OneEach, Awaiting, Awaited,
     OnlyHeldOnTouched, Wait, Pop, HoldsOn, Held, promiseVars, handleVars, stackVars, historyVars
<1>6. Ends'
  BY <1>1, <1>g DEF Types, Stacks, FrameStates, OnStack, Handles, Awaits, Asks, Misses, Ends, OneEach, Awaiting, Awaited,
     OnlyHeldOnTouched, Wait, Pop, HoldsOn, Held, promiseVars, handleVars, stackVars, historyVars
<1>7. OneEach'
  BY <1>1, <1>g DEF Types, Stacks, FrameStates, OnStack, Handles, Awaits, Asks, Misses, Ends, OneEach, Awaiting, Awaited,
     OnlyHeldOnTouched, Wait, Pop, HoldsOn, Held, promiseVars, handleVars, stackVars, historyVars
<1>8. Awaiting'
  BY <1>1, <1>g DEF Types, Stacks, FrameStates, OnStack, Handles, Awaits, Asks, Misses, Ends, OneEach, Awaiting, Awaited,
     OnlyHeldOnTouched, Wait, Pop, HoldsOn, Held, promiseVars, handleVars, stackVars, historyVars
<1>9. Awaited'
  BY <1>1, <1>g DEF Types, Stacks, FrameStates, OnStack, Handles, Awaits, Asks, Misses, Ends, OneEach, Awaiting, Awaited,
     OnlyHeldOnTouched, Wait, Pop, HoldsOn, Held, promiseVars, handleVars, stackVars, historyVars
<1>10. OnlyHeldOnTouched'
  BY <1>1, <1>g DEF Types, Stacks, FrameStates, OnStack, Handles, Awaits, Asks, Misses, Ends, OneEach, Awaiting, Awaited,
     OnlyHeldOnTouched, Wait, Pop, HoldsOn, Held, promiseVars, handleVars, stackVars, historyVars
<1> QED BY <1>s, <1>1, <1>2, <1>3, <1>4, <1>5, <1>6, <1>7, <1>8, <1>9, <1>10

\* So does one whose event comes.
LEMMA EventKeeps ==
  ASSUME CoroutinesInv, NEW k \in Threads, NEW t \in Tasks, Event(k, t)
  PROVE  CoroutinesInv'
<1> USE TasksAssumption, KeptAssumption DEF CoroutinesInv, Live, Pending
<1>g. /\ frame[t] = "deferred" /\ top[k] # t
      /\ (top[k] \in Tasks => frame[top[k]] = "running" /\ asks[top[k]] = NoTask)
  BY OnTop DEF Event, Executes, OnStack
<1>s. Stacks'
  BY <1>g, Pushed DEF Event, OnStack, Types
<1>1. Types'
  BY <1>g DEF Types, Stacks, FrameStates, OnStack, Handles, Awaits, Asks, Misses, Ends, OneEach, Awaiting, Awaited,
     OnlyHeldOnTouched, Event, Push, promiseVars, handleVars, stackVars, historyVars
<1>2. Handles'
  BY <1>1, <1>g DEF Types, Stacks, FrameStates, OnStack, Handles, Awaits, Asks, Misses, Ends, OneEach, Awaiting, Awaited,
     OnlyHeldOnTouched, Event, Push, promiseVars, handleVars, stackVars, historyVars
<1>3. Awaits'
  BY <1>1, <1>g DEF Types, Stacks, FrameStates, OnStack, Handles, Awaits, Asks, Misses, Ends, OneEach, Awaiting, Awaited,
     OnlyHeldOnTouched, Event, Push, promiseVars, handleVars, stackVars, historyVars
<1>4. Asks'
  BY <1>1, <1>g DEF Types, Stacks, FrameStates, OnStack, Handles, Awaits, Asks, Misses, Ends, OneEach, Awaiting, Awaited,
     OnlyHeldOnTouched, Event, Push, promiseVars, handleVars, stackVars, historyVars
<1>5. Misses'
  BY <1>1, <1>g DEF Types, Stacks, FrameStates, OnStack, Handles, Awaits, Asks, Misses, Ends, OneEach, Awaiting, Awaited,
     OnlyHeldOnTouched, Event, Push, promiseVars, handleVars, stackVars, historyVars
<1>6. Ends'
  BY <1>1, <1>g DEF Types, Stacks, FrameStates, OnStack, Handles, Awaits, Asks, Misses, Ends, OneEach, Awaiting, Awaited,
     OnlyHeldOnTouched, Event, Push, promiseVars, handleVars, stackVars, historyVars
<1>7. OneEach'
  BY <1>1, <1>g DEF Types, Stacks, FrameStates, OnStack, Handles, Awaits, Asks, Misses, Ends, OneEach, Awaiting, Awaited,
     OnlyHeldOnTouched, Event, Push, promiseVars, handleVars, stackVars, historyVars
<1>8. Awaiting'
  BY <1>1, <1>g DEF Types, Stacks, FrameStates, OnStack, Handles, Awaits, Asks, Misses, Ends, OneEach, Awaiting, Awaited,
     OnlyHeldOnTouched, Event, Push, promiseVars, handleVars, stackVars, historyVars
<1>9. Awaited'
  BY <1>1, <1>g DEF Types, Stacks, FrameStates, OnStack, Handles, Awaits, Asks, Misses, Ends, OneEach, Awaiting, Awaited,
     OnlyHeldOnTouched, Event, Push, promiseVars, handleVars, stackVars, historyVars
<1>10. OnlyHeldOnTouched'
  BY <1>1, <1>g DEF Types, Stacks, FrameStates, OnStack, Handles, Awaits, Asks, Misses, Ends, OneEach, Awaiting, Awaited,
     OnlyHeldOnTouched, Event, Push, promiseVars, handleVars, stackVars, historyVars
<1> QED BY <1>s, <1>1, <1>2, <1>3, <1>4, <1>5, <1>6, <1>7, <1>8, <1>9, <1>10

\* The promises of live tasks are told of the end of their objects.
LEMMA DestroysKeeps ==
  ASSUME CoroutinesInv, NEW k \in Threads, NEW S, S \subseteq Held(top[k]), Destroys(k, S)
  PROVE  CoroutinesInv'
<1> USE TasksAssumption, KeptAssumption DEF CoroutinesInv, Live, Pending
<1>g. /\ top[k] # NoTask /\ (\A t \in S : t \in Tasks /\ holder[t] = top[k])
      /\ (top[k] \in Tasks => frame[top[k]] = "running" /\ asks[top[k]] = NoTask)
  BY DEF Destroys, Executes, Held, Stacks
<1>s. Stacks'
  BY Stayed DEF Destroys, OnStack
<1>1. Types'
  BY <1>g DEF Types, Stacks, FrameStates, OnStack, Handles, Awaits, Asks, Misses, Ends, OneEach, Awaiting, Awaited,
     OnlyHeldOnTouched, Destroys, DestroyHandles, promiseVars, handleVars, stackVars, historyVars
<1>2. Handles'
  BY <1>1, <1>g DEF Types, Stacks, FrameStates, OnStack, Handles, Awaits, Asks, Misses, Ends, OneEach, Awaiting, Awaited,
     OnlyHeldOnTouched, Destroys, DestroyHandles, promiseVars, handleVars, stackVars, historyVars
<1>3. Awaits'
  BY <1>1, <1>g DEF Types, Stacks, FrameStates, OnStack, Handles, Awaits, Asks, Misses, Ends, OneEach, Awaiting, Awaited,
     OnlyHeldOnTouched, Destroys, DestroyHandles, promiseVars, handleVars, stackVars, historyVars
<1>4. Asks'
  BY <1>1, <1>g DEF Types, Stacks, FrameStates, OnStack, Handles, Awaits, Asks, Misses, Ends, OneEach, Awaiting, Awaited,
     OnlyHeldOnTouched, Destroys, DestroyHandles, promiseVars, handleVars, stackVars, historyVars
<1>5. Misses'
  BY <1>1, <1>g DEF Types, Stacks, FrameStates, OnStack, Handles, Awaits, Asks, Misses, Ends, OneEach, Awaiting, Awaited,
     OnlyHeldOnTouched, Destroys, DestroyHandles, promiseVars, handleVars, stackVars, historyVars
<1>6. Ends'
  BY <1>1, <1>g DEF Types, Stacks, FrameStates, OnStack, Handles, Awaits, Asks, Misses, Ends, OneEach, Awaiting, Awaited,
     OnlyHeldOnTouched, Destroys, DestroyHandles, promiseVars, handleVars, stackVars, historyVars
<1>7. OneEach'
  BY <1>1, <1>g DEF Types, Stacks, FrameStates, OnStack, Handles, Awaits, Asks, Misses, Ends, OneEach, Awaiting, Awaited,
     OnlyHeldOnTouched, Destroys, DestroyHandles, promiseVars, handleVars, stackVars, historyVars
<1>8. Awaiting'
  BY <1>1, <1>g DEF Types, Stacks, FrameStates, OnStack, Handles, Awaits, Asks, Misses, Ends, OneEach, Awaiting, Awaited,
     OnlyHeldOnTouched, Destroys, DestroyHandles, promiseVars, handleVars, stackVars, historyVars
<1>9. Awaited'
  BY <1>1, <1>g DEF Types, Stacks, FrameStates, OnStack, Handles, Awaits, Asks, Misses, Ends, OneEach, Awaiting, Awaited,
     OnlyHeldOnTouched, Destroys, DestroyHandles, promiseVars, handleVars, stackVars, historyVars
<1>10. OnlyHeldOnTouched'
  BY <1>1, <1>g DEF Types, Stacks, FrameStates, OnStack, Handles, Awaits, Asks, Misses, Ends, OneEach, Awaiting, Awaited,
     OnlyHeldOnTouched, Destroys, DestroyHandles, promiseVars, handleVars, stackVars, historyVars
<1> QED BY <1>s, <1>1, <1>2, <1>3, <1>4, <1>5, <1>6, <1>7, <1>8, <1>9, <1>10

\* The frame of a task that has ended is freed at once.
LEMMA AwaitReadyKeeps ==
  ASSUME CoroutinesInv, NEW k \in Threads, NEW c \in Tasks, NEW t \in Tasks, Await(k, c, t), AwaitReady(t)
  PROVE  CoroutinesInv'
<1> USE TasksAssumption, KeptAssumption DEF CoroutinesInv, Live, Pending
<1>g. /\ frame[t] = "final" /\ t # c /\ awaiter_h[t] = NoTask /\ t \notin missed /\ t \notin awaited
      /\ frame[c] = "running" /\ asks[c] = NoTask /\ holder[t] = c
      /\ (\A u \in Tasks : holder[u] # t /\ asks[u] # t)
  BY DEF AwaitReady, Await, Executes, Ends, Misses, Handles, Asks
<1>s. Stacks'
  BY <1>g, Stayed DEF Await, AwaitReady, OnStack, Types
<1>1. Types'
  BY <1>g DEF Types, Stacks, FrameStates, OnStack, Handles, Awaits, Asks, Misses, Ends, OneEach, Awaiting, Awaited,
     OnlyHeldOnTouched, Await, AwaitReady, promiseVars, handleVars, stackVars, historyVars
<1>2. Handles'
  BY <1>1, <1>g DEF Types, Stacks, FrameStates, OnStack, Handles, Awaits, Asks, Misses, Ends, OneEach, Awaiting, Awaited,
     OnlyHeldOnTouched, Await, AwaitReady, promiseVars, handleVars, stackVars, historyVars
<1>3. Awaits'
  BY <1>1, <1>g DEF Types, Stacks, FrameStates, OnStack, Handles, Awaits, Asks, Misses, Ends, OneEach, Awaiting, Awaited,
     OnlyHeldOnTouched, Await, AwaitReady, promiseVars, handleVars, stackVars, historyVars
<1>4. Asks'
  BY <1>1, <1>g DEF Types, Stacks, FrameStates, OnStack, Handles, Awaits, Asks, Misses, Ends, OneEach, Awaiting, Awaited,
     OnlyHeldOnTouched, Await, AwaitReady, promiseVars, handleVars, stackVars, historyVars
<1>5. Misses'
  BY <1>1, <1>g DEF Types, Stacks, FrameStates, OnStack, Handles, Awaits, Asks, Misses, Ends, OneEach, Awaiting, Awaited,
     OnlyHeldOnTouched, Await, AwaitReady, promiseVars, handleVars, stackVars, historyVars
<1>6. Ends'
  BY <1>1, <1>g DEF Types, Stacks, FrameStates, OnStack, Handles, Awaits, Asks, Misses, Ends, OneEach, Awaiting, Awaited,
     OnlyHeldOnTouched, Await, AwaitReady, promiseVars, handleVars, stackVars, historyVars
<1>7. OneEach'
  BY <1>1, <1>g DEF Types, Stacks, FrameStates, OnStack, Handles, Awaits, Asks, Misses, Ends, OneEach, Awaiting, Awaited,
     OnlyHeldOnTouched, Await, AwaitReady, promiseVars, handleVars, stackVars, historyVars
<1>8. Awaiting'
  BY <1>1, <1>g DEF Types, Stacks, FrameStates, OnStack, Handles, Awaits, Asks, Misses, Ends, OneEach, Awaiting, Awaited,
     OnlyHeldOnTouched, Await, AwaitReady, promiseVars, handleVars, stackVars, historyVars
<1>9. Awaited'
  BY <1>1, <1>g DEF Types, Stacks, FrameStates, OnStack, Handles, Awaits, Asks, Misses, Ends, OneEach, Awaiting, Awaited,
     OnlyHeldOnTouched, Await, AwaitReady, promiseVars, handleVars, stackVars, historyVars
<1>10. OnlyHeldOnTouched'
  BY <1>1, <1>g DEF Types, Stacks, FrameStates, OnStack, Handles, Awaits, Asks, Misses, Ends, OneEach, Awaiting, Awaited,
     OnlyHeldOnTouched, Await, AwaitReady, promiseVars, handleVars, stackVars, historyVars
<1> QED BY <1>s, <1>1, <1>2, <1>3, <1>4, <1>5, <1>6, <1>7, <1>8, <1>9, <1>10

\* Of one that has not, nobody is the awaiter yet.
LEMMA AwaitUnreadyKeeps ==
  ASSUME CoroutinesInv, NEW k \in Threads, NEW c \in Tasks, NEW t \in Tasks, Await(k, c, t), AwaitUnready(c, t)
  PROVE  CoroutinesInv'
<1> USE TasksAssumption, KeptAssumption DEF CoroutinesInv, Live, Pending
<1>g. /\ Live(t) /\ t # c /\ awaiter_h[t] = NoTask /\ t \notin missed /\ t \notin awaited
      /\ top[k] = c /\ frame[c] = "running" /\ asks[c] = NoTask /\ holder[t] = c
  BY DEF AwaitUnready, Await, Executes, Ends, Misses, Handles, Awaits, Types, FrameStates
<1>s. Stacks'
  BY <1>g, Stayed DEF Await, AwaitUnready, OnStack, Types
<1>1. Types'
  BY <1>g DEF Types, Stacks, FrameStates, OnStack, Handles, Awaits, Asks, Misses, Ends, OneEach, Awaiting, Awaited,
     OnlyHeldOnTouched, Await, AwaitUnready, promiseVars, handleVars, stackVars, historyVars
<1>2. Handles'
  BY <1>1, <1>g DEF Types, Stacks, FrameStates, OnStack, Handles, Awaits, Asks, Misses, Ends, OneEach, Awaiting, Awaited,
     OnlyHeldOnTouched, Await, AwaitUnready, promiseVars, handleVars, stackVars, historyVars
<1>3. Awaits'
  BY <1>1, <1>g DEF Types, Stacks, FrameStates, OnStack, Handles, Awaits, Asks, Misses, Ends, OneEach, Awaiting, Awaited,
     OnlyHeldOnTouched, Await, AwaitUnready, promiseVars, handleVars, stackVars, historyVars
<1>4. Asks'
  BY <1>1, <1>g DEF Types, Stacks, FrameStates, OnStack, Handles, Awaits, Asks, Misses, Ends, OneEach, Awaiting, Awaited,
     OnlyHeldOnTouched, Await, AwaitUnready, promiseVars, handleVars, stackVars, historyVars
<1>5. Misses'
  BY <1>1, <1>g DEF Types, Stacks, FrameStates, OnStack, Handles, Awaits, Asks, Misses, Ends, OneEach, Awaiting, Awaited,
     OnlyHeldOnTouched, Await, AwaitUnready, promiseVars, handleVars, stackVars, historyVars
<1>6. Ends'
  BY <1>1, <1>g DEF Types, Stacks, FrameStates, OnStack, Handles, Awaits, Asks, Misses, Ends, OneEach, Awaiting, Awaited,
     OnlyHeldOnTouched, Await, AwaitUnready, promiseVars, handleVars, stackVars, historyVars
<1>7. OneEach'
  BY <1>1, <1>g DEF Types, Stacks, FrameStates, OnStack, Handles, Awaits, Asks, Misses, Ends, OneEach, Awaiting, Awaited,
     OnlyHeldOnTouched, Await, AwaitUnready, promiseVars, handleVars, stackVars, historyVars
<1>8. Awaiting'
  BY <1>1, <1>g DEF Types, Stacks, FrameStates, OnStack, Handles, Awaits, Asks, Misses, Ends, OneEach, Awaiting, Awaited,
     OnlyHeldOnTouched, Await, AwaitUnready, promiseVars, handleVars, stackVars, historyVars
<1>9. Awaited'
  BY <1>1, <1>g DEF Types, Stacks, FrameStates, OnStack, Handles, Awaits, Asks, Misses, Ends, OneEach, Awaiting, Awaited,
     OnlyHeldOnTouched, Await, AwaitUnready, promiseVars, handleVars, stackVars, historyVars
<1>10. OnlyHeldOnTouched'
  BY <1>1, <1>g DEF Types, Stacks, FrameStates, OnStack, Handles, Awaits, Asks, Misses, Ends, OneEach, Awaiting, Awaited,
     OnlyHeldOnTouched, Await, AwaitUnready, promiseVars, handleVars, stackVars, historyVars
<1> QED BY <1>s, <1>1, <1>2, <1>3, <1>4, <1>5, <1>6, <1>7, <1>8, <1>9, <1>10

\* It gets its awaiter, which nobody else resumes as it was executing.
LEMMA AwaitSuspendKeeps ==
  ASSUME CoroutinesInv, NEW k \in Threads, NEW c \in Tasks, AwaitSuspend(k, c)
  PROVE  CoroutinesInv'
<1> USE TasksAssumption, KeptAssumption DEF CoroutinesInv, Live, Pending
<1>g. /\ top[k] = c /\ frame[c] = "running" /\ asks[c] \in Tasks /\ asks[c] # c /\ Pending(asks[c])
      /\ awaiter_h[asks[c]] = NoTask /\ holder[asks[c]] = c /\ c # NoTask /\ asks[c] \in awaited
      /\ frame[asks[c]] \in {"running", "deferred", "awaiting", "final"}
  BY DEF AwaitSuspend, Asks, Types, Handles, Misses
<1>s. Stacks'
  BY <1>g, Popped DEF AwaitSuspend, OnStack, Types
<1>1. Types'
  BY <1>g DEF Types, Stacks, FrameStates, OnStack, Handles, Awaits, Asks, Misses, Ends, OneEach, Awaiting, Awaited,
     OnlyHeldOnTouched, AwaitSuspend, Pop, HoldsOn, Held, promiseVars, handleVars, stackVars, historyVars
<1>2. Handles'
  BY <1>1, <1>g DEF Types, Stacks, FrameStates, OnStack, Handles, Awaits, Asks, Misses, Ends, OneEach, Awaiting, Awaited,
     OnlyHeldOnTouched, AwaitSuspend, Pop, HoldsOn, Held, promiseVars, handleVars, stackVars, historyVars
<1>3. Awaits'
  BY <1>1, <1>g DEF Types, Stacks, FrameStates, OnStack, Handles, Awaits, Asks, Misses, Ends, OneEach, Awaiting, Awaited,
     OnlyHeldOnTouched, AwaitSuspend, Pop, HoldsOn, Held, promiseVars, handleVars, stackVars, historyVars
<1>4. Asks'
  BY <1>1, <1>g DEF Types, Stacks, FrameStates, OnStack, Handles, Awaits, Asks, Misses, Ends, OneEach, Awaiting, Awaited,
     OnlyHeldOnTouched, AwaitSuspend, Pop, HoldsOn, Held, promiseVars, handleVars, stackVars, historyVars
<1>5. Misses'
  BY <1>1, <1>g DEF Types, Stacks, FrameStates, OnStack, Handles, Awaits, Asks, Misses, Ends, OneEach, Awaiting, Awaited,
     OnlyHeldOnTouched, AwaitSuspend, Pop, HoldsOn, Held, promiseVars, handleVars, stackVars, historyVars
<1>6. Ends'
  BY <1>1, <1>g DEF Types, Stacks, FrameStates, OnStack, Handles, Awaits, Asks, Misses, Ends, OneEach, Awaiting, Awaited,
     OnlyHeldOnTouched, AwaitSuspend, Pop, HoldsOn, Held, promiseVars, handleVars, stackVars, historyVars
<1>7. OneEach'
  BY <1>1, <1>g DEF Types, Stacks, FrameStates, OnStack, Handles, Awaits, Asks, Misses, Ends, OneEach, Awaiting, Awaited,
     OnlyHeldOnTouched, AwaitSuspend, Pop, HoldsOn, Held, promiseVars, handleVars, stackVars, historyVars
<1>8. Awaiting'
  BY <1>1, <1>g DEF Types, Stacks, FrameStates, OnStack, Handles, Awaits, Asks, Misses, Ends, OneEach, Awaiting, Awaited,
     OnlyHeldOnTouched, AwaitSuspend, Pop, HoldsOn, Held, promiseVars, handleVars, stackVars, historyVars
<1>9. Awaited'
  BY <1>1, <1>g DEF Types, Stacks, FrameStates, OnStack, Handles, Awaits, Asks, Misses, Ends, OneEach, Awaiting, Awaited,
     OnlyHeldOnTouched, AwaitSuspend, Pop, HoldsOn, Held, promiseVars, handleVars, stackVars, historyVars
<1>10. OnlyHeldOnTouched'
  BY <1>1, <1>g DEF Types, Stacks, FrameStates, OnStack, Handles, Awaits, Asks, Misses, Ends, OneEach, Awaiting, Awaited,
     OnlyHeldOnTouched, AwaitSuspend, Pop, HoldsOn, Held, promiseVars, handleVars, stackVars, historyVars
<1> QED BY <1>s, <1>1, <1>2, <1>3, <1>4, <1>5, <1>6, <1>7, <1>8, <1>9, <1>10

\* The frame of a task without awaiter stays for its object, or goes after it.
LEMMA StayOrGoKeeps ==
  ASSUME CoroutinesInv, NEW k \in Threads, NEW t \in Tasks, Return(k, t), awaiter_h[t] = NoTask
  PROVE  CoroutinesInv'
<1> USE TasksAssumption, KeptAssumption DEF CoroutinesInv, Live, Pending
<1>g. /\ top[k] = t /\ frame[t] = "running" /\ asks[t] = NoTask /\ StayOrGo(k, t)
      /\ (\A c \in Tasks : asks[c] = t => \E l \in Threads \ {k} : top[l] \in Tasks /\ asks[top[l]] = t)
      /\ t \notin missed
  BY DEF Return, Executes, Asks, Misses
<1>s. Stacks'
  BY <1>g, Popped DEF Return, StayOrGo, OnStack, Types
<1>1. Types'
  BY <1>g DEF Types, Stacks, FrameStates, OnStack, Handles, Awaits, Asks, Misses, Ends, OneEach, Awaiting, Awaited,
     OnlyHeldOnTouched, Return, StayOrGo, Pop, DestroyHandles, Held, promiseVars, handleVars, stackVars, historyVars
<1>2. Handles'
  BY <1>1, <1>g DEF Types, Stacks, FrameStates, OnStack, Handles, Awaits, Asks, Misses, Ends, OneEach, Awaiting, Awaited,
     OnlyHeldOnTouched, Return, StayOrGo, Pop, DestroyHandles, Held, promiseVars, handleVars, stackVars, historyVars
<1>3. Awaits'
  BY <1>1, <1>g DEF Types, Stacks, FrameStates, OnStack, Handles, Awaits, Asks, Misses, Ends, OneEach, Awaiting, Awaited,
     OnlyHeldOnTouched, Return, StayOrGo, Pop, DestroyHandles, Held, promiseVars, handleVars, stackVars, historyVars
<1>4. Asks'
  BY <1>1, <1>g DEF Types, Stacks, FrameStates, OnStack, Handles, Awaits, Asks, Misses, Ends, OneEach, Awaiting, Awaited,
     OnlyHeldOnTouched, Return, StayOrGo, Pop, DestroyHandles, Held, promiseVars, handleVars, stackVars, historyVars
<1>5. Misses'
  BY <1>1, <1>g DEF Types, Stacks, FrameStates, OnStack, Handles, Awaits, Asks, Misses, Ends, OneEach, Awaiting, Awaited,
     OnlyHeldOnTouched, Return, StayOrGo, Pop, DestroyHandles, Held, promiseVars, handleVars, stackVars, historyVars
<1>6. Ends'
  BY <1>1, <1>g DEF Types, Stacks, FrameStates, OnStack, Handles, Awaits, Asks, Misses, Ends, OneEach, Awaiting, Awaited,
     OnlyHeldOnTouched, Return, StayOrGo, Pop, DestroyHandles, Held, promiseVars, handleVars, stackVars, historyVars
<1>7. OneEach'
  BY <1>1, <1>g DEF Types, Stacks, FrameStates, OnStack, Handles, Awaits, Asks, Misses, Ends, OneEach, Awaiting, Awaited,
     OnlyHeldOnTouched, Return, StayOrGo, Pop, DestroyHandles, Held, promiseVars, handleVars, stackVars, historyVars
<1>8. Awaiting'
  BY <1>1, <1>g DEF Types, Stacks, FrameStates, OnStack, Handles, Awaits, Asks, Misses, Ends, OneEach, Awaiting, Awaited,
     OnlyHeldOnTouched, Return, StayOrGo, Pop, DestroyHandles, Held, promiseVars, handleVars, stackVars, historyVars
<1>9. Awaited'
  BY <1>1, <1>g DEF Types, Stacks, FrameStates, OnStack, Handles, Awaits, Asks, Misses, Ends, OneEach, Awaiting, Awaited,
     OnlyHeldOnTouched, Return, StayOrGo, Pop, DestroyHandles, Held, promiseVars, handleVars, stackVars, historyVars
<1>10. OnlyHeldOnTouched'
  BY <1>1, <1>g DEF Types, Stacks, FrameStates, OnStack, Handles, Awaits, Asks, Misses, Ends, OneEach, Awaiting, Awaited,
     OnlyHeldOnTouched, Return, StayOrGo, Pop, DestroyHandles, Held, promiseVars, handleVars, stackVars, historyVars
<1> QED BY <1>s, <1>1, <1>2, <1>3, <1>4, <1>5, <1>6, <1>7, <1>8, <1>9, <1>10

\* Nobody else resumes the awaiter that is resumed.
LEMMA ResumeAwaiterKeeps ==
  ASSUME CoroutinesInv, NEW k \in Threads, NEW t \in Tasks, Return(k, t), awaiter_h[t] # NoTask
  PROVE  CoroutinesInv'
<1> USE TasksAssumption, KeptAssumption DEF CoroutinesInv, Live, Pending
<1>g. /\ top[k] = t /\ frame[t] = "running" /\ asks[t] = NoTask /\ ResumeAwaiter(k, t)
      /\ awaiter_h[t] \in Tasks /\ awaiter_h[t] # t /\ frame[awaiter_h[t]] = "awaiting"
      /\ (\A c \in Tasks : asks[c] # t) /\ t \notin missed /\ missed' = missed
      /\ asks[awaiter_h[t]] = NoTask
  BY DEF Return, Executes, Asks, Misses, Awaiting, Types
<1>s. Stacks'
  BY <1>g, Pushed DEF Return, ResumeAwaiter, OnStack, Types
<1>1. Types'
  BY <1>g DEF Types, Stacks, FrameStates, OnStack, Handles, Awaits, Asks, Misses, Ends, OneEach, Awaiting, Awaited,
     OnlyHeldOnTouched, Return, ResumeAwaiter, Push, DestroyHandles, Held, promiseVars, handleVars, stackVars, historyVars
<1>2. Handles'
  BY <1>1, <1>g DEF Types, Stacks, FrameStates, OnStack, Handles, Awaits, Asks, Misses, Ends, OneEach, Awaiting, Awaited,
     OnlyHeldOnTouched, Return, ResumeAwaiter, Push, DestroyHandles, Held, promiseVars, handleVars, stackVars, historyVars
<1>3. Awaits'
  BY <1>1, <1>g DEF Types, Stacks, FrameStates, OnStack, Handles, Awaits, Asks, Misses, Ends, OneEach, Awaiting, Awaited,
     OnlyHeldOnTouched, Return, ResumeAwaiter, Push, DestroyHandles, Held, promiseVars, handleVars, stackVars, historyVars
<1>4. Asks'
  BY <1>1, <1>g DEF Types, Stacks, FrameStates, OnStack, Handles, Awaits, Asks, Misses, Ends, OneEach, Awaiting, Awaited,
     OnlyHeldOnTouched, Return, ResumeAwaiter, Push, DestroyHandles, Held, promiseVars, handleVars, stackVars, historyVars
<1>5. Misses'
  BY <1>1, <1>g DEF Types, Stacks, FrameStates, OnStack, Handles, Awaits, Asks, Misses, Ends, OneEach, Awaiting, Awaited,
     OnlyHeldOnTouched, Return, ResumeAwaiter, Push, DestroyHandles, Held, promiseVars, handleVars, stackVars, historyVars
<1>6. Ends'
  BY <1>1, <1>g DEF Types, Stacks, FrameStates, OnStack, Handles, Awaits, Asks, Misses, Ends, OneEach, Awaiting, Awaited,
     OnlyHeldOnTouched, Return, ResumeAwaiter, Push, DestroyHandles, Held, promiseVars, handleVars, stackVars, historyVars
<1>7. OneEach'
  BY <1>1, <1>g DEF Types, Stacks, FrameStates, OnStack, Handles, Awaits, Asks, Misses, Ends, OneEach, Awaiting, Awaited,
     OnlyHeldOnTouched, Return, ResumeAwaiter, Push, DestroyHandles, Held, promiseVars, handleVars, stackVars, historyVars
<1>8. Awaiting'
  BY <1>1, <1>g DEF Types, Stacks, FrameStates, OnStack, Handles, Awaits, Asks, Misses, Ends, OneEach, Awaiting, Awaited,
     OnlyHeldOnTouched, Return, ResumeAwaiter, Push, DestroyHandles, Held, promiseVars, handleVars, stackVars, historyVars
<1>9. Awaited'
  BY <1>1, <1>g DEF Types, Stacks, FrameStates, OnStack, Handles, Awaits, Asks, Misses, Ends, OneEach, Awaiting, Awaited,
     OnlyHeldOnTouched, Return, ResumeAwaiter, Push, DestroyHandles, Held, promiseVars, handleVars, stackVars, historyVars
<1>10. OnlyHeldOnTouched'
  BY <1>1, <1>g DEF Types, Stacks, FrameStates, OnStack, Handles, Awaits, Asks, Misses, Ends, OneEach, Awaiting, Awaited,
     OnlyHeldOnTouched, Return, ResumeAwaiter, Push, DestroyHandles, Held, promiseVars, handleVars, stackVars, historyVars
<1> QED BY <1>s, <1>1, <1>2, <1>3, <1>4, <1>5, <1>6, <1>7, <1>8, <1>9, <1>10

\* The frame of an awaited task goes.
LEMMA FreeKeeps ==
  ASSUME CoroutinesInv, NEW k \in Threads, NEW t \in Tasks, Free(k, t)
  PROVE  CoroutinesInv'
<1> USE TasksAssumption, KeptAssumption DEF CoroutinesInv, Live, Pending
<1>g. top[k] = t /\ frame[t] = "resuming" /\ awaiter_h[t] # NoTask /\ t \in awaited /\ t \notin missed
      /\ (\A u \in Tasks : under[u] # t /\ holder[u] # t /\ asks[u] # t) /\ asks[t] = NoTask
  BY OnTop DEF Free, Ends, Awaits, Misses, Handles, Asks
<1>s. Stacks'
  BY <1>g, Popped DEF Free, OnStack, Types
<1>1. Types'
  BY <1>g DEF Types, Stacks, FrameStates, OnStack, Handles, Awaits, Asks, Misses, Ends, OneEach, Awaiting, Awaited,
     OnlyHeldOnTouched, Free, Pop, promiseVars, handleVars, stackVars, historyVars
<1>2. Handles'
  BY <1>1, <1>g DEF Types, Stacks, FrameStates, OnStack, Handles, Awaits, Asks, Misses, Ends, OneEach, Awaiting, Awaited,
     OnlyHeldOnTouched, Free, Pop, promiseVars, handleVars, stackVars, historyVars
<1>3. Awaits'
  BY <1>1, <1>g DEF Types, Stacks, FrameStates, OnStack, Handles, Awaits, Asks, Misses, Ends, OneEach, Awaiting, Awaited,
     OnlyHeldOnTouched, Free, Pop, promiseVars, handleVars, stackVars, historyVars
<1>4. Asks'
  BY <1>1, <1>g DEF Types, Stacks, FrameStates, OnStack, Handles, Awaits, Asks, Misses, Ends, OneEach, Awaiting, Awaited,
     OnlyHeldOnTouched, Free, Pop, promiseVars, handleVars, stackVars, historyVars
<1>5. Misses'
  BY <1>1, <1>g DEF Types, Stacks, FrameStates, OnStack, Handles, Awaits, Asks, Misses, Ends, OneEach, Awaiting, Awaited,
     OnlyHeldOnTouched, Free, Pop, promiseVars, handleVars, stackVars, historyVars
<1>6. Ends'
  BY <1>1, <1>g DEF Types, Stacks, FrameStates, OnStack, Handles, Awaits, Asks, Misses, Ends, OneEach, Awaiting, Awaited,
     OnlyHeldOnTouched, Free, Pop, promiseVars, handleVars, stackVars, historyVars
<1>7. OneEach'
  BY <1>1, <1>g DEF Types, Stacks, FrameStates, OnStack, Handles, Awaits, Asks, Misses, Ends, OneEach, Awaiting, Awaited,
     OnlyHeldOnTouched, Free, Pop, promiseVars, handleVars, stackVars, historyVars
<1>8. Awaiting'
  BY <1>1, <1>g DEF Types, Stacks, FrameStates, OnStack, Handles, Awaits, Asks, Misses, Ends, OneEach, Awaiting, Awaited,
     OnlyHeldOnTouched, Free, Pop, promiseVars, handleVars, stackVars, historyVars
<1>9. Awaited'
  BY <1>1, <1>g DEF Types, Stacks, FrameStates, OnStack, Handles, Awaits, Asks, Misses, Ends, OneEach, Awaiting, Awaited,
     OnlyHeldOnTouched, Free, Pop, promiseVars, handleVars, stackVars, historyVars
<1>10. OnlyHeldOnTouched'
  BY <1>1, <1>g DEF Types, Stacks, FrameStates, OnStack, Handles, Awaits, Asks, Misses, Ends, OneEach, Awaiting, Awaited,
     OnlyHeldOnTouched, Free, Pop, promiseVars, handleVars, stackVars, historyVars
<1> QED BY <1>s, <1>1, <1>2, <1>3, <1>4, <1>5, <1>6, <1>7, <1>8, <1>9, <1>10

\* The invariant holds in every state.
LEMMA CoroutinesInvariant == Spec => []CoroutinesInv
<1>1. Init => CoroutinesInv
  BY TasksAssumption DEF Init, CoroutinesInv, Types, Stacks, FrameStates, OnStack, Live, Pending,
     Handles, Awaits, Asks, Misses, Ends, OneEach, Awaiting, Awaited, OnlyHeldOnTouched
<1>2. CoroutinesInv /\ [Next]_vars => CoroutinesInv'
  <2> SUFFICES ASSUME CoroutinesInv, [Next]_vars PROVE CoroutinesInv'
    OBVIOUS
  <2>1. ASSUME NEW k \in Threads, NEW t \in Tasks, Return(k, t) PROVE CoroutinesInv'
    BY <2>1, StayOrGoKeeps, ResumeAwaiterKeeps
  <2>2. ASSUME NEW k \in Threads, NEW c \in Tasks, NEW t \in Tasks, Await(k, c, t)
        PROVE  CoroutinesInv'
    BY <2>2, AwaitReadyKeeps, AwaitUnreadyKeeps DEF Await
  <2>3. ASSUME NEW k \in Threads, EndExpression(k) PROVE CoroutinesInv'
    BY <2>3, DestroysKeeps DEF EndExpression, Temporaries
  <2>4. ASSUME NEW k \in Threads, NEW t \in Tasks, Drop(k, t) PROVE CoroutinesInv'
    BY <2>4, DestroysKeeps DEF Drop
  <2>5. CASE UNCHANGED vars
    BY <2>5 DEF vars, promiseVars, handleVars, stackVars, historyVars, CoroutinesInv, Types, Stacks,
       OnStack, Live, Pending, Handles, Awaits, Asks, Misses, Ends, OneEach, Awaiting, Awaited,
       OnlyHeldOnTouched
  <2> QED
    BY <2>1, <2>2, <2>3, <2>4, <2>5, CallKeeps, WaitKeeps, EventKeeps, AwaitSuspendKeeps,
       FreeKeeps DEF Next
<1> QED BY <1>1, <1>2, PTL DEF Spec

\* The variables of Coroutines keep their types, and each frame that is executed
\* is on the stack of one thread, once.
THEOREM CoroutinesTypeCorrect == Spec => []TypeOK
<1>1. CoroutinesInv => TypeOK
  BY DEF CoroutinesInv, Types, Stacks, TypeOK
<1> QED BY <1>1, CoroutinesInvariant, PTL

\* Only an Async object that outlives a second suspension of who awaited its task
\* writes to a frame that was freed, be it a variable or a temporary
\* (async.tpp:17-20, 51-55).
THEOREM FramesNotTouched == Spec => []OnlyHeldOnTouched
  BY CoroutinesInvariant, PTL DEF CoroutinesInv

\* Only tasks that ended before their object was dropped, and that nobody
\* awaited, leave their frame behind (async.tpp:17-27).
THEOREM OthersDoNotLeak == Spec => []OnlyEndedFirstLeak
<1>1. CoroutinesInv => OnlyEndedFirstLeak
  BY TasksAssumption DEF CoroutinesInv, Awaits, Misses, Ends, OnlyEndedFirstLeak, Orphan
<1> QED BY <1>1, CoroutinesInvariant, PTL

\* Every awaiter waits for a live task that will resume it, unless that task
\* ended on another thread between its await_ready and its await_suspend; and a
\* live task resumes nobody who does not wait for it (async.tpp:17-27, 80-88).
THEOREM AwaitersAreResumed == Spec => []AwaiterIsResumed
<1>1. CoroutinesInv => AwaiterIsResumed
  BY DEF CoroutinesInv, Types, Stacks, TypeOK, AwaiterIsResumed, Awaiting, Awaited, Pending
<1> QED BY <1>1, CoroutinesInvariant, PTL

\* Where one thread executes all coroutines, no task is missed: every awaiter
\* waits for a live task.
NoneMissedByOne == missed # {} => \E k, l \in Threads : k # l

THEOREM OneThreadMissesNone == Spec => []NoneMissedByOne
<1>1. Init => NoneMissedByOne
  BY DEF Init, NoneMissedByOne
<1>2. NoneMissedByOne /\ [Next]_vars => NoneMissedByOne'
  <2> SUFFICES ASSUME NoneMissedByOne, [Next]_vars, missed' # {}
               PROVE  \E k, l \in Threads : k # l
    BY DEF NoneMissedByOne
  <2>1. ASSUME NEW k \in Threads, NEW t \in Tasks, Return(k, t)
        PROVE  missed' = missed \/ \E l \in Threads : k # l
    BY <2>1 DEF Return
  <2>2. missed' = missed \/ \E k, l \in Threads : k # l
    BY <2>1 DEF Next, vars, historyVars, Call, Wait, Event, Drop, EndExpression, Destroys,
       AwaitSuspend, Free, Await
  <2> QED BY <2>2 DEF NoneMissedByOne
<1> QED BY <1>1, <1>2, PTL DEF Spec
=============================================================================
