----------------------------- MODULE TaskBuffer -----------------------------
(***************************************************************************)
(* Worker threads and the main thread's task queue (TaskBuffer.hpp, .cpp). *)
(* Any thread queues tasks for the workers (queue) or for the event loop   *)
(* (runInMainThread); the workers run theirs in executeTasks, the main     *)
(* thread in executeMainThreadTasks, and it destroys the object.           *)
(*                                                                         *)
(* A step is what lies between two accesses to shared state: the sections  *)
(* under taskLock and mtTaskLock are one step each, and cvLock is a        *)
(* variable.  The unlocked empty() calls race with emplace_back; reading   *)
(* "not empty" early only leads to the lock that emplace_back holds, so    *)
(* that the race has no outcome that the order of the steps has not.       *)
(***************************************************************************)
EXTENDS Naturals, Sequences, FiniteSets

CONSTANTS
  Workers,      \* the threads there may be
  Clients,      \* code that submits tasks: other threads, and running tasks
  AsyncTasks,   \* tasks for queue()
  MainTasks,    \* tasks for runInMainThread()
  Endless,      \* tasks that never return
  NoTask, NoThread,
  MayStop       \* whether the program destroys the object

ASSUME ThreadsAssumption == NoThread \notin Workers
ASSUME TasksAssumption   == /\ NoTask \notin AsyncTasks \cup MainTasks
                            /\ AsyncTasks \cap MainTasks = {}
ASSUME StopAssumption    == MayStop \in BOOLEAN

VARIABLES
  asyncTasks, mtTasks,   \* the two queues
  shouldRun,             \* the flag: TRUE is set
  cvLock,                \* owner of the mutex
  pc,                    \* program point of each worker in executeTasks
  tasks,                 \* its local vector
  current,               \* the task it runs
  clientPc,              \* "out", "notify" or "send": what its call has left to do
  execCaller,            \* "null", "quiet", or "sent": its callback is due
  mainPc,                \* program point of the main thread
  mainTasks,             \* local vector of executeMainThreadTasks
  mainCurrent,           \* the task it runs
  submitted, finished,   \* tasks by what became of them
  nullSend               \* undefined behaviour: send() on a null execCaller

workerVars == <<cvLock, pc, tasks, current>>
mainVars   == <<mainPc, mainTasks, mainCurrent>>

\* What the workers' loop leaves alone, and what the others leave alone.
notWorkers == <<mtTasks, clientPc, execCaller, mainVars, submitted, nullSend>>
notOthers  == <<asyncTasks, shouldRun, workerVars>>

vars == <<asyncTasks, mtTasks, shouldRun, workerVars, clientPc, execCaller, mainVars,
          submitted, finished, nullSend>>

-----------------------------------------------------------------------------
\* The number of workers is a parameter of the constructor, at least one; a
\* worker that is not started is modelled as one that has returned.
Init ==
  /\ asyncTasks = <<>> /\ mtTasks = <<>>
  /\ shouldRun = TRUE
  /\ cvLock = NoThread
  /\ \E started \in SUBSET Workers :
       /\ started # {}
       /\ pc = [w \in Workers |-> IF w \in started THEN "start" ELSE "returned"]
  /\ tasks = [w \in Workers |-> <<>>]
  /\ current = [w \in Workers |-> NoTask]
  /\ clientPc = [c \in Clients |-> "out"]
  /\ execCaller = "quiet"
  /\ mainPc = "loop"
  /\ mainTasks = <<>>
  /\ mainCurrent = NoTask
  /\ submitted = {} /\ finished = {}
  /\ nullSend = FALSE

-----------------------------------------------------------------------------
(* executeTasks, by a worker *)

Goto(w, from, to) == pc[w] = from /\ pc' = [pc EXCEPT ![w] = to]

Waiting == {w \in Workers : pc[w] = "waiting"}

\* cv.notify_one(): some waiting thread returns from wait_for.
notify_one ==
  IF Waiting = {} THEN UNCHANGED pc ELSE \E w \in Waiting : pc' = [pc EXCEPT ![w] = "woken"]

\* The lock is taken at the start, and before wait_for returns.
Lock(w) ==
  /\ cvLock = NoThread
  /\ cvLock' = w
  /\ Goto(w, "start", "check") \/ Goto(w, "woken", "test")
  /\ UNCHANGED <<notWorkers, asyncTasks, shouldRun, tasks, current, finished>>

CheckEmpty(w) ==
  /\ IF asyncTasks # <<>> THEN Goto(w, "check", "swap") ELSE Goto(w, "check", "wait")
  /\ UNCHANGED <<notWorkers, asyncTasks, shouldRun, cvLock, tasks, current, finished>>

\* Mutant: takes a copy of the queue.
CopyTasks(w) ==
  /\ Goto(w, "swap", "run")
  /\ tasks' = [tasks EXCEPT ![w] = asyncTasks]
  /\ UNCHANGED <<notWorkers, asyncTasks, shouldRun, cvLock, current, finished>>

SwapTasks(w) ==
  /\ Goto(w, "swap", "run")
  /\ tasks' = [tasks EXCEPT ![w] = asyncTasks]
  /\ asyncTasks' = tasks[w]
  /\ UNCHANGED <<notWorkers, shouldRun, cvLock, current, finished>>

StartTask(w) ==
  /\ pc[w] = "run" /\ current[w] = NoTask /\ tasks[w] # <<>>
  /\ current' = [current EXCEPT ![w] = Head(tasks[w])]
  /\ tasks' = [tasks EXCEPT ![w] = Tail(@)]
  /\ UNCHANGED <<notWorkers, asyncTasks, shouldRun, cvLock, pc, finished>>

\* Mutant: calls one function too many.
EndNoTask(w) ==
  /\ pc[w] = "run"
  /\ finished' = finished \cup {current[w]}
  /\ current' = [current EXCEPT ![w] = NoTask]
  /\ UNCHANGED <<notWorkers, asyncTasks, shouldRun, cvLock, pc, tasks>>

EndTask(w) ==
  /\ current[w] \notin Endless \cup {NoTask}
  /\ finished' = finished \cup {current[w]}
  /\ current' = [current EXCEPT ![w] = NoTask]
  /\ UNCHANGED <<notWorkers, asyncTasks, shouldRun, cvLock, pc, tasks>>

TasksDone(w) ==
  /\ current[w] = NoTask /\ tasks[w] = <<>>
  /\ Goto(w, "run", "test")
  /\ UNCHANGED <<notWorkers, asyncTasks, shouldRun, cvLock, tasks, current, finished>>

\* Mutant: waits with the mutex locked.
WaitLocked(w) ==
  /\ Goto(w, "wait", "waiting")
  /\ UNCHANGED <<notWorkers, asyncTasks, shouldRun, cvLock, tasks, current, finished>>

\* wait_for releases the lock and joins the waiting threads in one step.
Wait(w) ==
  /\ Goto(w, "wait", "waiting")
  /\ cvLock' = NoThread
  /\ UNCHANGED <<notWorkers, asyncTasks, shouldRun, tasks, current, finished>>

\* Mutant: cv.wait, which has no timeout.
NoTimeout(w) == FALSE /\ UNCHANGED vars

\* Ten seconds have passed, or the wakeup is spurious.
Timeout(w) ==
  /\ Goto(w, "waiting", "woken")
  /\ UNCHANGED <<notWorkers, asyncTasks, shouldRun, cvLock, tasks, current, finished>>

\* while (shouldRun.test_and_set()): a worker that finds the flag clear leaves
\* the loop with the flag set.
TestAndSet(w) ==
  /\ IF shouldRun THEN Goto(w, "test", "check") ELSE Goto(w, "test", "leave")
  /\ shouldRun' = TRUE
  /\ UNCHANGED <<notWorkers, asyncTasks, cvLock, tasks, current, finished>>

\* Mutant: the next worker is not told to stop.
KeepFlag(w) ==
  /\ Goto(w, "leave", "notify")
  /\ UNCHANGED <<notWorkers, asyncTasks, shouldRun, cvLock, tasks, current, finished>>

ClearFlag(w) ==
  /\ Goto(w, "leave", "notify")
  /\ shouldRun' = FALSE
  /\ UNCHANGED <<notWorkers, asyncTasks, cvLock, tasks, current, finished>>

\* The last notify_one, and the end of the thread's function.
NotifyNext(w) ==
  /\ pc[w] = "notify"
  /\ IF Waiting = {}
     THEN pc' = [pc EXCEPT ![w] = "unlock"]
     ELSE \E v \in Waiting : pc' = [pc EXCEPT ![w] = "unlock", ![v] = "woken"]
  /\ UNCHANGED <<notWorkers, asyncTasks, shouldRun, cvLock, tasks, current, finished>>

Return(w) ==
  /\ Goto(w, "unlock", "returned")
  /\ cvLock' = NoThread
  /\ UNCHANGED <<notWorkers, asyncTasks, shouldRun, tasks, current, finished>>

-----------------------------------------------------------------------------
(* queue and runInMainThread, by any thread *)

\* Tasks are not submitted to a destroyed object.
MaySubmit(c, t) == clientPc[c] = "out" /\ mainPc # "destroyed" /\ t \notin submitted

Queue(c, t) ==
  /\ MaySubmit(c, t)
  /\ asyncTasks' = Append(asyncTasks, t)
  /\ submitted' = submitted \cup {t}
  /\ clientPc' = [clientPc EXCEPT ![c] = "notify"]
  /\ UNCHANGED <<mtTasks, shouldRun, workerVars, execCaller, mainVars, finished, nullSend>>

NotifyOne(c) ==
  /\ clientPc[c] = "notify"
  /\ clientPc' = [clientPc EXCEPT ![c] = "out"]
  /\ notify_one
  /\ UNCHANGED <<asyncTasks, mtTasks, shouldRun, cvLock, tasks, current, execCaller,
                 mainVars, submitted, finished, nullSend>>

RunInMainThread(c, t) ==
  /\ MaySubmit(c, t)
  /\ mtTasks' = Append(mtTasks, t)
  /\ submitted' = submitted \cup {t}
  /\ clientPc' = [clientPc EXCEPT ![c] = "send"]
  /\ UNCHANGED <<notOthers, execCaller, mainVars, finished, nullSend>>

\* Mutant: sends only when the callback is not running.
SendIfQuiet(c) ==
  /\ clientPc[c] = "send"
  /\ clientPc' = [clientPc EXCEPT ![c] = "out"]
  /\ execCaller' = IF mainPc = "run" THEN execCaller ELSE "sent"
  /\ UNCHANGED <<notOthers, mtTasks, mainVars, submitted, finished, nullSend>>

\* execCaller->send(), on a pointer that prepareForDestruction may have reset.
Send(c) ==
  /\ clientPc[c] = "send"
  /\ clientPc' = [clientPc EXCEPT ![c] = "out"]
  /\ \/ execCaller = "null" /\ nullSend' = TRUE /\ UNCHANGED execCaller
     \/ execCaller # "null" /\ execCaller' = "sent" /\ UNCHANGED nullSend
  /\ UNCHANGED <<notOthers, mtTasks, mainVars, submitted, finished>>

-----------------------------------------------------------------------------
(* The main thread *)

\* executeMainThreadTasks up to the swap; only this thread empties mtTasks.
TakeMainTasks(from, to) ==
  /\ mainPc = from /\ mainTasks = <<>>
  /\ mainPc' = to
  /\ mainTasks' = mtTasks
  /\ mtTasks' = <<>>
  /\ UNCHANGED <<notOthers, clientPc, mainCurrent, submitted, finished, nullSend>>

ExecCallback ==
  /\ execCaller = "sent"
  /\ execCaller' = "quiet"
  /\ TakeMainTasks("loop", "run")

StartMainTask ==
  /\ mainPc \in {"run", "prepare"} /\ mainCurrent = NoTask /\ mainTasks # <<>>
  /\ mainCurrent' = Head(mainTasks)
  /\ mainTasks' = Tail(mainTasks)
  /\ UNCHANGED <<notOthers, mtTasks, clientPc, execCaller, mainPc, submitted, finished,
                 nullSend>>

EndMainTask ==
  /\ mainCurrent \notin Endless \cup {NoTask}
  /\ finished' = finished \cup {mainCurrent}
  /\ mainCurrent' = NoTask
  /\ UNCHANGED <<notOthers, mtTasks, clientPc, execCaller, mainPc, mainTasks, submitted,
                 nullSend>>

MainGoto(from, to) == mainPc = from /\ mainPc' = to /\ UNCHANGED <<mainTasks, mainCurrent>>

MainTasksDone ==
  /\ mainTasks = <<>> /\ mainCurrent = NoTask
  /\ MainGoto("run", "loop")
  /\ UNCHANGED <<notOthers, mtTasks, clientPc, execCaller, submitted, finished, nullSend>>

\* prepareForDestruction()
Prepare ==
  /\ MayStop
  /\ TakeMainTasks("loop", "prepare")
  /\ UNCHANGED execCaller

Prepared ==
  /\ mainTasks = <<>> /\ mainCurrent = NoTask
  /\ MainGoto("prepare", "prepared")
  /\ execCaller' = "null"
  /\ UNCHANGED <<notOthers, mtTasks, clientPc, submitted, finished, nullSend>>

\* ~TaskBuffer()
Stop ==
  /\ MainGoto("prepared", "stop")
  /\ shouldRun' = FALSE
  /\ UNCHANGED <<asyncTasks, mtTasks, workerVars, clientPc, execCaller, submitted, finished,
                 nullSend>>

NotifyAll ==
  /\ MainGoto("stop", "join")
  /\ pc' = [w \in Workers |-> IF pc[w] = "waiting" THEN "woken" ELSE pc[w]]
  /\ UNCHANGED <<asyncTasks, mtTasks, shouldRun, cvLock, tasks, current, clientPc,
                 execCaller, submitted, finished, nullSend>>

Joined ==
  /\ \A w \in Workers : pc[w] = "returned"
  /\ MainGoto("join", "destroyed")
  /\ UNCHANGED <<notOthers, mtTasks, clientPc, execCaller, submitted, finished, nullSend>>

-----------------------------------------------------------------------------
Worker(w) ==
  \/ Lock(w) \/ CheckEmpty(w) \/ SwapTasks(w) \/ StartTask(w) \/ EndTask(w) \/ TasksDone(w)
  \/ Wait(w) \/ Timeout(w) \/ TestAndSet(w) \/ ClearFlag(w) \/ NotifyNext(w) \/ Return(w)

Client(c) ==
  \/ \E t \in AsyncTasks : Queue(c, t)
  \/ \E t \in MainTasks : RunInMainThread(c, t)
  \/ NotifyOne(c) \/ Send(c)

MainLoop == ExecCallback \/ StartMainTask \/ EndMainTask \/ MainTasksDone

Destruction == Prepared \/ Stop \/ NotifyAll \/ Joined

Main == MainLoop \/ Prepare \/ Destruction

Next == Main \/ (\E w \in Workers : Worker(w)) \/ (\E c \in Clients : Client(c))

Spec == Init /\ [][Next]_vars

\* Threads that can go on do, and wait_for returns after ten seconds.  Nothing
\* is assumed of who gets a mutex, of submissions or of the destruction.
Fairness ==
  /\ \A w \in Workers : WF_vars(Worker(w))
  /\ \A c \in Clients : WF_vars(NotifyOne(c) \/ Send(c))
  /\ WF_vars(MainLoop) /\ WF_vars(Destruction)

FairSpec == Spec /\ Fairness

-----------------------------------------------------------------------------
(* Properties *)

Unlocked == {"start", "waiting", "woken", "returned"}

Locked == {"check", "swap", "run", "wait", "test", "leave", "notify", "unlock"}

\* The values the variables take.
TypeOK ==
  /\ asyncTasks \in Seq(AsyncTasks) /\ mtTasks \in Seq(MainTasks)
  /\ shouldRun \in BOOLEAN /\ nullSend \in BOOLEAN
  /\ cvLock \in Workers \cup {NoThread}
  /\ pc \in [Workers -> Unlocked \cup Locked]
  /\ tasks \in [Workers -> Seq(AsyncTasks)]
  /\ current \in [Workers -> AsyncTasks \cup {NoTask}]
  /\ clientPc \in [Clients -> {"out", "notify", "send"}]
  /\ execCaller \in {"null", "quiet", "sent"}
  /\ mainPc \in {"loop", "run", "prepare", "prepared", "stop", "join", "destroyed"}
  /\ mainTasks \in Seq(MainTasks) /\ mainCurrent \in MainTasks \cup {NoTask}
  /\ submitted \subseteq AsyncTasks \cup MainTasks
  /\ finished \subseteq AsyncTasks \cup MainTasks

\* cvLock is held by the worker that is between wait_for calls, and that one
\* alone has tasks of its own: two async tasks never run at the same time.
OneAtATime ==
  \A w \in Workers :
    /\ pc[w] \in Locked <=> cvLock = w
    /\ tasks[w] # <<>> \/ current[w] # NoTask => pc[w] = "run"

\* A task for the main thread finds the loop about to be woken for it.
MainWakeup ==
  mainPc = "loop" /\ mtTasks # <<>> =>
    execCaller = "sent" \/ \E c \in Clients : clientPc[c] = "send"

\* Once the destructor has cleared shouldRun, every worker that is still there
\* will find it clear, although each of them sets it to look at it.
StopNotLost ==
  mainPc \in {"stop", "join"} /\ (\E w \in Workers : pc[w] \in {"start", "waiting", "woken",
                                  "check", "swap", "run", "wait", "test"}) =>
    ~shouldRun \/ \E w \in Workers : pc[w] = "leave"

AsyncWaiting ==
  IF \E w \in Workers : tasks[w] # <<>>
  THEN tasks[CHOOSE w \in Workers : tasks[w] # <<>>] \o asyncTasks
  ELSE asyncTasks

AsyncRunning ==
  IF \E w \in Workers : current[w] # NoTask
  THEN current[CHOOSE w \in Workers : current[w] # NoTask]
  ELSE NoTask

AsyncFifo == INSTANCE TaskFifo WITH Tasks <- AsyncTasks, waiting <- AsyncWaiting,
               running <- AsyncRunning, finished <- finished \cap AsyncTasks

MainFifo == INSTANCE TaskFifo WITH Tasks <- MainTasks, waiting <- mainTasks \o mtTasks,
              running <- mainCurrent, finished <- finished \cap MainTasks

\* The workers together run the queued tasks once each, in order, one by one,
\* and so does the main thread with its own.
ImplementsFifos == AsyncFifo!Spec /\ MainFifo!Spec

\* A queued task is run, by a worker also when its notification comes before the
\* wait, as long as the program does not destroy the object.
TasksRun ==
  \A t \in AsyncTasks \cup MainTasks :
    t \in submitted ~> (t \in finished \/ execCaller = "null")

\* The destructor returns: every worker stops.
DestructorReturns == mainPc = "stop" ~> mainPc = "destroyed"

-----------------------------------------------------------------------------
(* Statements of the source's comments that do not hold *)

\* TaskBuffer.cpp:90, "the other threads should be able to get work too while
\* tasks execute": tasks that are queued then are taken.
OthersGetWork ==
  \A t \in AsyncTasks : (\E i \in DOMAIN asyncTasks : asyncTasks[i] = t) ~>
                        ~(\E i \in DOMAIN asyncTasks : asyncTasks[i] = t)

=============================================================================
