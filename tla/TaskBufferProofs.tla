-------------------------- MODULE TaskBufferProofs --------------------------
(***************************************************************************)
(* Safety of TaskBuffer for any number of workers, of threads that submit  *)
(* tasks, and of tasks.                                                    *)
(***************************************************************************)
EXTENDS TaskBuffer, SequenceTheorems, TLAPS

\* The loop's callback object lives as long as the loop uses it, and a task
\* that comes while the callback runs causes another callback.
Wakeup ==
  mainPc \in {"loop", "run"} =>
    /\ execCaller # "null"
    /\ mtTasks # <<>> => execCaller = "sent" \/ \E c \in Clients : clientPc[c] = "send"

IInv == TypeOK /\ OneAtATime /\ StopNotLost /\ Wakeup

-----------------------------------------------------------------------------
\* The initial state satisfies the invariant.
LEMMA InitIInv == Init => IInv
<1> SUFFICES ASSUME Init PROVE IInv
  OBVIOUS
<1> USE ThreadsAssumption, TasksAssumption DEF Init
<1>1. TypeOK
  <2>1. /\ asyncTasks \in Seq(AsyncTasks) /\ mtTasks \in Seq(MainTasks)
        /\ mainTasks \in Seq(MainTasks)
    OBVIOUS
  <2>2. pc \in [Workers -> Unlocked \cup Locked] /\ clientPc \in [Clients -> {"out", "notify", "send"}]
    BY DEF Unlocked, Locked
  <2>3. tasks \in [Workers -> Seq(AsyncTasks)] /\ current \in [Workers -> AsyncTasks \cup {NoTask}]
    OBVIOUS
  <2> QED
    BY <2>1, <2>2, <2>3 DEF TypeOK
<1>2. OneAtATime
  BY DEF OneAtATime, Unlocked, Locked
<1>3. StopNotLost /\ Wakeup
  BY DEF StopNotLost, Wakeup
<1> QED
  BY <1>1, <1>2, <1>3 DEF IInv

\* Every step keeps the types.
LEMMA TypeStep == ASSUME TypeOK, [Next]_vars PROVE TypeOK'
<1> USE ThreadsAssumption, TasksAssumption DEF TypeOK, notWorkers, notOthers,
   workerVars, mainVars, Unlocked, Locked
<1>1. ASSUME NEW w \in Workers, Worker(w) PROVE TypeOK'
  <2>1. CASE Lock(w)
    BY <2>1 DEF Goto, Lock
  <2>2. CASE CheckEmpty(w)
    BY <2>2 DEF Goto, CheckEmpty
  <2>3. CASE SwapTasks(w)
    BY <2>3 DEF Goto, SwapTasks
  <2>4. CASE StartTask(w)
    BY <2>4 DEF StartTask
  <2>5. CASE EndTask(w)
    BY <2>5 DEF EndTask
  <2>6. CASE TasksDone(w)
    BY <2>6 DEF Goto, TasksDone
  <2>7. CASE Wait(w)
    BY <2>7 DEF Goto, Wait
  <2>8. CASE Timeout(w)
    BY <2>8 DEF Goto, Timeout
  <2>9. CASE TestAndSet(w)
    BY <2>9 DEF Goto, TestAndSet
  <2>10. CASE ClearFlag(w)
    BY <2>10 DEF Goto, ClearFlag
  <2>11. CASE NotifyNext(w)
    BY <2>11 DEF Waiting, NotifyNext
  <2>12. CASE Return(w)
    BY <2>12 DEF Goto, Return
  <2> QED
    BY <1>1, <2>1, <2>2, <2>3, <2>4, <2>5, <2>6, <2>7, <2>8, <2>9, <2>10, <2>11,
       <2>12 DEF Worker
<1>2. ASSUME NEW c \in Clients, Client(c) PROVE TypeOK'
  <2>1. ASSUME NEW t \in AsyncTasks, Queue(c, t) PROVE TypeOK'
    BY <2>1 DEF MaySubmit, Queue
  <2>2. ASSUME NEW t \in MainTasks, RunInMainThread(c, t) PROVE TypeOK'
    BY <2>2 DEF MaySubmit, RunInMainThread
  <2>3. CASE NotifyOne(c)
    BY <2>3 DEF notify_one, Waiting, NotifyOne
  <2>4. CASE Send(c)
    BY <2>4 DEF Send
  <2> QED
    BY <1>2, <2>1, <2>2, <2>3, <2>4 DEF Client
<1>3. CASE Main
  <2>1. CASE ExecCallback
    BY <2>1 DEF TakeMainTasks, ExecCallback
  <2>2. CASE StartMainTask
    BY <2>2 DEF StartMainTask
  <2>3. CASE EndMainTask
    BY <2>3 DEF EndMainTask
  <2>4. CASE MainTasksDone
    BY <2>4 DEF MainGoto, MainTasksDone
  <2>5. CASE Prepare
    BY <2>5 DEF TakeMainTasks, Prepare
  <2>6. CASE Prepared
    BY <2>6 DEF MainGoto, Prepared
  <2>7. CASE Stop
    BY <2>7 DEF MainGoto, Stop
  <2>8. CASE NotifyAll
    BY <2>8 DEF MainGoto, NotifyAll
  <2>9. CASE Joined
    BY <2>9 DEF MainGoto, Joined
  <2> QED
    BY <1>3, <2>1, <2>2, <2>3, <2>4, <2>5, <2>6, <2>7, <2>8, <2>9 DEF Main, MainLoop,
       Destruction
<1>4. CASE UNCHANGED vars
  BY <1>4 DEF vars
<1> QED
  BY <1>1, <1>2, <1>3, <1>4 DEF Next

\* Only the owner of cvLock moves between the waits.
LEMMA OneAtATimeStep == ASSUME TypeOK, OneAtATime, [Next]_vars PROVE OneAtATime'
<1> USE ThreadsAssumption, TasksAssumption DEF TypeOK, OneAtATime, notWorkers,
   notOthers, workerVars, mainVars, Unlocked, Locked
<1>1. ASSUME NEW w \in Workers, Worker(w) PROVE OneAtATime'
  <2>1. CASE Lock(w)
    BY <2>1 DEF Goto, Lock
  <2>2. CASE CheckEmpty(w)
    BY <2>2 DEF Goto, CheckEmpty
  <2>3. CASE SwapTasks(w)
    BY <2>3 DEF Goto, SwapTasks
  <2>4. CASE StartTask(w)
    BY <2>4 DEF StartTask
  <2>5. CASE EndTask(w)
    BY <2>5 DEF EndTask
  <2>6. CASE TasksDone(w)
    BY <2>6 DEF Goto, TasksDone
  <2>7. CASE Wait(w)
    BY <2>7 DEF Goto, Wait
  <2>8. CASE Timeout(w)
    BY <2>8 DEF Goto, Timeout
  <2>9. CASE TestAndSet(w)
    BY <2>9 DEF Goto, TestAndSet
  <2>10. CASE ClearFlag(w)
    BY <2>10 DEF Goto, ClearFlag
  <2>11. CASE NotifyNext(w)
    BY <2>11 DEF Waiting, NotifyNext
  <2>12. CASE Return(w)
    BY <2>12 DEF Goto, Return
  <2> QED
    BY <1>1, <2>1, <2>2, <2>3, <2>4, <2>5, <2>6, <2>7, <2>8, <2>9, <2>10, <2>11,
       <2>12 DEF Worker
<1>2. ASSUME NEW c \in Clients, Client(c) PROVE OneAtATime'
  <2>1. ASSUME NEW t \in AsyncTasks, Queue(c, t) PROVE OneAtATime'
    BY <2>1 DEF MaySubmit, Queue
  <2>2. ASSUME NEW t \in MainTasks, RunInMainThread(c, t) PROVE OneAtATime'
    BY <2>2 DEF MaySubmit, RunInMainThread
  <2>3. CASE NotifyOne(c)
    BY <2>3 DEF notify_one, Waiting, NotifyOne
  <2>4. CASE Send(c)
    BY <2>4 DEF Send
  <2> QED
    BY <1>2, <2>1, <2>2, <2>3, <2>4 DEF Client
<1>3. CASE Main
  <2>1. CASE ExecCallback
    BY <2>1 DEF TakeMainTasks, ExecCallback
  <2>2. CASE StartMainTask
    BY <2>2 DEF StartMainTask
  <2>3. CASE EndMainTask
    BY <2>3 DEF EndMainTask
  <2>4. CASE MainTasksDone
    BY <2>4 DEF MainGoto, MainTasksDone
  <2>5. CASE Prepare
    BY <2>5 DEF TakeMainTasks, Prepare
  <2>6. CASE Prepared
    BY <2>6 DEF MainGoto, Prepared
  <2>7. CASE Stop
    BY <2>7 DEF MainGoto, Stop
  <2>8. CASE NotifyAll
    BY <2>8 DEF MainGoto, NotifyAll
  <2>9. CASE Joined
    BY <2>9 DEF MainGoto, Joined
  <2> QED
    BY <1>3, <2>1, <2>2, <2>3, <2>4, <2>5, <2>6, <2>7, <2>8, <2>9 DEF Main, MainLoop,
       Destruction
<1>4. CASE UNCHANGED vars
  BY <1>4 DEF vars
<1> QED
  BY <1>1, <1>2, <1>3, <1>4 DEF Next

\* A worker that sets the flag to look at it holds cvLock, and clears it before
\* another one looks.
LEMMA StopStep ==
  ASSUME TypeOK, OneAtATime, StopNotLost, [Next]_vars PROVE StopNotLost'
<1> USE ThreadsAssumption DEF TypeOK, OneAtATime, StopNotLost, notWorkers, notOthers,
   workerVars, mainVars, Unlocked, Locked
<1>1. ASSUME NEW w \in Workers, Worker(w) PROVE StopNotLost'
  <2>1. CASE Lock(w)
    BY <2>1 DEF Goto, Lock
  <2>2. CASE CheckEmpty(w)
    BY <2>2 DEF Goto, CheckEmpty
  <2>3. CASE SwapTasks(w)
    BY <2>3 DEF Goto, SwapTasks
  <2>4. CASE StartTask(w)
    BY <2>4 DEF StartTask
  <2>5. CASE EndTask(w)
    BY <2>5 DEF EndTask
  <2>6. CASE TasksDone(w)
    BY <2>6 DEF Goto, TasksDone
  <2>7. CASE Wait(w)
    BY <2>7 DEF Goto, Wait
  <2>8. CASE Timeout(w)
    BY <2>8 DEF Goto, Timeout
  <2>9. CASE TestAndSet(w)
    BY <2>9 DEF Goto, TestAndSet
  <2>10. CASE ClearFlag(w)
    BY <2>10 DEF Goto, ClearFlag
  <2>11. CASE NotifyNext(w)
    BY <2>11 DEF Waiting, NotifyNext
  <2>12. CASE Return(w)
    BY <2>12 DEF Goto, Return
  <2> QED
    BY <1>1, <2>1, <2>2, <2>3, <2>4, <2>5, <2>6, <2>7, <2>8, <2>9, <2>10, <2>11,
       <2>12 DEF Worker
<1>2. ASSUME NEW c \in Clients, Client(c) PROVE StopNotLost'
  <2>1. ASSUME NEW t \in AsyncTasks, Queue(c, t) PROVE StopNotLost'
    BY <2>1 DEF MaySubmit, Queue
  <2>2. ASSUME NEW t \in MainTasks, RunInMainThread(c, t) PROVE StopNotLost'
    BY <2>2 DEF MaySubmit, RunInMainThread
  <2>3. CASE NotifyOne(c)
    BY <2>3 DEF notify_one, Waiting, NotifyOne
  <2>4. CASE Send(c)
    BY <2>4 DEF Send
  <2> QED
    BY <1>2, <2>1, <2>2, <2>3, <2>4 DEF Client
<1>3. CASE Main
  <2>1. CASE ExecCallback
    BY <2>1 DEF TakeMainTasks, ExecCallback
  <2>2. CASE StartMainTask
    BY <2>2 DEF StartMainTask
  <2>3. CASE EndMainTask
    BY <2>3 DEF EndMainTask
  <2>4. CASE MainTasksDone
    BY <2>4 DEF MainGoto, MainTasksDone
  <2>5. CASE Prepare
    BY <2>5 DEF TakeMainTasks, Prepare
  <2>6. CASE Prepared
    BY <2>6 DEF MainGoto, Prepared
  <2>7. CASE Stop
    BY <2>7 DEF MainGoto, Stop
  <2>8. CASE NotifyAll
    BY <2>8 DEF MainGoto, NotifyAll
  <2>9. CASE Joined
    BY <2>9 DEF MainGoto, Joined
  <2> QED
    BY <1>3, <2>1, <2>2, <2>3, <2>4, <2>5, <2>6, <2>7, <2>8, <2>9 DEF Main, MainLoop,
       Destruction
<1>4. CASE UNCHANGED vars
  BY <1>4 DEF vars
<1> QED
  BY <1>1, <1>2, <1>3, <1>4 DEF Next

\* Who adds a task for the main thread has the signal still to send.
LEMMA WakeupStep == ASSUME TypeOK, Wakeup, [Next]_vars PROVE Wakeup'
<1> USE DEF TypeOK, Wakeup, notWorkers, notOthers, workerVars, mainVars, Unlocked,
   Locked
<1>1. ASSUME NEW w \in Workers, Worker(w) PROVE Wakeup'
  <2>1. CASE Lock(w)
    BY <2>1 DEF Goto, Lock
  <2>2. CASE CheckEmpty(w)
    BY <2>2 DEF Goto, CheckEmpty
  <2>3. CASE SwapTasks(w)
    BY <2>3 DEF Goto, SwapTasks
  <2>4. CASE StartTask(w)
    BY <2>4 DEF StartTask
  <2>5. CASE EndTask(w)
    BY <2>5 DEF EndTask
  <2>6. CASE TasksDone(w)
    BY <2>6 DEF Goto, TasksDone
  <2>7. CASE Wait(w)
    BY <2>7 DEF Goto, Wait
  <2>8. CASE Timeout(w)
    BY <2>8 DEF Goto, Timeout
  <2>9. CASE TestAndSet(w)
    BY <2>9 DEF Goto, TestAndSet
  <2>10. CASE ClearFlag(w)
    BY <2>10 DEF Goto, ClearFlag
  <2>11. CASE NotifyNext(w)
    BY <2>11 DEF Waiting, NotifyNext
  <2>12. CASE Return(w)
    BY <2>12 DEF Goto, Return
  <2> QED
    BY <1>1, <2>1, <2>2, <2>3, <2>4, <2>5, <2>6, <2>7, <2>8, <2>9, <2>10, <2>11,
       <2>12 DEF Worker
<1>2. ASSUME NEW c \in Clients, Client(c) PROVE Wakeup'
  <2>1. ASSUME NEW t \in AsyncTasks, Queue(c, t) PROVE Wakeup'
    BY <2>1 DEF MaySubmit, Queue
  <2>2. ASSUME NEW t \in MainTasks, RunInMainThread(c, t) PROVE Wakeup'
    BY <2>2 DEF MaySubmit, RunInMainThread
  <2>3. CASE NotifyOne(c)
    BY <2>3 DEF notify_one, Waiting, NotifyOne
  <2>4. CASE Send(c)
    BY <2>4 DEF Send
  <2> QED
    BY <1>2, <2>1, <2>2, <2>3, <2>4 DEF Client
<1>3. CASE Main
  <2>1. CASE ExecCallback
    BY <2>1 DEF TakeMainTasks, ExecCallback
  <2>2. CASE StartMainTask
    BY <2>2 DEF StartMainTask
  <2>3. CASE EndMainTask
    BY <2>3 DEF EndMainTask
  <2>4. CASE MainTasksDone
    BY <2>4 DEF MainGoto, MainTasksDone
  <2>5. CASE Prepare
    BY <2>5 DEF TakeMainTasks, Prepare
  <2>6. CASE Prepared
    BY <2>6 DEF MainGoto, Prepared
  <2>7. CASE Stop
    BY <2>7 DEF MainGoto, Stop
  <2>8. CASE NotifyAll
    BY <2>8 DEF MainGoto, NotifyAll
  <2>9. CASE Joined
    BY <2>9 DEF MainGoto, Joined
  <2> QED
    BY <1>3, <2>1, <2>2, <2>3, <2>4, <2>5, <2>6, <2>7, <2>8, <2>9 DEF Main, MainLoop,
       Destruction
<1>4. CASE UNCHANGED vars
  BY <1>4 DEF vars
<1> QED
  BY <1>1, <1>2, <1>3, <1>4 DEF Next

\* The invariant is inductive.
LEMMA Invariance == Spec => []IInv
<1>1. IInv /\ [Next]_vars => IInv'
  BY TypeStep, OneAtATimeStep, StopStep, WakeupStep DEF IInv
<1> QED
  BY <1>1, InitIInv, PTL DEF Spec

-----------------------------------------------------------------------------
\* The types of the variables.
THEOREM TypeCorrect == Spec => []TypeOK
<1>1. IInv => TypeOK
  BY DEF IInv
<1> QED
  BY <1>1, Invariance, PTL

\* However many workers there are, one at a time executes tasks.
THEOREM ExclusiveExecution == Spec => []OneAtATime
<1>1. IInv => OneAtATime
  BY DEF IInv
<1> QED
  BY <1>1, Invariance, PTL

\* No worker's look at the flag hides the destructor's request from the others.
THEOREM StopIsNotLost == Spec => []StopNotLost
<1>1. IInv => StopNotLost
  BY DEF IInv
<1> QED
  BY <1>1, Invariance, PTL

\* No task is left in mtTasks without a callback to come.
THEOREM MainThreadIsWoken == Spec => []MainWakeup
<1>1. IInv => MainWakeup
  BY DEF IInv, Wakeup, MainWakeup
<1> QED
  BY <1>1, Invariance, PTL

-----------------------------------------------------------------------------
(* The two queues run their tasks first come first served *)

\* Taking the first of two sequences that are read one after the other.
LEMMA HeadOfConcat ==
  ASSUME NEW S, NEW s \in Seq(S), NEW t \in Seq(S), s # <<>>
  PROVE  /\ s \o t # <<>>
         /\ Head(s \o t) = Head(s)
         /\ Tail(s \o t) = Tail(s) \o t
<1>1. /\ s \o t \in Seq(S) /\ s \o t # <<>>
      /\ Len(s) \in Nat \ {0} /\ Len(t) \in Nat
  BY ConcatProperties, ConcatEqualIffEmpty, EmptySeq
<1>2. Head(s \o t) = Head(s)
  BY <1>1, ConcatProperties
<1>3. /\ Tail(s \o t) \in Seq(S) /\ Len(Tail(s \o t)) = Len(s) + Len(t) - 1
      /\ Tail(s) \in Seq(S) /\ Len(Tail(s)) = Len(s) - 1
  BY <1>1, ConcatProperties, HeadTailProperties
<1>4. /\ Tail(s) \o t \in Seq(S) /\ Len(Tail(s) \o t) = Len(s) + Len(t) - 1
  BY <1>1, <1>3, ConcatProperties
<1>5. ASSUME NEW i \in 1 .. Len(s) + Len(t) - 1
      PROVE  Tail(s \o t)[i] = (Tail(s) \o t)[i]
  <2>1. Tail(s \o t)[i] = (s \o t)[i + 1]
    BY <1>1, <1>3, HeadTailProperties
  <2>2. (s \o t)[i + 1] = IF i + 1 <= Len(s) THEN s[i + 1] ELSE t[i + 1 - Len(s)]
    BY <1>1, ConcatProperties
  <2>3. (Tail(s) \o t)[i] = IF i <= Len(s) - 1 THEN Tail(s)[i] ELSE t[i - (Len(s) - 1)]
    BY <1>1, <1>3, ConcatProperties
  <2>4. i <= Len(s) - 1 => Tail(s)[i] = s[i + 1]
    BY <1>1, <1>3, HeadTailProperties
  <2> QED
    BY <1>1, <2>1, <2>2, <2>3, <2>4
<1>6. Tail(s \o t) = Tail(s) \o t
  BY <1>3, <1>4, <1>5, SeqEqual
<1> QED
  BY <1>1, <1>2, <1>6

\* Adding to the second of them.
LEMMA AppendToConcat ==
  ASSUME NEW S, NEW s \in Seq(S), NEW t \in Seq(S), NEW e \in S
  PROVE  s \o Append(t, e) = Append(s \o t, e)
<1>1. s \o t \in Seq(S) /\ <<e>> \in Seq(S)
  BY ConcatProperties
<1>2. Append(t, e) = t \o <<e>> /\ Append(s \o t, e) = (s \o t) \o <<e>>
  BY <1>1, AppendIsConcat
<1> QED
  BY <1>1, <1>2, ConcatAssociative

\* Every task that is anywhere was submitted.
Accounted ==
  /\ asyncTasks \in Seq(submitted) /\ mtTasks \in Seq(submitted)
  /\ tasks \in [Workers -> Seq(submitted)] /\ mainTasks \in Seq(submitted)
  /\ current \in [Workers -> submitted \cup {NoTask}]
  /\ mainCurrent \in submitted \cup {NoTask}
  /\ finished \subseteq submitted

\* Tasks are added to submitted together with their queue, and move from there.
LEMMA AccountedStep == ASSUME IInv, Accounted, [Next]_vars PROVE Accounted'
<1> USE DEF Accounted, notWorkers, notOthers, workerVars, mainVars
<1>1. ASSUME NEW w \in Workers, Worker(w) PROVE Accounted'
  <2>1. CASE SwapTasks(w)
    BY <2>1 DEF SwapTasks
  <2>2. CASE StartTask(w)
    <3>1. tasks[w] \in Seq(submitted) /\ tasks[w] # <<>>
      BY <2>2 DEF StartTask
    <3>2. Head(tasks[w]) \in submitted /\ Tail(tasks[w]) \in Seq(submitted)
      BY <3>1, HeadTailProperties
    <3> QED
      BY <2>2, <3>2 DEF StartTask
  <2>3. CASE EndTask(w)
    BY <2>3 DEF EndTask
  <2>4. CASE ~SwapTasks(w) /\ ~StartTask(w) /\ ~EndTask(w)
    BY <1>1, <2>4 DEF Worker, Lock, CheckEmpty, TasksDone, Wait, Timeout, TestAndSet,
       ClearFlag, NotifyNext, Return
  <2> QED
    BY <2>1, <2>2, <2>3, <2>4
<1>2. ASSUME NEW c \in Clients, Client(c) PROVE Accounted'
  <2>1. ASSUME NEW t \in AsyncTasks, Queue(c, t) PROVE Accounted'
    <3>1. submitted' = submitted \cup {t} /\ asyncTasks' = Append(asyncTasks, t)
      BY <2>1 DEF Queue
    <3>2. asyncTasks \in Seq(submitted') /\ t \in submitted'
      BY <3>1
    <3>3. asyncTasks' \in Seq(submitted')
      BY <3>1, <3>2, AppendProperties
    <3>4. /\ mtTasks \in Seq(submitted') /\ mainTasks \in Seq(submitted')
          /\ tasks \in [Workers -> Seq(submitted')]
      BY <3>1
    <3> QED
      BY <2>1, <3>1, <3>3, <3>4 DEF Queue
  <2>2. ASSUME NEW t \in MainTasks, RunInMainThread(c, t) PROVE Accounted'
    <3>1. submitted' = submitted \cup {t} /\ mtTasks' = Append(mtTasks, t)
      BY <2>2 DEF RunInMainThread
    <3>2. mtTasks \in Seq(submitted') /\ t \in submitted'
      BY <3>1
    <3>3. mtTasks' \in Seq(submitted')
      BY <3>1, <3>2, AppendProperties
    <3>4. /\ asyncTasks \in Seq(submitted') /\ mainTasks \in Seq(submitted')
          /\ tasks \in [Workers -> Seq(submitted')]
      BY <3>1
    <3> QED
      BY <2>2, <3>1, <3>3, <3>4 DEF RunInMainThread
  <2>3. CASE NotifyOne(c) \/ Send(c)
    BY <2>3 DEF NotifyOne, Send
  <2> QED
    BY <1>2, <2>1, <2>2, <2>3 DEF Client
<1>3. CASE Main
  <2>1. CASE ExecCallback \/ Prepare
    BY <2>1 DEF TakeMainTasks, ExecCallback, Prepare
  <2>2. CASE StartMainTask
    <3>1. Head(mainTasks) \in submitted /\ Tail(mainTasks) \in Seq(submitted)
      BY <2>2, HeadTailProperties DEF StartMainTask
    <3> QED
      BY <2>2, <3>1 DEF StartMainTask
  <2>3. CASE EndMainTask
    BY <2>3 DEF EndMainTask
  <2>4. CASE MainTasksDone \/ Prepared \/ Stop \/ NotifyAll \/ Joined
    BY <2>4 DEF MainGoto, MainTasksDone, Prepared, Stop, NotifyAll, Joined
  <2> QED
    BY <1>3, <2>1, <2>2, <2>3, <2>4 DEF Main, MainLoop, Destruction
<1>4. CASE UNCHANGED vars
  BY <1>4 DEF vars
<1> QED
  BY <1>1, <1>2, <1>3, <1>4 DEF Next

\* Every state accounts for its tasks.
LEMMA AccountedHolds == Spec => []Accounted
<1>1. Init => Accounted
  BY DEF Init, Accounted
<1> QED
  BY <1>1, AccountedStep, Invariance, PTL DEF Spec

\* What the main thread does to its tasks.
LEMMA MainMaps ==
  ASSUME IInv, Accounted, [Next]_vars
  PROVE  [MainFifo!Next]_(MainFifo!vars)
<1> USE DEF notWorkers, notOthers, workerVars, mainVars
<1>0. /\ mainTasks \in Seq(submitted) /\ mtTasks \in Seq(submitted)
      /\ mainTasks \o mtTasks \in Seq(submitted)
  BY ConcatProperties DEF Accounted
<1>1. CASE UNCHANGED <<mtTasks, mainTasks, mainCurrent, finished>>
  BY <1>1 DEF MainFifo!vars
<1>2. ASSUME NEW w \in Workers, EndTask(w)
      PROVE  UNCHANGED MainFifo!vars
  <2>1. current[w] \in AsyncTasks
    BY <1>2 DEF EndTask, IInv, TypeOK
  <2>2. finished' \cap MainTasks = finished \cap MainTasks
    BY <1>2, <2>1, TasksAssumption DEF EndTask
  <2> QED
    BY <1>2, <2>2 DEF EndTask, MainFifo!vars
<1>3. ASSUME NEW w \in Workers, Worker(w), ~EndTask(w)
      PROVE  UNCHANGED <<mtTasks, mainTasks, mainCurrent, finished>>
  BY <1>3 DEF Worker, Lock, CheckEmpty, SwapTasks, StartTask, TasksDone, Wait, Timeout,
     TestAndSet, ClearFlag, NotifyNext, Return
<1>4. ASSUME NEW c \in Clients, NEW t \in MainTasks, RunInMainThread(c, t)
      PROVE  MainFifo!Submit(t)
  <2>1. t \notin submitted /\ t # NoTask
    BY <1>4, TasksAssumption DEF RunInMainThread, MaySubmit
  <2>2. t \notin MainFifo!Known
    BY <1>0, <2>1 DEF MainFifo!Known, Accounted
  <2>3. mainTasks \o Append(mtTasks, t) = Append(mainTasks \o mtTasks, t)
    <3>1. mainTasks \in Seq(submitted \cup {t}) /\ mtTasks \in Seq(submitted \cup {t})
      BY <1>0
    <3> QED
      BY <3>1, AppendToConcat
  <2> QED
    BY <1>4, <2>2, <2>3 DEF RunInMainThread, MainFifo!Submit
<1>5. ASSUME NEW c \in Clients, Client(c), \A t \in MainTasks : ~RunInMainThread(c, t)
      PROVE  UNCHANGED <<mtTasks, mainTasks, mainCurrent, finished>>
  BY <1>5 DEF Client, Queue, NotifyOne, Send
<1>6. CASE ExecCallback \/ Prepare
  <2>1. /\ mainTasks = <<>> /\ mainTasks' = mtTasks /\ mtTasks' = <<>>
        /\ UNCHANGED <<mainCurrent, finished>>
    BY <1>6 DEF ExecCallback, Prepare, TakeMainTasks
  <2>2. mainTasks' \o mtTasks' = mainTasks \o mtTasks
    BY <1>0, <2>1, ConcatEmptySeq
  <2> QED
    BY <2>1, <2>2 DEF MainFifo!vars
<1>7. CASE StartMainTask
  <2>1. /\ mainTasks # <<>> /\ mainCurrent = NoTask
        /\ mainCurrent' = Head(mainTasks) /\ mainTasks' = Tail(mainTasks)
        /\ UNCHANGED <<mtTasks, finished>>
    BY <1>7 DEF StartMainTask
  <2>2. /\ mainTasks \o mtTasks # <<>> /\ Head(mainTasks \o mtTasks) = Head(mainTasks)
        /\ Tail(mainTasks \o mtTasks) = Tail(mainTasks) \o mtTasks
    BY <1>0, <2>1, HeadOfConcat
  <2>3. MainFifo!Start
    BY <2>1, <2>2 DEF MainFifo!Start
  <2> QED
    BY <2>3 DEF MainFifo!Next
<1>8. CASE EndMainTask
  <2>1. mainCurrent \in MainTasks /\ mainCurrent # NoTask
    BY <1>8 DEF EndMainTask, IInv, TypeOK
  <2>2. finished' \cap MainTasks = (finished \cap MainTasks) \cup {mainCurrent}
    BY <1>8, <2>1 DEF EndMainTask
  <2>3. MainFifo!Finish
    BY <1>8, <2>1, <2>2 DEF EndMainTask, MainFifo!Finish
  <2> QED
    BY <2>3 DEF MainFifo!Next
<1>9. CASE MainTasksDone \/ Destruction
  BY <1>1, <1>9 DEF MainTasksDone, Destruction, Prepared, Stop, NotifyAll, Joined, MainGoto
<1>10. CASE UNCHANGED vars
  BY <1>1, <1>10 DEF vars
<1>11. ASSUME NEW c \in Clients, Client(c) PROVE [MainFifo!Next]_(MainFifo!vars)
  BY <1>1, <1>4, <1>5, <1>11 DEF MainFifo!Next
<1> QED
  BY <1>1, <1>2, <1>3, <1>6, <1>7, <1>8, <1>9, <1>10, <1>11
  DEF Next, Main, MainLoop

\* What the owner of cvLock has is what the workers have.
LEMMA OwnersTasks ==
  ASSUME NEW T, NEW C, NEW s, NEW w \in Workers,
         \A v \in Workers \ {w} : T[v] = <<>> /\ C[v] = NoTask,
         <<>> \o s = s
  PROVE  /\ (IF \E v \in Workers : T[v] # <<>>
             THEN T[CHOOSE v \in Workers : T[v] # <<>>] \o s ELSE s) = T[w] \o s
         /\ (IF \E v \in Workers : C[v] # NoTask
             THEN C[CHOOSE v \in Workers : C[v] # NoTask] ELSE NoTask) = C[w]
<1>1. CASE T[w] = <<>>
  BY <1>1
<1>2. CASE T[w] # <<>>
  <2>1. (CHOOSE v \in Workers : T[v] # <<>>) = w
    BY <1>2
  <2> QED
    BY <1>2, <2>1
<1>3. CASE C[w] = NoTask
  BY <1>3
<1>4. CASE C[w] # NoTask
  <2>1. (CHOOSE v \in Workers : C[v] # NoTask) = w
    BY <1>4
  <2> QED
    BY <1>4, <2>1
<1> QED
  BY <1>1, <1>2, <1>3, <1>4

\* A step that leaves the workers' tasks alone.
LEMMA AsyncStutters ==
  ASSUME UNCHANGED <<asyncTasks, tasks, current>>,
         finished' \cap AsyncTasks = finished \cap AsyncTasks
  PROVE  UNCHANGED AsyncFifo!vars
BY DEF AsyncFifo!vars, AsyncWaiting, AsyncRunning

\* What a worker does while it owns cvLock.
LEMMA OwnerMaps ==
  ASSUME IInv, OneAtATime', Accounted, Accounted', NEW w \in Workers,
         SwapTasks(w) \/ StartTask(w) \/ EndTask(w)
  PROVE  [AsyncFifo!Next]_(AsyncFifo!vars)
<1> USE DEF notWorkers, notOthers, workerVars, mainVars
<1>1. pc[w] \in {"swap", "run"} /\ cvLock = w
  BY DEF SwapTasks, StartTask, EndTask, Goto, IInv, TypeOK, OneAtATime, Locked
<1>2. \A v \in Workers \ {w} : tasks[v] = <<>> /\ current[v] = NoTask
  BY <1>1 DEF IInv, OneAtATime, Locked
<1>3. cvLock' = w
  BY <1>1 DEF SwapTasks, StartTask, EndTask
<1>4. \A v \in Workers \ {w} : tasks'[v] = <<>> /\ current'[v] = NoTask
  BY <1>3 DEF OneAtATime, Locked
<1>5. /\ asyncTasks \in Seq(submitted) /\ tasks[w] \in Seq(submitted)
      /\ asyncTasks' \in Seq(submitted) /\ submitted' = submitted
  BY DEF Accounted, SwapTasks, StartTask, EndTask
<1>6. AsyncWaiting = tasks[w] \o asyncTasks /\ AsyncRunning = current[w]
  BY <1>2, <1>5, OwnersTasks, ConcatEmptySeq DEF AsyncWaiting, AsyncRunning
<1>7. AsyncWaiting' = tasks'[w] \o asyncTasks' /\ AsyncRunning' = current'[w]
  BY <1>4, <1>5, OwnersTasks, ConcatEmptySeq DEF AsyncWaiting, AsyncRunning
<1>8. CASE SwapTasks(w)
  <2>1. /\ tasks[w] = <<>> /\ tasks'[w] = asyncTasks /\ asyncTasks' = <<>>
        /\ UNCHANGED <<current, finished>>
    BY <1>8 DEF SwapTasks, Goto, IInv, TypeOK, OneAtATime
  <2>2. tasks'[w] \o asyncTasks' = tasks[w] \o asyncTasks
    BY <1>5, <2>1, ConcatEmptySeq
  <2> QED
    BY <1>6, <1>7, <2>1, <2>2 DEF AsyncFifo!vars
<1>9. CASE StartTask(w)
  <2>1. /\ tasks[w] # <<>> /\ current[w] = NoTask
        /\ current'[w] = Head(tasks[w]) /\ tasks'[w] = Tail(tasks[w])
        /\ UNCHANGED <<asyncTasks, finished>>
    BY <1>9 DEF StartTask, IInv, TypeOK
  <2>2. /\ tasks[w] \o asyncTasks # <<>> /\ Head(tasks[w] \o asyncTasks) = Head(tasks[w])
        /\ Tail(tasks[w] \o asyncTasks) = Tail(tasks[w]) \o asyncTasks
    BY <1>5, <2>1, HeadOfConcat
  <2>3. AsyncFifo!Start
    BY <1>6, <1>7, <2>1, <2>2 DEF AsyncFifo!Start
  <2> QED
    BY <2>3 DEF AsyncFifo!Next
<1>10. CASE EndTask(w)
  <2>1. /\ current[w] # NoTask /\ current[w] \in AsyncTasks /\ current'[w] = NoTask
        /\ UNCHANGED <<asyncTasks, tasks>>
    BY <1>10 DEF EndTask, IInv, TypeOK
  <2>2. finished' \cap AsyncTasks = (finished \cap AsyncTasks) \cup {current[w]}
    BY <1>10, <2>1 DEF EndTask
  <2>3. AsyncFifo!Finish
    BY <1>6, <1>7, <2>1, <2>2 DEF AsyncFifo!Finish
  <2> QED
    BY <2>3 DEF AsyncFifo!Next
<1> QED
  BY <1>8, <1>9, <1>10

\* queue() adds a task behind all the others.
LEMMA QueueMaps ==
  ASSUME IInv, Accounted, NEW c \in Clients, NEW t \in AsyncTasks, Queue(c, t)
  PROVE  AsyncFifo!Submit(t)
<1>1. /\ t \notin submitted /\ t # NoTask
      /\ asyncTasks' = Append(asyncTasks, t) /\ UNCHANGED <<tasks, current, finished>>
  BY TasksAssumption DEF Queue, MaySubmit, workerVars
<1>2. PICK s \in Seq(submitted) : /\ AsyncWaiting = s \o asyncTasks
                                  /\ AsyncWaiting' = s \o asyncTasks'
  <2>1. CASE \E w \in Workers : tasks[w] # <<>>
    <3> DEFINE v == CHOOSE w \in Workers : tasks[w] # <<>>
    <3>1. v \in Workers
      BY <2>1
    <3>2. tasks[v] \in Seq(submitted)
      BY <3>1 DEF Accounted
    <3>3. AsyncWaiting = tasks[v] \o asyncTasks /\ AsyncWaiting' = tasks[v] \o asyncTasks'
      BY <1>1, <2>1 DEF AsyncWaiting
    <3> QED
      BY <3>2, <3>3
  <2>2. CASE ~\E w \in Workers : tasks[w] # <<>>
    <3>1. AsyncWaiting = asyncTasks /\ AsyncWaiting' = asyncTasks'
      BY <1>1, <2>2 DEF AsyncWaiting
    <3>2. asyncTasks \in Seq(submitted \cup {t}) /\ t \in submitted \cup {t}
      BY DEF Accounted
    <3>3. asyncTasks' \in Seq(submitted \cup {t})
      BY <1>1, <3>2, AppendProperties
    <3>4. <<>> \o asyncTasks = asyncTasks /\ <<>> \o asyncTasks' = asyncTasks'
      BY <3>2, <3>3, ConcatEmptySeq
    <3>5. <<>> \in Seq(submitted)
      BY EmptySeq
    <3> QED
      BY <3>1, <3>4, <3>5
  <2> QED
    BY <2>1, <2>2
<1>3. AsyncWaiting' = Append(AsyncWaiting, t)
  <2>1. s \in Seq(submitted \cup {t}) /\ asyncTasks \in Seq(submitted \cup {t})
    BY DEF Accounted
  <2> QED
    BY <1>1, <1>2, <2>1, AppendToConcat
<1>4. AsyncRunning' = AsyncRunning
  BY <1>1 DEF AsyncRunning
<1>5. t \notin AsyncFifo!Known
  <2>1. AsyncWaiting \in Seq(submitted)
    BY <1>2, ConcatProperties DEF Accounted
  <2>2. AsyncRunning \in submitted \cup {NoTask}
    BY DEF AsyncRunning, Accounted
  <2> QED
    BY <1>1, <2>1, <2>2 DEF AsyncFifo!Known, Accounted
<1> QED
  BY <1>1, <1>3, <1>4, <1>5 DEF AsyncFifo!Submit

\* What the workers and their clients do to their tasks.
LEMMA AsyncMaps ==
  ASSUME IInv, OneAtATime', Accounted, Accounted', [Next]_vars
  PROVE  [AsyncFifo!Next]_(AsyncFifo!vars)
<1> USE DEF notWorkers, notOthers, workerVars, mainVars
<1>1. ASSUME NEW w \in Workers, Worker(w) PROVE [AsyncFifo!Next]_(AsyncFifo!vars)
  <2>1. CASE SwapTasks(w) \/ StartTask(w) \/ EndTask(w)
    BY <2>1, OwnerMaps
  <2>2. CASE ~(SwapTasks(w) \/ StartTask(w) \/ EndTask(w))
    <3>1. UNCHANGED <<asyncTasks, tasks, current, finished>>
      BY <1>1, <2>2 DEF Worker, Lock, CheckEmpty, TasksDone, Wait, Timeout, TestAndSet,
         ClearFlag, NotifyNext, Return
    <3> QED
      BY <3>1, AsyncStutters
  <2> QED
    BY <2>1, <2>2
<1>2. ASSUME NEW c \in Clients, Client(c) PROVE [AsyncFifo!Next]_(AsyncFifo!vars)
  <2>1. CASE \E t \in AsyncTasks : Queue(c, t)
    BY <2>1, QueueMaps DEF AsyncFifo!Next
  <2>2. CASE ~\E t \in AsyncTasks : Queue(c, t)
    <3>1. UNCHANGED <<asyncTasks, tasks, current, finished>>
      BY <1>2, <2>2 DEF Client, RunInMainThread, NotifyOne, Send
    <3> QED
      BY <3>1, AsyncStutters
  <2> QED
    BY <2>1, <2>2
<1>3. CASE Main
  <2>1. UNCHANGED <<asyncTasks, tasks, current>>
    BY <1>3 DEF Main, MainLoop, Destruction, ExecCallback, TakeMainTasks, StartMainTask,
       EndMainTask, MainTasksDone, Prepare, Prepared, Stop, NotifyAll, Joined
  <2>2. finished' \cap AsyncTasks = finished \cap AsyncTasks
    <3>1. CASE EndMainTask
      BY <3>1, TasksAssumption DEF EndMainTask, IInv, TypeOK
    <3>2. CASE ~EndMainTask
      BY <1>3, <3>2 DEF Main, MainLoop, Destruction, ExecCallback, TakeMainTasks,
         StartMainTask, MainTasksDone, Prepare, Prepared, Stop, NotifyAll, Joined
    <3> QED
      BY <3>1, <3>2
  <2> QED
    BY <2>1, <2>2, AsyncStutters
<1>4. CASE UNCHANGED vars
  BY <1>4, AsyncStutters DEF vars
<1> QED
  BY <1>1, <1>2, <1>3, <1>4 DEF Next

\* The workers run each queued task at most once, one by one and in the order
\* of submission, and so does the main thread, for any number of threads.
THEOREM QueuesAreFifos == Spec => ImplementsFifos
<1>1. Init => AsyncFifo!Init /\ MainFifo!Init
  <2>1. Init => AsyncWaiting = <<>> /\ AsyncRunning = NoTask
    BY DEF Init, AsyncWaiting, AsyncRunning
  <2>2. Init => mainTasks \o mtTasks = <<>>
    BY DEF Init
  <2> QED
    BY <2>1, <2>2 DEF Init, AsyncFifo!Init, MainFifo!Init
<1>2. IInv /\ Accounted /\ [Next]_vars => [MainFifo!Next]_(MainFifo!vars)
  BY MainMaps
<1>3. IInv /\ Accounted /\ IInv' /\ Accounted' /\ [Next]_vars =>
        [AsyncFifo!Next]_(AsyncFifo!vars)
  BY AsyncMaps DEF IInv
<1> QED
  BY <1>1, <1>2, <1>3, Invariance, AccountedHolds, PTL
  DEF Spec, ImplementsFifos, AsyncFifo!Spec, MainFifo!Spec

=============================================================================
