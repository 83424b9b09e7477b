--------------------------- MODULE AsyncCurlProofs ---------------------------
(***************************************************************************)
(* Which requests AsyncCurl may leave without a timer, and that it owns    *)
(* its handles, for any number of requests and connections.                *)
(***************************************************************************)
EXTENDS AsyncCurl, FiniteSetTheorems, TLAPS

\* The timer that libcurl assumes is armed, except that processCompleted stops
\* it when the last count was zero, and what runs then was made since.
ToldOfTimeouts == told = (Timed(handle) # {})

UncountedReady ==
  pc \in {"idle", "processing", "callback"} => \A r \in uncounted : handle[r] = "ready"

ZeroMeansUncounted == handleCount = 0 => Running(handle) \subseteq uncounted

InProcessing ==
  pc \in {"processing", "callback"} =>
    (told => timer.armed) /\ uncounted \subseteq CallbackRequests

InIdle ==
  pc = "idle" /\ told /\ ~timer.armed =>
    handleCount = 0 /\ uncounted \subseteq CallbackRequests

IInv ==
  /\ TypeOK
  /\ ToldOfTimeouts
  /\ UncountedReady
  /\ ZeroMeansUncounted
  /\ InProcessing
  /\ InIdle

TimerStates == {[running |-> b, armed |-> b] : b \in BOOLEAN}

-----------------------------------------------------------------------------
\* isTimerRunning tells the truth before and after startTimer and stopTimer.
LEMMA TimerCalls ==
  ASSUME NEW t \in TimerStates
  PROVE  /\ stopTimer(t) = [running |-> FALSE, armed |-> FALSE]
         /\ startTimer(t) = [running |-> TRUE, armed |-> TRUE]
         /\ [running |-> FALSE, armed |-> FALSE] \in TimerStates
         /\ [running |-> TRUE, armed |-> TRUE] \in TimerStates
<1>1. PICK b \in BOOLEAN : t = [running |-> b, armed |-> b]
  BY DEF TimerStates
<1>2. stopTimer(t) = [running |-> FALSE, armed |-> FALSE]
  BY <1>1 DEF stopTimer
<1>3. startTimer(t) = [running |-> TRUE, armed |-> TRUE]
  BY <1>2 DEF startTimer
<1> QED
  BY <1>2, <1>3 DEF TimerStates

\* isTimerRunning is right about the timer.
LEMMA TimerType ==
  timer \in TimerStates <=> /\ timer \in [running : BOOLEAN, armed : BOOLEAN]
                            /\ timer.running = timer.armed
BY DEF TimerStates

\* libcurl's request for a timer arms it, and leaves it armed if it is.
LEMMA TimerFunctionFacts ==
  ASSUME TypeOK, NEW h, TimerFunction(h)
  PROVE  /\ told' = (Timed(h) # {})
         /\ timer' \in TimerStates
         /\ told' /\ (told => timer.armed) => timer'.armed
<1>1. timer \in TimerStates /\ told \in BOOLEAN
  BY TimerType DEF TypeOK
<1>2. /\ stopTimer(timer) = [running |-> FALSE, armed |-> FALSE]
      /\ startTimer(timer) = [running |-> TRUE, armed |-> TRUE]
      /\ startTimer(timer) \in TimerStates /\ stopTimer(timer) \in TimerStates
  BY <1>1, TimerCalls
<1>3. CASE Timed(h) = {}
  BY <1>1, <1>2, <1>3 DEF TimerFunction, TimerStates
<1>4. CASE Timed(h) # {}
  <2>1. told' = TRUE /\ (timer' = startTimer(timer) \/ (told /\ timer' = timer))
    BY <1>4 DEF TimerFunction
  <2>2. CASE timer' = startTimer(timer)
    <3>1. timer' \in TimerStates
      BY <1>2, <2>2
    <3>2. timer' = [running |-> TRUE, armed |-> TRUE]
      BY <1>2, <2>2
    <3>3. timer'.armed
      BY <3>2
    <3> QED
      BY <1>4, <2>1, <3>1, <3>3
  <2>3. CASE told /\ timer' = timer
    BY <1>1, <1>4, <2>1, <2>3
  <2> QED
    BY <2>1, <2>2, <2>3
<1> QED
  BY <1>3, <1>4

\* So does its request after curl_multi_socket_action.
LEMMA TimerFunctionAnewFacts ==
  ASSUME NEW t \in TimerStates, NEW h, TimerFunctionAnew(h, t)
  PROVE  /\ told' = (Timed(h) # {})
         /\ timer' \in TimerStates
         /\ told' => timer'.armed
<1>1. startTimer(t) = [running |-> TRUE, armed |-> TRUE] /\ startTimer(t) \in TimerStates
  BY TimerCalls
<1>2. CASE Timed(h) = {}
  BY <1>1, <1>2 DEF TimerFunctionAnew
<1>3. CASE Timed(h) # {}
  BY <1>1, <1>3 DEF TimerFunctionAnew
<1> QED
  BY <1>2, <1>3

\* libcurl takes handles to other states.
LEMMA SocketActionType ==
  ASSUME TypeOK, NEW D, SocketAction(D)
  PROVE  handle' \in [Requests -> HandleStates]
<1>1. PICK f \in [D -> {"queued", "transfer", "delayed", "done"}],
           K \in SUBSET Queued(handle) :
         handle' = [r \in Requests |-> IF r \in D THEN f[r]
                                       ELSE IF r \in K THEN "ready" ELSE handle[r]]
  BY DEF SocketAction
<1> QED
  BY <1>1 DEF TypeOK, HandleStates

\* A count of zero means that nothing runs.
LEMMA CountsFacts ==
  ASSUME NEW h, Counts(h)
  PROVE  /\ handleCount' \in 0..Cardinality(Requests)
         /\ handleCount' = 0 => Running(h) = {}
         /\ uncounted' = {}
<1>1. Running(h) \subseteq Requests /\ IsFiniteSet(Requests)
  BY RequestsAssumption DEF Running
<1>2. IsFiniteSet(Running(h)) /\ Cardinality(Running(h)) <= Cardinality(Requests)
  BY <1>1, FS_Subset
<1>3. Cardinality(Running(h)) \in Nat /\ Cardinality(Requests) \in Nat
  BY <1>1, <1>2, FS_CardinalityType
<1>4. Cardinality(Running(h)) = 0 => Running(h) = {}
  BY <1>2, FS_EmptySet
<1> QED
  BY <1>2, <1>3, <1>4 DEF Counts

-----------------------------------------------------------------------------
\* The initial state satisfies the invariant.
LEMMA InitIInv == Init => IInv
<1> SUFFICES ASSUME Init PROVE IInv
  OBVIOUS
<1>1. Cardinality(Requests) \in Nat
  BY RequestsAssumption, FS_CardinalityType
<1>2. TypeOK
  <2>1. handleCount \in 0..Cardinality(Requests) /\ handle \in [Requests -> HandleStates]
    BY <1>1 DEF Init, HandleStates
  <2>2. timer \in [running : BOOLEAN, armed : BOOLEAN] /\ timer.running = timer.armed
    BY DEF Init
  <2>3. pc \in {"idle", "processing", "callback", "destroying", "destroyed"}
    BY DEF Init
  <2> QED
    BY <2>1, <2>2, <2>3 DEF Init, TypeOK
<1>3. Timed(handle) = {} /\ Running(handle) = {}
  BY DEF Init, Timed, Running
<1>4. ToldOfTimeouts /\ ZeroMeansUncounted
  BY <1>3 DEF Init, ToldOfTimeouts, ZeroMeansUncounted
<1>5. UncountedReady /\ InProcessing /\ InIdle
  BY DEF Init, UncountedReady, InProcessing, InIdle
<1> QED
  BY <1>2, <1>4, <1>5 DEF IInv

\* What both callbacks of the event loop leave behind, given what they do to
\* the timer.
LEMMA EventStep ==
  ASSUME IInv, NEW D, SocketAction(D), Counts(handle'), timer' \in TimerStates,
         told' = (Timed(handle') # {}), told' => timer'.armed,
         pc' = "processing", UNCHANGED <<pendingRequests, current>>
  PROVE  IInv'
<1>1. TypeOK'
  <2>1. handle' \in [Requests -> HandleStates]
    BY SocketActionType DEF IInv
  <2>2. handleCount' \in 0..Cardinality(Requests) /\ uncounted' = {}
    BY CountsFacts
  <2>3. told' \in BOOLEAN
    OBVIOUS
  <2>4. timer' \in [running : BOOLEAN, armed : BOOLEAN] /\ timer'.running = timer'.armed
    BY DEF TimerStates
  <2> QED
    BY <2>1, <2>2, <2>3, <2>4 DEF IInv, TypeOK
<1>2. uncounted' = {} /\ (handleCount' = 0 => Running(handle') = {})
  BY CountsFacts
<1>3. ToldOfTimeouts'
  BY DEF ToldOfTimeouts, Timed
<1>4. UncountedReady' /\ InIdle'
  BY <1>2 DEF UncountedReady, InIdle
<1>5. ZeroMeansUncounted'
  BY <1>2 DEF ZeroMeansUncounted, Running
<1>6. InProcessing'
  BY <1>2 DEF InProcessing
<1> QED
  BY <1>1, <1>3, <1>4, <1>5, <1>6 DEF IInv

\* A new request has its timer armed, or is stranded with a count of zero.
LEMMA HttpGetStep == ASSUME IInv, NEW r \in Requests, httpGet(r) PROVE IInv'
<1>1. timer \in TimerStates
  BY TimerType DEF IInv, TypeOK
<1>2. /\ told' = (Timed(handle') # {})
      /\ timer' \in TimerStates
      /\ told' => timer'.armed
  BY <1>1, TimerFunctionAnewFacts DEF httpGet
<1>3. handle' = [handle EXCEPT ![r] = "ready"] /\ handle \in [Requests -> HandleStates]
  BY DEF httpGet, IInv, TypeOK
<1>4. TypeOK'
  <2>1. handle' \in [Requests -> HandleStates]
    BY <1>3 DEF HandleStates
  <2>2. timer' \in [running : BOOLEAN, armed : BOOLEAN] /\ timer'.running = timer'.armed
    BY <1>2 DEF TimerStates
  <2>3. told' \in BOOLEAN
    BY <1>2
  <2> QED
    BY <2>1, <2>2, <2>3 DEF IInv, TypeOK, httpGet
<1>5. ToldOfTimeouts'
  BY <1>2 DEF ToldOfTimeouts, Timed
<1>6. UncountedReady'
  BY <1>3 DEF UncountedReady, httpGet, IInv
<1>7. Running(handle)' \subseteq Running(handle) \cup {r}
  BY <1>3 DEF Running
<1>8. ZeroMeansUncounted'
  BY <1>7 DEF ZeroMeansUncounted, httpGet, IInv
<1>9. InProcessing' /\ InIdle'
  BY <1>2 DEF InProcessing, InIdle, httpGet, IInv
<1> QED
  BY <1>4, <1>5, <1>6, <1>8, <1>9 DEF IInv

\* The timer's callback counts anew and arms what libcurl asks for.
LEMMA OnTimerStep == ASSUME IInv, onTimer PROVE IInv'
<1>1. timer \in TimerStates /\ timer.armed
  BY TimerType DEF IInv, TypeOK, onTimer
<1>2. stopTimer([timer EXCEPT !.armed = FALSE]) \in TimerStates
  <2>1. timer = [running |-> TRUE, armed |-> TRUE]
    BY <1>1 DEF TimerStates
  <2>2. [timer EXCEPT !.armed = FALSE].running
    BY <2>1
  <2>3. stopTimer([timer EXCEPT !.armed = FALSE]) = [running |-> FALSE, armed |-> FALSE]
    BY <2>2 DEF stopTimer
  <2> QED
    BY <2>3 DEF TimerStates
<1>3. PICK D : /\ SocketAction(D) /\ Counts(handle')
               /\ TimerFunctionAnew(handle', stopTimer([timer EXCEPT !.armed = FALSE]))
  BY DEF onTimer
<1>4. /\ told' = (Timed(handle') # {})
      /\ timer' \in TimerStates
      /\ told' => timer'.armed
  BY <1>2, <1>3, TimerFunctionAnewFacts
<1> QED
  BY <1>3, <1>4, EventStep DEF onTimer

\* A socket is watched while its transfer runs, so that not all that runs is
\* uncounted and the timer is armed if libcurl assumes so.
LEMMA OnSocketStep == ASSUME IInv, onSocket PROVE IInv'
<1>1. PICK S \in SUBSET {r \in Requests : handle[r] = "transfer"},
           D \in SUBSET Timed(handle) :
         S # {} /\ SocketAction(S \cup D) /\ TimerFunction(handle') /\ Counts(handle')
  BY DEF onSocket
<1>2. PICK r \in Requests : handle[r] = "transfer"
  BY <1>1
<1>3. r \in Running(handle) /\ r \notin uncounted
  BY <1>2 DEF Running, onSocket, IInv, UncountedReady
<1>4. told => timer.armed
  BY <1>3 DEF IInv, ZeroMeansUncounted, InIdle, onSocket
<1>5. /\ told' = (Timed(handle') # {})
      /\ timer' \in TimerStates
      /\ told' => timer'.armed
  BY <1>1, <1>4, TimerFunctionFacts DEF IInv
<1> QED
  BY <1>1, <1>5, EventStep DEF onSocket

\* Before a callback, what is reported leaves the handles.
LEMMA FinishedStep == ASSUME IInv, NEW r \in Requests, finished(r) PROVE IInv'
<1>1. handle' = [handle EXCEPT ![r] = "reported"] /\ handle \in [Requests -> HandleStates]
      /\ handle[r] = "done"
  BY DEF finished, Done, IInv, TypeOK
<1>2. TypeOK'
  <2>1. handle' \in [Requests -> HandleStates]
    BY <1>1 DEF HandleStates
  <2> QED
    BY <2>1 DEF IInv, TypeOK, finished
<1>3. Timed(handle') = Timed(handle) /\ Running(handle') = Running(handle)
  BY <1>1 DEF Timed, Running
<1>4. ToldOfTimeouts' /\ ZeroMeansUncounted'
  BY <1>3 DEF ToldOfTimeouts, ZeroMeansUncounted, Timed, Running, finished, IInv
<1>5. UncountedReady'
  BY <1>1 DEF UncountedReady, finished, IInv
<1>6. InProcessing' /\ InIdle'
  BY DEF InProcessing, InIdle, finished, IInv
<1> QED
  BY <1>2, <1>4, <1>5, <1>6 DEF IInv

\* A handle that is deleted no longer runs, and libcurl has its timer.
LEMMA DeleteFacts ==
  ASSUME IInv, NEW r \in Requests, handle' = [handle EXCEPT ![r] = "closed"],
         TimerFunction(handle'), UNCHANGED <<handleCount, uncounted>>
  PROVE  /\ handle' \in [Requests -> HandleStates]
         /\ told' \in BOOLEAN
         /\ timer' \in [running : BOOLEAN, armed : BOOLEAN] /\ timer'.running = timer'.armed
         /\ told' /\ (told => timer.armed) => timer'.armed
         /\ ToldOfTimeouts' /\ ZeroMeansUncounted'
<1>1. handle' \in [Requests -> HandleStates] /\ Running(handle') \subseteq Running(handle)
  BY DEF IInv, TypeOK, HandleStates, Running
<1>2. /\ told' = (Timed(handle') # {})
      /\ timer' \in TimerStates
      /\ told' /\ (told => timer.armed) => timer'.armed
  BY TimerFunctionFacts DEF IInv
<1>3. ToldOfTimeouts'
  BY <1>2 DEF ToldOfTimeouts, Timed
<1>4. ZeroMeansUncounted'
  BY <1>1 DEF ZeroMeansUncounted, Running, IInv
<1>5. timer' \in [running : BOOLEAN, armed : BOOLEAN] /\ timer'.running = timer'.armed
  BY <1>2 DEF TimerStates
<1> QED
  BY <1>1, <1>2, <1>3, <1>4, <1>5

\* After it, the next report or the end.
LEMMA FinishedReturnsStep ==
  ASSUME IInv, current \in Requests, handle[current] = "reported", finishedReturns
  PROVE  IInv'
<1>1. /\ handle' \in [Requests -> HandleStates]
      /\ told' \in BOOLEAN
      /\ timer' \in [running : BOOLEAN, armed : BOOLEAN] /\ timer'.running = timer'.armed
      /\ told' /\ (told => timer.armed) => timer'.armed
      /\ ToldOfTimeouts' /\ ZeroMeansUncounted'
  BY DeleteFacts DEF finishedReturns
<1>2. TypeOK'
  BY <1>1 DEF TypeOK, IInv, finishedReturns
<1>3. UncountedReady'
  BY DEF UncountedReady, finishedReturns, IInv, TypeOK
<1>4. InProcessing' /\ InIdle'
  BY <1>1 DEF InProcessing, InIdle, finishedReturns, IInv
<1> QED
  BY <1>1, <1>2, <1>3, <1>4 DEF IInv

\* An exception leaves the timer to what libcurl assumes of it.
LEMMA FinishedThrowsStep == ASSUME IInv, finishedThrows PROVE IInv'
<1>1. UNCHANGED <<pendingRequests, handleCount, timer, handle, told, uncounted>>
      /\ pc = "callback" /\ pc' = "idle" /\ current' = NoRequest
  BY DEF finishedThrows, curlVars
<1>2. TypeOK'
  BY <1>1 DEF IInv, TypeOK
<1>3. ToldOfTimeouts' /\ ZeroMeansUncounted' /\ UncountedReady'
  BY <1>1 DEF ToldOfTimeouts, ZeroMeansUncounted, UncountedReady, Timed, Running, IInv
<1>4. InProcessing' /\ InIdle'
  BY <1>1 DEF InProcessing, InIdle, IInv
<1> QED
  BY <1>2, <1>3, <1>4 DEF IInv

\* The timer is stopped by a count of zero only.
LEMMA ProcessedStep == ASSUME IInv, processed PROVE IInv'
<1>1. timer \in TimerStates
  BY TimerType DEF IInv, TypeOK
<1>2. stopTimer(timer) \in TimerStates
  BY <1>1, TimerCalls
<1>3. timer' \in TimerStates /\ (handleCount # 0 => timer' = timer)
  BY <1>1, <1>2 DEF processed, StopWhenUnused
<1>4. TypeOK'
  <2>1. timer' \in [running : BOOLEAN, armed : BOOLEAN] /\ timer'.running = timer'.armed
    BY <1>3 DEF TimerStates
  <2> QED
    BY <2>1 DEF IInv, TypeOK, processed, curlVars
<1>5. ToldOfTimeouts' /\ ZeroMeansUncounted' /\ UncountedReady'
  BY DEF ToldOfTimeouts, ZeroMeansUncounted, UncountedReady, Timed, Running,
         processed, curlVars, IInv
<1>6. InProcessing' /\ InIdle'
  BY <1>3 DEF InProcessing, InIdle, processed, curlVars, IInv
<1> QED
  BY <1>4, <1>5, <1>6 DEF IInv

\* The destruction needs no timer.
LEMMA DestroyStep ==
  ASSUME IInv, Destroy \/ Destroyed \/ \E r \in Requests : DeleteRequest(r)
  PROVE  IInv'
<1>1. CASE Destroy
  <2>1. timer \in TimerStates
    BY TimerType DEF IInv, TypeOK
  <2>2. timer' \in TimerStates
    BY <1>1, <2>1, TimerCalls DEF Destroy
  <2>3. timer' \in [running : BOOLEAN, armed : BOOLEAN] /\ timer'.running = timer'.armed
    BY <2>2 DEF TimerStates
  <2>4. TypeOK'
    BY <1>1, <2>3 DEF IInv, TypeOK, Destroy, curlVars
  <2> QED
    BY <1>1, <2>4 DEF IInv, ToldOfTimeouts, ZeroMeansUncounted, UncountedReady,
       InProcessing, InIdle, Timed, Running, Destroy, curlVars
<1>2. CASE Destroyed
  BY <1>2 DEF IInv, TypeOK, ToldOfTimeouts, ZeroMeansUncounted, UncountedReady,
     InProcessing, InIdle, Timed, Running, Destroyed, curlVars
<1>3. ASSUME NEW r \in Requests, DeleteRequest(r) PROVE IInv'
  <2>1. /\ handle' \in [Requests -> HandleStates]
        /\ told' \in BOOLEAN
        /\ timer' \in [running : BOOLEAN, armed : BOOLEAN] /\ timer'.running = timer'.armed
        /\ ToldOfTimeouts' /\ ZeroMeansUncounted'
    BY <1>3, DeleteFacts DEF DeleteRequest
  <2>2. TypeOK'
    BY <1>3, <2>1 DEF TypeOK, IInv, DeleteRequest
  <2> QED
    BY <1>3, <2>1, <2>2 DEF IInv, UncountedReady, InProcessing, InIdle, DeleteRequest
<1> QED
  BY <1>1, <1>2, <1>3

-----------------------------------------------------------------------------
\* Which request's callback runs, which is what its deletion relies on.
CurrentReported ==
  IF pc = "callback" THEN current \in Requests /\ handle[current] = "reported"
                     ELSE current = NoRequest

CInv == IInv /\ CurrentReported /\ OwnsHandles

\* The request whose callback runs was reported, and is deleted after it.
LEMMA CurrentStep ==
  ASSUME IInv, CurrentReported, OwnsHandles, [Next]_vars
  PROVE  CurrentReported' /\ OwnsHandles'
<1> USE RequestsAssumption DEF IInv, TypeOK, CurrentReported, OwnsHandles
<1>1. ASSUME NEW r \in Requests, httpGet(r) PROVE CurrentReported' /\ OwnsHandles'
  BY <1>1 DEF httpGet
<1>2. ASSUME NEW D, D \subseteq Timed(handle) \cup {r \in Requests : handle[r] = "transfer"},
             SocketAction(D), pc = "idle", pc' = "processing",
             UNCHANGED <<pendingRequests, current>>
      PROVE  CurrentReported' /\ OwnsHandles'
  <2>1. PICK f \in [D -> {"queued", "transfer", "delayed", "done"}],
             K \in SUBSET Queued(handle) :
           handle' = [r \in Requests |-> IF r \in D THEN f[r]
                                         ELSE IF r \in K THEN "ready" ELSE handle[r]]
    BY <1>2 DEF SocketAction
  <2>2. \A r \in Requests : /\ handle'[r] \in {"none", "reported", "closed"}
                                 <=> handle[r] \in {"none", "reported", "closed"}
                            /\ handle'[r] = "reported" => handle[r] = "reported"
    BY <1>2, <2>1 DEF Timed, Queued
  <2> QED
    BY <1>2, <2>2
<1>3. CASE onTimer
  <2>1. PICK D \in SUBSET Timed(handle) : SocketAction(D)
    BY <1>3 DEF onTimer
  <2> QED
    BY <1>2, <1>3, <2>1 DEF onTimer
<1>4. CASE onSocket
  <2>1. PICK S \in SUBSET {r \in Requests : handle[r] = "transfer"}, D \in SUBSET Timed(handle) :
           SocketAction(S \cup D)
    BY <1>4 DEF onSocket
  <2>2. S \cup D \subseteq Timed(handle) \cup {r \in Requests : handle[r] = "transfer"}
    OBVIOUS
  <2> QED
    BY <1>2, <1>4, <2>1, <2>2 DEF onSocket
<1>5. ASSUME NEW r \in Requests, finished(r) PROVE CurrentReported' /\ OwnsHandles'
  BY <1>5 DEF finished, Done
<1>6. CASE finishedReturns \/ finishedThrows
  BY <1>6 DEF finishedReturns, finishedThrows, curlVars
<1>7. CASE processed \/ Destroy \/ Destroyed
  BY <1>7 DEF processed, Destroy, Destroyed, curlVars
<1>8. ASSUME NEW r \in Requests, DeleteRequest(r) PROVE CurrentReported' /\ OwnsHandles'
  BY <1>8 DEF DeleteRequest
<1>9. CASE UNCHANGED vars
  BY <1>9 DEF vars, curlVars
<1> QED
  BY <1>1, <1>3, <1>4, <1>5, <1>6, <1>7, <1>8, <1>9 DEF Next

\* Every step preserves both.
LEMMA StepCInv == CInv /\ [Next]_vars => CInv'
<1> SUFFICES ASSUME CInv, [Next]_vars PROVE CInv'
  OBVIOUS
<1>1. CurrentReported' /\ OwnsHandles'
  BY CurrentStep DEF CInv
<1>2. IInv'
  <2> USE DEF CInv
  <2>1. CASE \E r \in Requests : httpGet(r) \/ finished(r)
    BY <2>1, HttpGetStep, FinishedStep
  <2>2. CASE onTimer \/ onSocket \/ processed
    BY <2>2, OnTimerStep, OnSocketStep, ProcessedStep
  <2>3. CASE finishedReturns
    BY <2>3, FinishedReturnsStep DEF CurrentReported, finishedReturns
  <2>6. CASE finishedThrows
    BY <2>6, FinishedThrowsStep
  <2>4. CASE Destroy \/ Destroyed \/ \E r \in Requests : DeleteRequest(r)
    BY <2>4, DestroyStep
  <2>5. CASE UNCHANGED vars
    BY <2>5 DEF IInv, TypeOK, ToldOfTimeouts, UncountedReady, ZeroMeansUncounted,
       InProcessing, InIdle, Timed, Running, vars, curlVars
  <2> QED
    BY <2>1, <2>2, <2>3, <2>4, <2>5, <2>6 DEF Next
<1> QED
  BY <1>1, <1>2 DEF CInv

\* The invariant holds in every state.
LEMMA Invariance == Spec => []CInv
<1>1. Init => CInv
  BY InitIInv DEF Init, CInv, CurrentReported, OwnsHandles
<1> QED
  BY <1>1, StepCInv, PTL DEF Spec

-----------------------------------------------------------------------------
\* A new request runs and is not counted; every count begins anew.
LEMMA CountsAll ==
  ASSUME IInv, NEW h, Counts(h)
  PROVE  handleCount' + Cardinality(uncounted') = Cardinality(Running(h))
<1>1. Running(h) \subseteq Requests /\ IsFiniteSet(Requests)
  BY RequestsAssumption DEF Running
<1>2. Cardinality(Running(h)) \in Nat
  BY <1>1, FS_Subset, FS_CardinalityType
<1> QED
  BY <1>2, FS_EmptySet DEF Counts

\* No step but a new request and a count touches either side.
LEMMA CountLagsStep == CInv /\ CountLags /\ [Next]_vars => CountLags'
<1> SUFFICES ASSUME CInv, CountLags, [Next]_vars PROVE CountLags'
  OBVIOUS
<1> USE DEF CInv, CountLags
<1>1. ASSUME NEW r \in Requests, httpGet(r) PROVE CountLags'
  <2>1. /\ Running(handle') = Running(handle) \cup {r} /\ r \notin Running(handle)
        /\ uncounted' = uncounted \cup {r} /\ r \notin uncounted
        /\ handleCount' = handleCount /\ pc \in {"idle", "callback"}
    BY <1>1 DEF httpGet, Running, IInv, TypeOK, UncountedReady
  <2>2. IsFiniteSet(Running(handle)) /\ IsFiniteSet(uncounted)
    BY RequestsAssumption, FS_Subset DEF Running, IInv, TypeOK
  <2>3. /\ Cardinality(Running(handle')) = Cardinality(Running(handle)) + 1
        /\ Cardinality(uncounted') = Cardinality(uncounted) + 1
    BY <2>1, <2>2, FS_AddElement
  <2>4. /\ Cardinality(Running(handle)) \in Nat /\ Cardinality(uncounted) \in Nat
        /\ handleCount \in Nat
    BY <2>2, FS_CardinalityType, RequestsAssumption DEF IInv, TypeOK
  <2> QED
    BY <2>1, <2>3, <2>4
<1>2. CASE onTimer \/ onSocket
  <2>1. Counts(handle')
    BY <1>2 DEF onTimer, onSocket
  <2> QED
    BY <2>1, CountsAll
<1>3. ASSUME NEW r \in Requests, finished(r) \/ (finishedReturns /\ r = current)
      PROVE  CountLags'
  <2>1. /\ Running(handle') = Running(handle) /\ pc \in {"processing", "callback"}
        /\ UNCHANGED <<handleCount, uncounted>>
    BY <1>3 DEF finished, finishedReturns, Done, Running, IInv, TypeOK, CurrentReported
  <2> QED
    BY <2>1
<1>4. CASE finishedReturns
  BY <1>3, <1>4 DEF finishedReturns, CurrentReported
<1>5. CASE processed \/ finishedThrows
  BY <1>5 DEF processed, finishedThrows, curlVars
<1>6. CASE Destroy \/ Destroyed \/ \E r \in Requests : DeleteRequest(r)
  BY <1>6 DEF Destroy, Destroyed, DeleteRequest
<1>7. CASE UNCHANGED vars
  BY <1>7 DEF vars, curlVars
<1> QED
  BY <1>1, <1>2, <1>3, <1>4, <1>5, <1>6, <1>7 DEF Next

-----------------------------------------------------------------------------
\* The values of the variables; isTimerRunning is right about the timer.
THEOREM TypeCorrect == Spec => []TypeOK
<1>1. CInv => TypeOK
  BY DEF CInv, IInv
<1> QED
  BY <1>1, Invariance, PTL

\* AsyncCurl owns each of libcurl's handles until its result is read, and what
\* it no longer owns then is deleted after its callback or belongs to a callback
\* that threw: of the others, the destructor deletes all, and none twice.
THEOREM HandlesOwned == Spec => []OwnsHandles
<1>1. CInv => OwnsHandles
  BY DEF CInv
<1> QED
  BY <1>1, Invariance, PTL

\* Only requests that were made by the callbacks of the last transfers can be
\* left without the timer that they wait for.
THEOREM OnlyUncounted == Spec => []OnlyUncountedStranded
<1>1. CInv => OnlyUncountedStranded
  BY DEF CInv, IInv, OnlyUncountedStranded, Stranded, ToldOfTimeouts, InIdle,
     ZeroMeansUncounted
<1> QED
  BY <1>1, Invariance, PTL

\* activeHandles() is right, but for the requests that were made since libcurl
\* was last called for an event.
THEOREM CountOnlyLags == Spec => []CountLags
<1>1. Init => CountLags
  <2>1. Init => Running(handle) = {}
    BY DEF Init, Running
  <2> QED
    BY <2>1, FS_EmptySet DEF Init, CountLags
<1> QED
  BY <1>1, Invariance, CountLagsStep, PTL DEF Spec
=============================================================================
