------------------------ MODULE AsyncPostgresProofs ------------------------
(***************************************************************************)
(* Safety of AsyncPostgres for every set of queries, every assignment of   *)
(* priorities and every bound, as long as the program and the connection   *)
(* keep to Supported.                                                      *)
(***************************************************************************)
EXTENDS AsyncPostgres, TLAPS

\* What the class copes with: no cancelling of a cancelled query, no
\* disconnection by a callback for a result or a notification, no refusal by a
\* working connection, no error report of a dying session, and no connect() or
\* reconnect() of such a callback that fails at once.
Supported ==
  /\ {"recancel", "disconnectInResult"} \cap UserOps = {}
  /\ {"sendRefused", "terminated", "startInResult"} \cap Faults = {}

-----------------------------------------------------------------------------
(* The inductive invariant *)

\* No undefined behaviour, and nothing that leads to the retry timer.
Sound ==
  /\ ub = "none" /\ pc \notin {"undefined", "retry", "closed"}
  /\ qRetryTimer = "none" /\ reconnectTimer # "lost"

\* Where a command can be in flight, and where results are delivered.
Places ==
  /\ isConnected => pSock = "open" /\ ~deaf
  /\ inflight # NoQuery => /\ isConnected /\ signals = 0
                           /\ pc \in {"idle", "done", "copied", "notified"}
  /\ pc = "copied" => inflight # NoQuery
  /\ NeedsSocket => pSock # "none" /\ ~deaf /\ signals = 0
  /\ pc = "done" => currentQuery # NoQuery /\ busy /\ ~signalled
  /\ currentQuery # NoQuery => awaitingResponse

\* Only the query whose callback runs is complete and still queued, and the
\* completions are counted right.
Completion ==
  \A q \in Queries :
    /\ isDone(q) \/ outcome[q] # "pending" => stamp[q] # 0
    /\ isDone(q) /\ q \in queue => pc = "done" /\ q = currentQuery
    /\ completions[q] = IF isDone(q) THEN 1 ELSE 0

\* Nothing that the server has been given was overtaking an older query.
Overtaken(p, q) ==
  /\ Priority[p] = Priority[q]
  /\ 0 < stamp[p] /\ stamp[p] < stamp[q]
  /\ ~isDone(p) /\ p \in queue

InOrder ==
  \A p, q \in Queries :
    outcome[q] = "answered" \/ inflight = q => ~Overtaken(p, q)

IInv == TypeOK /\ Sound /\ InflightIsCurrent /\ Places /\ Completion /\ InOrder

-----------------------------------------------------------------------------
\* The initial state satisfies the invariant.
LEMMA InitIInv == Init => IInv
<1> SUFFICES ASSUME Init PROVE IInv
  OBVIOUS
<1> USE QueriesAssumption DEF Init
<1>1. QueueOK
  BY DEF QueueOK
<1>2. FlagsOK /\ TimersOK /\ StatesOK /\ CountersOK
  BY DEF FlagsOK, TimersOK, StatesOK, CountersOK
<1>3. OwnersOK
  BY DEF OwnersOK
<1>4. Sound /\ InflightIsCurrent
  BY DEF Sound, InflightIsCurrent
<1>5. Places
  BY DEF Places, isConnected, NeedsSocket
<1>6. Completion
  BY DEF Completion, isDone
<1>7. InOrder
  BY DEF InOrder, Overtaken
<1> QED
  BY <1>1, <1>2, <1>3, <1>4, <1>5, <1>6, <1>7 DEF IInv, TypeOK

\* The counters of the bounds go up by one, if at all.
LEMMA CountersStep ==
  ASSUME CountersOK, admin' \in {admin, admin + 1}, faults' \in {faults, faults + 1},
         signals' \in Nat
  PROVE  CountersOK'
  BY DEF CountersOK

\* The disconnection callback is called, and its handle is gone.
LEMMA TellingStep ==
  ASSUME signals \in Nat, maybeSignalDisconnectionAndReconnect
  PROVE  signals' \in Nat /\ signals' # 0 /\ pSock' = "none" /\ deaf' = FALSE
  BY DEF maybeSignalDisconnectionAndReconnect

\* It returns.
LEMMA ReturnStep ==
  ASSUME signals \in Nat, signals # 0, signals' \in {0, signals - 1}
  PROVE  signals' \in Nat
  OBVIOUS

\* done() touches one query, and counts a final result once.
LEMMA DoneEffect ==
  ASSUME OwnersOK, NEW q \in Queries, NEW more \in BOOLEAN,
         NEW what \in {"answered", "dropped"}, Done(q, more, what)
  PROVE  /\ OwnersOK'
         /\ isDone(q)' <=> ~more
         /\ completions'[q] = completions[q] + (IF more THEN 0 ELSE 1)
         /\ outcome'[q] = what
         /\ \A p \in Queries \ {q} : /\ isDone(p)' <=> isDone(p)
                                     /\ completions'[p] = completions[p]
                                     /\ outcome'[p] = outcome[p]
<1> USE DEF OwnersOK, Done
<1>1. expectsResults' \in [Queries -> BOOLEAN]
  OBVIOUS
<1>2. outcome' \in [Queries -> {"pending", "answered", "dropped"}]
  OBVIOUS
<1>3. completions' \in [Queries -> Nat]
  OBVIOUS
<1>4. isDone(q)' <=> ~more
  BY DEF isDone
<1>5. completions'[q] = completions[q] + (IF more THEN 0 ELSE 1) /\ outcome'[q] = what
  OBVIOUS
<1>6. ASSUME NEW p \in Queries \ {q}
      PROVE  /\ isDone(p)' <=> isDone(p)
             /\ completions'[p] = completions[p] /\ outcome'[p] = outcome[p]
  BY DEF isDone
<1> QED
  BY <1>1, <1>2, <1>3, <1>4, <1>5, <1>6

\* query() signals only when no command is in flight, and the new query is the
\* youngest.
LEMMA QueryIInv == ASSUME IInv, NEW q \in Queries, query(q) PROVE IInv'
<1> USE QueriesAssumption, PriorityAssumption DEF IInv, TypeOK, query, UserRuns,
       AtRest, NeedsSocket, queueVars, ownVars, timerVars, sockVars, loopVars,
       libpqVars, userVars, stackVars, auxVars
<1>1. QueueOK'
  BY DEF QueueOK, FlagsOK, InflightIsCurrent, Places, Sound
<1>2. FlagsOK' /\ TimersOK'
  BY DEF FlagsOK, TimersOK, Sound
<1>3. StatesOK'
  BY DEF StatesOK
<1>4. OwnersOK'
  BY DEF OwnersOK
<1>5. Sound' /\ InflightIsCurrent'
  BY DEF QueueOK, FlagsOK, Sound, InflightIsCurrent, Places, Completion, isDone,
     isConnected, NeedsSocket
<1>6. Places'
  BY DEF QueueOK, FlagsOK, OwnersOK, Sound, InflightIsCurrent, Places, isDone,
     isConnected, NeedsSocket
<1>7. Completion'
  BY DEF QueueOK, OwnersOK, InflightIsCurrent, Places, Completion, isDone
<1>9. CountersOK'
  <2>1. admin' \in {admin, admin + 1} /\ faults' \in {faults, faults + 1}
    OBVIOUS
  <2>2. signals' \in Nat
    BY DEF CountersOK, Sound
  <2> QED
    BY <2>1, <2>2, CountersStep
<1>8. InOrder'
  BY DEF QueueOK, OwnersOK, InflightIsCurrent, Completion, InOrder, Overtaken, isDone
<1> QED
  BY <1>1, <1>2, <1>3, <1>4, <1>5, <1>6, <1>7, <1>8, <1>9 DEF IInv, TypeOK

\* cancelQuery() leaves the query alone whose result is awaited.
LEMMA CancelIInv == ASSUME IInv, NEW q \in Queries, cancelQuery(q) PROVE IInv'
<1> USE QueriesAssumption DEF IInv, TypeOK, cancelQuery, CancelIgnored, UserRuns,
       AtRest, NeedsSocket, queueVars, ownVars, timerVars, sockVars, loopVars,
       libpqVars, userVars, stackVars, auxVars
<1>0. /\ OwnersOK'
      /\ ~Held(q) => completions'[q] = completions[q] + 1 /\ isDone(q)'
      /\ outcome'[q] = outcome[q] \/ outcome'[q] = "dropped"
      /\ Held(q) => completions'[q] = completions[q] /\ (isDone(q)' <=> isDone(q))
      /\ \A p \in Queries \ {q} : /\ isDone(p)' <=> isDone(p)
                                  /\ completions'[p] = completions[p]
                                  /\ outcome'[p] = outcome[p]
  <2>1. CASE Held(q)
    BY <2>1 DEF OwnersOK, userVars, isDone
  <2>2. CASE ~Held(q)
    BY <2>2, DoneEffect
  <2> QED
    BY <2>1, <2>2
<1>1. QueueOK'
  BY DEF QueueOK, FlagsOK, InflightIsCurrent, Places, Sound
<1>2. FlagsOK' /\ TimersOK'
  BY DEF FlagsOK, TimersOK, Sound
<1>3. StatesOK'
  BY DEF StatesOK
<1>4. OwnersOK'
  BY <1>0
<1>5. Sound' /\ InflightIsCurrent'
  BY <1>0 DEF QueueOK, Sound, InflightIsCurrent, Places
<1>6. Places'
  BY <1>0 DEF QueueOK, InflightIsCurrent, Places, isConnected
<1>7. Completion'
  BY <1>0 DEF QueueOK, InflightIsCurrent, Places, Completion
<1>9. CountersOK'
  <2>1. admin' \in {admin, admin + 1} /\ faults' \in {faults, faults + 1}
    OBVIOUS
  <2>2. signals' \in Nat
    BY DEF CountersOK, Sound
  <2> QED
    BY <2>1, <2>2, CountersStep
<1>8. InOrder'
  BY <1>0 DEF QueueOK, InflightIsCurrent, InOrder, Overtaken
<1> QED
  BY <1>1, <1>2, <1>3, <1>4, <1>5, <1>6, <1>7, <1>8, <1>9 DEF IInv, TypeOK

\* setAutoReconnect() touches one flag.
LEMMA SetAutoReconnectIInv == ASSUME IInv, setAutoReconnect PROVE IInv'
<1> USE QueriesAssumption, BoundAssumption DEF IInv, TypeOK, setAutoReconnect, Admin,
       Bounded, AtRest, UserRuns, NeedsSocket, queueVars, ownVars, timerVars, sockVars,
       loopVars, libpqVars, userVars, stackVars, auxVars
<1>1. QueueOK'
  BY DEF QueueOK, FlagsOK, InflightIsCurrent, Places, Sound
<1>2. FlagsOK' /\ TimersOK'
  BY DEF FlagsOK, TimersOK, Sound
<1>3. StatesOK'
  BY DEF StatesOK
<1>4. OwnersOK'
  BY DEF OwnersOK
<1>5. Sound' /\ InflightIsCurrent'
  BY DEF QueueOK, FlagsOK, Sound, InflightIsCurrent, Places, Completion, isDone,
     isConnected, NeedsSocket
<1>6. Places'
  BY DEF QueueOK, FlagsOK, OwnersOK, Sound, InflightIsCurrent, Places, isDone,
     isConnected, NeedsSocket
<1>7. Completion'
  BY DEF QueueOK, OwnersOK, InflightIsCurrent, Places, Completion, isDone
<1>9. CountersOK'
  <2>1. admin' \in {admin, admin + 1} /\ faults' \in {faults, faults + 1}
    OBVIOUS
  <2>2. signals' \in Nat
    BY DEF CountersOK, Sound
  <2> QED
    BY <2>1, <2>2, CountersStep
<1>8. InOrder'
  BY DEF QueueOK, OwnersOK, InflightIsCurrent, Completion, InOrder, Overtaken, isDone
<1> QED
  BY <1>1, <1>2, <1>3, <1>4, <1>5, <1>6, <1>7, <1>8, <1>9 DEF IInv, TypeOK

\* lazyDisconnect() disconnects only where no command is in flight.
LEMMA LazyDisconnectIInv == ASSUME IInv, Supported, lazyDisconnect PROVE IInv'
<1> USE QueriesAssumption, BoundAssumption DEF IInv, TypeOK, Supported, lazyDisconnect, UserRuns,
       dropConnection, Admin, Bounded, AtRest, NeedsSocket, queueVars, ownVars,
       timerVars, sockVars, loopVars, libpqVars, userVars, stackVars, auxVars
<1>1. QueueOK'
  BY DEF QueueOK, FlagsOK, InflightIsCurrent, Places, Sound
<1>2. FlagsOK' /\ TimersOK'
  BY DEF FlagsOK, TimersOK, Sound
<1>3. StatesOK'
  BY DEF StatesOK
<1>4. OwnersOK'
  BY DEF OwnersOK
<1>5. Sound' /\ InflightIsCurrent'
  BY DEF QueueOK, FlagsOK, Sound, InflightIsCurrent, Places, Completion, isDone,
     isConnected, NeedsSocket
<1>6. Places'
  BY DEF QueueOK, FlagsOK, OwnersOK, Sound, InflightIsCurrent, Places, isDone,
     isConnected, NeedsSocket
<1>7. Completion'
  BY DEF QueueOK, OwnersOK, InflightIsCurrent, Places, Completion, isDone
<1>9. CountersOK'
  <2>1. admin' \in {admin, admin + 1} /\ faults' \in {faults, faults + 1}
    OBVIOUS
  <2>2. signals' \in Nat
    BY DEF CountersOK, Sound
  <2> QED
    BY <2>1, <2>2, CountersStep
<1>8. InOrder'
  BY DEF QueueOK, OwnersOK, InflightIsCurrent, Completion, InOrder, Overtaken, isDone
<1> QED
  BY <1>1, <1>2, <1>3, <1>4, <1>5, <1>6, <1>7, <1>8, <1>9 DEF IInv, TypeOK

\* disconnect() drops a command in flight.
LEMMA DisconnectIInv == ASSUME IInv, Supported, disconnect PROVE IInv'
<1> USE QueriesAssumption, BoundAssumption DEF IInv, TypeOK, disconnect, UserRuns,
       dropConnection, Supported, Admin, Bounded, AtRest, NeedsSocket, queueVars,
       ownVars, timerVars, sockVars, loopVars, libpqVars, userVars, stackVars, auxVars
<1>1. QueueOK'
  BY DEF QueueOK, FlagsOK, InflightIsCurrent, Places, Sound
<1>2. FlagsOK' /\ TimersOK'
  BY DEF FlagsOK, TimersOK, Sound
<1>3. StatesOK'
  BY DEF StatesOK
<1>4. OwnersOK'
  BY DEF OwnersOK
<1>5. Sound' /\ InflightIsCurrent'
  BY DEF QueueOK, FlagsOK, Sound, InflightIsCurrent, Places, Completion, isDone,
     isConnected, NeedsSocket
<1>6. Places'
  BY DEF QueueOK, FlagsOK, OwnersOK, Sound, InflightIsCurrent, Places, isDone,
     isConnected, NeedsSocket
<1>7. Completion'
  BY DEF QueueOK, OwnersOK, InflightIsCurrent, Places, Completion, isDone
<1>9. CountersOK'
  <2>1. admin' \in {admin, admin + 1} /\ faults' \in {faults, faults + 1}
    OBVIOUS
  <2>2. signals' \in Nat
    BY DEF CountersOK, Sound
  <2> QED
    BY <2>1, <2>2, CountersStep
<1>8. InOrder'
  BY DEF QueueOK, OwnersOK, InflightIsCurrent, Completion, InOrder, Overtaken, isDone
<1> QED
  BY <1>1, <1>2, <1>3, <1>4, <1>5, <1>6, <1>7, <1>8, <1>9 DEF IInv, TypeOK

\* connect() and its immediate failure.
LEMMA ConnectIInv == ASSUME IInv, Supported, connect PROVE IInv'
<1> USE QueriesAssumption, BoundAssumption DEF IInv, TypeOK, Supported, connect, pollConnection,
       maybeSignalDisconnectionAndReconnect, Bounded, StartFails, AtRest, UserRuns,
       NeedsSocket, queueVars, ownVars, timerVars, sockVars, loopVars, libpqVars,
       userVars, stackVars, auxVars
<1>1. QueueOK'
  BY DEF QueueOK, FlagsOK, InflightIsCurrent, Places, Sound
<1>2. FlagsOK' /\ TimersOK'
  BY DEF FlagsOK, TimersOK, Sound
<1>3. StatesOK'
  BY DEF StatesOK
<1>4. OwnersOK'
  BY DEF OwnersOK
<1>5. Sound' /\ InflightIsCurrent'
  BY DEF QueueOK, FlagsOK, Sound, InflightIsCurrent, Places, Completion, isDone,
     isConnected, NeedsSocket
<1>6. Places'
  BY DEF QueueOK, FlagsOK, OwnersOK, Sound, InflightIsCurrent, Places, isDone,
     isConnected, NeedsSocket
<1>7. Completion'
  BY DEF QueueOK, OwnersOK, InflightIsCurrent, Places, Completion, isDone
<1>9. CountersOK'
  <2>1. admin' \in {admin, admin + 1} /\ faults' \in {faults, faults + 1}
    OBVIOUS
  <2>2. signals' \in Nat
    BY DEF CountersOK, Sound
  <2> QED
    BY <2>1, <2>2, CountersStep
<1>8. InOrder'
  BY DEF QueueOK, OwnersOK, InflightIsCurrent, Completion, InOrder, Overtaken, isDone
<1> QED
  BY <1>1, <1>2, <1>3, <1>4, <1>5, <1>6, <1>7, <1>8, <1>9 DEF IInv, TypeOK

\* reconnect() and its failure.
LEMMA ReconnectIInv == ASSUME IInv, Supported, reconnect PROVE IInv'
<1> USE QueriesAssumption, BoundAssumption DEF IInv, TypeOK, Supported, reconnect, ResetStarts,
       ResetFails, pollConnection, Bounded, StartFails, NothingToReset, AtRest,
       UserRuns, NeedsSocket, queueVars, ownVars, timerVars, sockVars, loopVars,
       libpqVars, userVars, stackVars, auxVars
<1>1. QueueOK'
  BY DEF QueueOK, FlagsOK, InflightIsCurrent, Places, Sound
<1>2. FlagsOK' /\ TimersOK'
  BY DEF FlagsOK, TimersOK, Sound
<1>3. StatesOK'
  BY DEF StatesOK
<1>4. OwnersOK'
  BY DEF OwnersOK
<1>5. Sound' /\ InflightIsCurrent'
  BY DEF QueueOK, FlagsOK, Sound, InflightIsCurrent, Places, Completion, isDone,
     isConnected, NeedsSocket
<1>6. Places'
  BY DEF QueueOK, FlagsOK, OwnersOK, Sound, InflightIsCurrent, Places, isDone,
     isConnected, NeedsSocket
<1>7. Completion'
  BY DEF QueueOK, OwnersOK, InflightIsCurrent, Places, Completion, isDone
<1>9. CountersOK'
  <2>1. admin' \in {admin, admin + 1} /\ faults' \in {faults, faults + 1}
    OBVIOUS
  <2>2. signals' \in Nat
    BY DEF CountersOK, Sound
  <2> QED
    BY <2>1, <2>2, CountersStep
<1>8. InOrder'
  BY DEF QueueOK, OwnersOK, InflightIsCurrent, Completion, InOrder, Overtaken, isDone
<1> QED
  BY <1>1, <1>2, <1>3, <1>4, <1>5, <1>6, <1>7, <1>8, <1>9 DEF IInv, TypeOK

\* A failed attempt had no command in flight.
LEMMA PollingFailedIInv == ASSUME IInv, PollingFailed PROVE IInv'
<1> USE QueriesAssumption, BoundAssumption DEF IInv, TypeOK, PollingFailed,
       maybeSignalDisconnectionAndReconnect, Fault, Bounded, AtRest, UserRuns,
       NeedsSocket, queueVars, ownVars, timerVars, sockVars, loopVars, libpqVars,
       userVars, stackVars, auxVars
<1>1. QueueOK'
  BY DEF QueueOK, FlagsOK, InflightIsCurrent, Places, Sound
<1>2. FlagsOK' /\ TimersOK'
  BY DEF FlagsOK, TimersOK, Sound
<1>3. StatesOK'
  BY DEF StatesOK
<1>4. OwnersOK'
  BY DEF OwnersOK
<1>5. Sound' /\ InflightIsCurrent'
  BY DEF QueueOK, FlagsOK, Sound, InflightIsCurrent, Places, Completion, isDone,
     isConnected, NeedsSocket
<1>6. Places'
  BY DEF QueueOK, FlagsOK, OwnersOK, Sound, InflightIsCurrent, Places, isDone,
     isConnected, NeedsSocket
<1>7. Completion'
  BY DEF QueueOK, OwnersOK, InflightIsCurrent, Places, Completion, isDone
<1>9. CountersOK'
  <2>1. admin' \in {admin, admin + 1} /\ faults' \in {faults, faults + 1}
    OBVIOUS
  <2>2. signals' \in Nat
    BY DEF CountersOK, Sound
  <2> QED
    BY <2>1, <2>2, CountersStep
<1>8. InOrder'
  BY DEF QueueOK, OwnersOK, InflightIsCurrent, Completion, InOrder, Overtaken, isDone
<1> QED
  BY <1>1, <1>2, <1>3, <1>4, <1>5, <1>6, <1>7, <1>8, <1>9 DEF IInv, TypeOK

\* An attempt that succeeds.
LEMMA PollingOkIInv == ASSUME IInv, PollingOk PROVE IInv'
<1> USE QueriesAssumption DEF IInv, TypeOK, PollingOk, NoFault, AtRest, UserRuns,
       NeedsSocket, queueVars, ownVars, timerVars, sockVars, loopVars, libpqVars,
       userVars, stackVars, auxVars
<1>1. QueueOK'
  BY DEF QueueOK, FlagsOK, InflightIsCurrent, Places, Sound
<1>2. FlagsOK' /\ TimersOK'
  BY DEF FlagsOK, TimersOK, Sound
<1>3. StatesOK'
  BY DEF StatesOK
<1>4. OwnersOK'
  BY DEF OwnersOK
<1>5. Sound' /\ InflightIsCurrent'
  BY DEF QueueOK, FlagsOK, Sound, InflightIsCurrent, Places, Completion, isDone,
     isConnected, NeedsSocket
<1>6. Places'
  BY DEF QueueOK, FlagsOK, OwnersOK, Sound, InflightIsCurrent, Places, isDone,
     isConnected, NeedsSocket
<1>7. Completion'
  BY DEF QueueOK, OwnersOK, InflightIsCurrent, Places, Completion, isDone
<1>9. CountersOK'
  <2>1. admin' \in {admin, admin + 1} /\ faults' \in {faults, faults + 1}
    OBVIOUS
  <2>2. signals' \in Nat
    BY DEF CountersOK, Sound
  <2> QED
    BY <2>1, <2>2, CountersStep
<1>8. InOrder'
  BY DEF QueueOK, OwnersOK, InflightIsCurrent, Completion, InOrder, Overtaken, isDone
<1> QED
  BY <1>1, <1>2, <1>3, <1>4, <1>5, <1>6, <1>7, <1>8, <1>9 DEF IInv, TypeOK

\* The signal after connecting comes before any command is sent.
LEMMA ConnectedReturnIInv == ASSUME IInv, ConnectedReturn PROVE IInv'
<1> USE QueriesAssumption DEF IInv, TypeOK, ConnectedReturn, signalCompletion, NoFault,
       AtRest, UserRuns, NeedsSocket, queueVars, ownVars, timerVars, sockVars,
       loopVars, libpqVars, userVars, stackVars, auxVars
<1>1. QueueOK'
  BY DEF QueueOK, FlagsOK, InflightIsCurrent, Places, Sound
<1>2. FlagsOK' /\ TimersOK'
  BY DEF FlagsOK, TimersOK, Sound
<1>3. StatesOK'
  BY DEF StatesOK
<1>4. OwnersOK'
  BY DEF OwnersOK
<1>5. Sound' /\ InflightIsCurrent'
  BY DEF QueueOK, FlagsOK, Sound, InflightIsCurrent, Places, Completion, isDone,
     isConnected, NeedsSocket
<1>6. Places'
  BY DEF QueueOK, FlagsOK, OwnersOK, Sound, InflightIsCurrent, Places, isDone,
     isConnected, NeedsSocket
<1>7. Completion'
  BY DEF QueueOK, OwnersOK, InflightIsCurrent, Places, Completion, isDone
<1>9. CountersOK'
  <2>1. admin' \in {admin, admin + 1} /\ faults' \in {faults, faults + 1}
    OBVIOUS
  <2>2. signals' \in Nat
    BY DEF CountersOK, Sound
  <2> QED
    BY <2>1, <2>2, CountersStep
<1>8. InOrder'
  BY DEF QueueOK, OwnersOK, InflightIsCurrent, Completion, InOrder, Overtaken, isDone
<1> QED
  BY <1>1, <1>2, <1>3, <1>4, <1>5, <1>6, <1>7, <1>8, <1>9 DEF IInv, TypeOK

\* The end of maybeSignalDisconnectionAndReconnect.
LEMMA SignalReturnIInv == ASSUME IInv, SignalReturn PROVE IInv'
<1> USE QueriesAssumption DEF IInv, TypeOK, SignalReturn, NoFault, StartReconnectTimer,
       Undefined, AtRest, UserRuns, NeedsSocket, queueVars, ownVars, timerVars,
       sockVars, loopVars, libpqVars, userVars, stackVars, auxVars
<1>1. QueueOK'
  BY DEF QueueOK, FlagsOK, InflightIsCurrent, Places, Sound
<1>2. FlagsOK' /\ TimersOK'
  BY DEF FlagsOK, TimersOK, Sound
<1>3. StatesOK'
  BY DEF StatesOK
<1>4. OwnersOK'
  BY DEF OwnersOK
<1>5. Sound' /\ InflightIsCurrent'
  BY DEF QueueOK, FlagsOK, Sound, InflightIsCurrent, Places, Completion, isDone,
     isConnected, NeedsSocket
<1>6. Places'
  BY DEF QueueOK, FlagsOK, OwnersOK, Sound, InflightIsCurrent, Places, isDone,
     isConnected, NeedsSocket
<1>7. Completion'
  BY DEF QueueOK, OwnersOK, InflightIsCurrent, Places, Completion, isDone
<1>9. CountersOK'
  <2>1. admin' \in {admin, admin + 1} /\ faults' \in {faults, faults + 1}
    OBVIOUS
  <2>2. signals' \in Nat
    <3>1. signals \in Nat /\ signals # 0 /\ signals' \in {0, signals - 1}
      BY DEF CountersOK
    <3> QED
      BY <3>1, ReturnStep
  <2> QED
    BY <2>1, <2>2, CountersStep
<1>8. InOrder'
  BY DEF QueueOK, OwnersOK, InflightIsCurrent, Completion, InOrder, Overtaken, isDone
<1> QED
  BY <1>1, <1>2, <1>3, <1>4, <1>5, <1>6, <1>7, <1>8, <1>9 DEF IInv, TypeOK

\* The reconnect timer drops a command in flight, if there is one.
LEMMA ReconnectTimerIInv == ASSUME IInv, ReconnectTimer PROVE IInv'
<1> USE QueriesAssumption, BoundAssumption DEF IInv, TypeOK, ReconnectTimer,
       ResetStarts, ResetFails, pollConnection, NoFault, Fault, Bounded,
       NothingToReset, EndReconnectTimer, AtRest, UserRuns, NeedsSocket, queueVars,
       ownVars, timerVars, sockVars, loopVars, libpqVars, userVars, stackVars, auxVars
<1>1. QueueOK'
  BY DEF QueueOK, FlagsOK, InflightIsCurrent, Places, Sound
<1>2. FlagsOK' /\ TimersOK'
  BY DEF FlagsOK, TimersOK, Sound
<1>3. StatesOK'
  BY DEF StatesOK
<1>4. OwnersOK'
  BY DEF OwnersOK
<1>5. Sound' /\ InflightIsCurrent'
  <2>1. Sound'
    BY DEF Sound, TimersOK
  <2>2. InflightIsCurrent'
    BY DEF QueueOK, InflightIsCurrent, isDone
  <2> QED
    BY <2>1, <2>2
<1>6. Places'
  BY DEF QueueOK, FlagsOK, OwnersOK, Sound, InflightIsCurrent, Places, isDone,
     isConnected, NeedsSocket
<1>7. Completion'
  BY DEF QueueOK, OwnersOK, InflightIsCurrent, Places, Completion, isDone
<1>9. CountersOK'
  <2>1. admin' \in {admin, admin + 1} /\ faults' \in {faults, faults + 1}
    OBVIOUS
  <2>2. signals' \in Nat
    BY DEF CountersOK, Sound
  <2> QED
    BY <2>1, <2>2, CountersStep
<1>8. InOrder'
  BY DEF QueueOK, OwnersOK, InflightIsCurrent, Completion, InOrder, Overtaken, isDone
<1> QED
  BY <1>1, <1>2, <1>3, <1>4, <1>5, <1>6, <1>7, <1>8, <1>9 DEF IInv, TypeOK

\* A lost connection loses the command in flight, not its query.
LEMMA ConnectionLostIInv == ASSUME IInv, ConnectionLost PROVE IInv'
<1> USE QueriesAssumption, BoundAssumption DEF IInv, TypeOK, ConnectionLost,
       maybeSignalDisconnectionAndReconnect, NoFault, Fault, Bounded, AtRest, UserRuns,
       NeedsSocket, queueVars, ownVars, timerVars, sockVars, loopVars, libpqVars,
       userVars, stackVars, auxVars
<1>1. QueueOK'
  BY DEF QueueOK, FlagsOK, InflightIsCurrent, Places, Sound
<1>2. FlagsOK' /\ TimersOK'
  BY DEF FlagsOK, TimersOK, Sound
<1>3. StatesOK'
  BY DEF StatesOK
<1>4. OwnersOK'
  BY DEF OwnersOK
<1>5. Sound' /\ InflightIsCurrent'
  BY DEF QueueOK, FlagsOK, Sound, InflightIsCurrent, Places, Completion, isDone,
     isConnected, NeedsSocket
<1>6. Places'
  BY DEF QueueOK, FlagsOK, OwnersOK, Sound, InflightIsCurrent, Places, isDone,
     isConnected, NeedsSocket
<1>7. Completion'
  BY DEF QueueOK, OwnersOK, InflightIsCurrent, Places, Completion, isDone
<1>9. CountersOK'
  <2>1. admin' \in {admin, admin + 1} /\ faults' \in {faults, faults + 1}
    OBVIOUS
  <2>2. signals' \in Nat
    BY DEF CountersOK, Sound
  <2> QED
    BY <2>1, <2>2, CountersStep
<1>8. InOrder'
  BY DEF QueueOK, OwnersOK, InflightIsCurrent, Completion, InOrder, Overtaken, isDone
<1> QED
  BY <1>1, <1>2, <1>3, <1>4, <1>5, <1>6, <1>7, <1>8, <1>9 DEF IInv, TypeOK

\* A notification finds the socket of a working connection.
LEMMA NotifiedIInv == ASSUME IInv, Notified PROVE IInv'
<1> USE QueriesAssumption, BoundAssumption DEF IInv, TypeOK, Notified, Admin, Bounded,
       AtRest, NeedsSocket, queueVars, ownVars, timerVars, sockVars, loopVars, libpqVars,
       userVars, stackVars, auxVars
<1>1. QueueOK'
  BY DEF QueueOK, FlagsOK, InflightIsCurrent, Places, Sound
<1>2. FlagsOK' /\ TimersOK'
  BY DEF FlagsOK, TimersOK, Sound
<1>3. StatesOK'
  BY DEF StatesOK
<1>4. OwnersOK'
  BY DEF OwnersOK
<1>5. Sound' /\ InflightIsCurrent'
  BY DEF QueueOK, FlagsOK, Sound, InflightIsCurrent, Places, Completion, isDone,
     isConnected, NeedsSocket
<1>6. Places'
  BY DEF QueueOK, FlagsOK, OwnersOK, Sound, InflightIsCurrent, Places, isDone,
     isConnected, NeedsSocket
<1>7. Completion'
  BY DEF QueueOK, OwnersOK, InflightIsCurrent, Places, Completion, isDone
<1>9. CountersOK'
  <2>1. admin' \in {admin, admin + 1} /\ faults' \in {faults, faults + 1}
    OBVIOUS
  <2>2. signals' \in Nat
    BY DEF CountersOK, Sound
  <2> QED
    BY <2>1, <2>2, CountersStep
<1>8. InOrder'
  BY DEF QueueOK, OwnersOK, InflightIsCurrent, Completion, InOrder, Overtaken, isDone
<1> QED
  BY <1>1, <1>2, <1>3, <1>4, <1>5, <1>6, <1>7, <1>8, <1>9 DEF IInv, TypeOK

\* After its callback the socket is still there, or that of a new handshake.
LEMMA NotifiedReturnIInv == ASSUME IInv, NotifiedReturn PROVE IInv'
<1> USE QueriesAssumption DEF IInv, TypeOK, NotifiedReturn, EventsReturn, Undefined,
       NeedsSocket, queueVars, ownVars, timerVars, sockVars, loopVars, libpqVars, userVars,
       stackVars, auxVars
<1>1. QueueOK'
  BY DEF QueueOK, FlagsOK, InflightIsCurrent, Places, Sound
<1>2. FlagsOK' /\ TimersOK'
  BY DEF FlagsOK, TimersOK, Sound
<1>3. StatesOK'
  BY DEF StatesOK
<1>4. OwnersOK'
  BY DEF OwnersOK
<1>5. Sound' /\ InflightIsCurrent'
  BY DEF QueueOK, FlagsOK, Sound, InflightIsCurrent, Places, Completion, isDone,
     isConnected, NeedsSocket
<1>6. Places'
  BY DEF QueueOK, FlagsOK, OwnersOK, Sound, InflightIsCurrent, Places, isDone,
     isConnected, NeedsSocket
<1>7. Completion'
  BY DEF QueueOK, OwnersOK, InflightIsCurrent, Places, Completion, isDone
<1>9. CountersOK'
  <2>1. admin' \in {admin, admin + 1} /\ faults' \in {faults, faults + 1}
    OBVIOUS
  <2>2. signals' \in Nat
    BY DEF CountersOK, Sound
  <2> QED
    BY <2>1, <2>2, CountersStep
<1>8. InOrder'
  BY DEF QueueOK, OwnersOK, InflightIsCurrent, Completion, InOrder, Overtaken, isDone
<1> QED
  BY <1>1, <1>2, <1>3, <1>4, <1>5, <1>6, <1>7, <1>8, <1>9 DEF IInv, TypeOK

\* A query is sent only when none is in flight, and it is the oldest of its
\* priority.
LEMMA SendBeginIInv ==
  ASSUME IInv, AtRest, signalled, signalled' = FALSE, NEW r \in queue, SendBegin(r),
         UNCHANGED <<queueVars, autoReconnect, userVars, timerVars, stackVars>>
  PROVE  IInv'
<1> USE QueriesAssumption, PriorityAssumption DEF IInv, TypeOK, SendBegin, IsBegin,
       Precedes, NoFault, AtRest, UserRuns, NeedsSocket, queueVars, ownVars, timerVars,
       sockVars, loopVars, libpqVars, userVars, stackVars, auxVars
<1>1. QueueOK'
  BY DEF QueueOK, FlagsOK, InflightIsCurrent, Places, Sound
<1>2. FlagsOK' /\ TimersOK'
  BY DEF FlagsOK, TimersOK, Sound
<1>3. StatesOK'
  BY DEF StatesOK
<1>4. OwnersOK'
  BY DEF OwnersOK
<1>5. Sound' /\ InflightIsCurrent'
  BY DEF QueueOK, FlagsOK, Sound, InflightIsCurrent, Places, Completion, isDone,
     isConnected, NeedsSocket
<1>6. Places'
  BY DEF QueueOK, FlagsOK, OwnersOK, Sound, InflightIsCurrent, Places, isDone,
     isConnected, NeedsSocket
<1>7. Completion'
  BY DEF QueueOK, OwnersOK, InflightIsCurrent, Places, Completion, isDone
<1>9. CountersOK'
  <2>1. admin' \in {admin, admin + 1} /\ faults' \in {faults, faults + 1}
    OBVIOUS
  <2>2. signals' \in Nat
    BY DEF CountersOK, Sound
  <2> QED
    BY <2>1, <2>2, CountersStep
<1>8. InOrder'
  BY DEF QueueOK, OwnersOK, InflightIsCurrent, Completion, InOrder, Overtaken, isDone
<1> QED
  BY <1>1, <1>2, <1>3, <1>4, <1>5, <1>6, <1>7, <1>8, <1>9 DEF IInv, TypeOK

\* With nothing to send there is no command in flight either.
LEMMA NothingToSendIInv ==
  ASSUME IInv, AtRest, signalled, signalled' = FALSE, NothingToSend,
         UNCHANGED <<queueVars, autoReconnect, userVars, timerVars, stackVars>>
  PROVE  IInv'
<1> USE QueriesAssumption DEF IInv, TypeOK, NothingToSend, dropConnection, NoFault,
       AtRest, UserRuns, NeedsSocket, queueVars, ownVars, timerVars, sockVars,
       loopVars, libpqVars, userVars, stackVars, auxVars
<1>1. QueueOK'
  BY DEF QueueOK, FlagsOK, InflightIsCurrent, Places, Sound
<1>2. FlagsOK' /\ TimersOK'
  BY DEF FlagsOK, TimersOK, Sound
<1>3. StatesOK'
  BY DEF StatesOK
<1>4. OwnersOK'
  BY DEF OwnersOK
<1>5. Sound' /\ InflightIsCurrent'
  BY DEF QueueOK, FlagsOK, Sound, InflightIsCurrent, Places, Completion, isDone,
     isConnected, NeedsSocket
<1>6. Places'
  BY DEF QueueOK, FlagsOK, OwnersOK, Sound, InflightIsCurrent, Places, isDone,
     isConnected, NeedsSocket
<1>7. Completion'
  BY DEF QueueOK, OwnersOK, InflightIsCurrent, Places, Completion, isDone
<1>9. CountersOK'
  <2>1. admin' \in {admin, admin + 1} /\ faults' \in {faults, faults + 1}
    OBVIOUS
  <2>2. signals' \in Nat
    BY DEF CountersOK, Sound
  <2> QED
    BY <2>1, <2>2, CountersStep
<1>8. InOrder'
  BY DEF QueueOK, OwnersOK, InflightIsCurrent, Completion, InOrder, Overtaken, isDone
<1> QED
  BY <1>1, <1>2, <1>3, <1>4, <1>5, <1>6, <1>7, <1>8, <1>9 DEF IInv, TypeOK

\* A send that finds no connection.
LEMMA SendDisconnectedIInv ==
  ASSUME IInv, AtRest, signalled, signalled' = FALSE, SendDisconnected,
         UNCHANGED <<queueVars, autoReconnect, userVars, timerVars, pc>>
  PROVE  IInv'
<1> USE QueriesAssumption, BoundAssumption DEF IInv, TypeOK, SendDisconnected,
       maybeSignalDisconnectionAndReconnect, NoFault, Fault, Bounded, AtRest, UserRuns,
       NeedsSocket, queueVars, ownVars, timerVars, sockVars, loopVars, libpqVars,
       userVars, stackVars, auxVars
<1>1. QueueOK'
  BY DEF QueueOK, FlagsOK, InflightIsCurrent, Places, Sound
<1>2. FlagsOK' /\ TimersOK'
  BY DEF FlagsOK, TimersOK, Sound
<1>3. StatesOK'
  BY DEF StatesOK
<1>4. OwnersOK'
  BY DEF OwnersOK
<1>5. Sound' /\ InflightIsCurrent'
  BY DEF QueueOK, FlagsOK, Sound, InflightIsCurrent, Places, Completion, isDone,
     isConnected, NeedsSocket
<1>6. Places'
  BY DEF QueueOK, FlagsOK, OwnersOK, Sound, InflightIsCurrent, Places, isDone,
     isConnected, NeedsSocket
<1>7. Completion'
  BY DEF QueueOK, OwnersOK, InflightIsCurrent, Places, Completion, isDone
<1>9. CountersOK'
  <2>1. admin' \in {admin, admin + 1} /\ faults' \in {faults, faults + 1}
    OBVIOUS
  <2>2. signals' \in Nat
    BY DEF CountersOK, Sound
  <2> QED
    BY <2>1, <2>2, CountersStep
<1>8. InOrder'
  BY DEF QueueOK, OwnersOK, InflightIsCurrent, Completion, InOrder, Overtaken, isDone
<1> QED
  BY <1>1, <1>2, <1>3, <1>4, <1>5, <1>6, <1>7, <1>8, <1>9 DEF IInv, TypeOK

\* nextCommandCaller's callback is never refused: no command is in flight.
LEMMA NextCommandIInv == ASSUME IInv, Supported, NextCommand PROVE IInv'
<1> /\ AtRest /\ signalled /\ signalled' = FALSE
    /\ UNCHANGED <<queueVars, autoReconnect, userVars>>
  BY DEF NextCommand
<1>1. CASE NothingToSend /\ UNCHANGED <<timerVars, stackVars>>
  BY <1>1, NothingToSendIInv
<1>2. ASSUME NEW q \in queue, SendBegin(q), UNCHANGED <<timerVars, stackVars>>
      PROVE  IInv'
  BY <1>2, SendBeginIInv
<1>3. CASE SendDisconnected /\ UNCHANGED <<timerVars, pc>>
  BY <1>3, SendDisconnectedIInv
<1>4. ~SendRefused
  BY DEF SendRefused, Supported, IInv, InflightIsCurrent
<1> QED
  BY <1>1, <1>2, <1>3, <1>4 DEF NextCommand

\* A result goes to the query in flight, which was not complete.
LEMMA ReadableResultIInv == ASSUME IInv, Supported, ReadableResult PROVE IInv'
<1>1. PICK copying \in BOOLEAN : Answered(copying)
  BY DEF ReadableResult
<1>2. /\ currentQuery = inflight /\ inflight \in queue /\ currentQuery \in Queries
      /\ ~isDone(currentQuery) /\ isConnected /\ busy /\ ~signalled /\ awaitingResponse
      /\ pSock = "open" /\ ~deaf /\ signals = 0 /\ pc # "done"
  <2>1. inflight # NoQuery
    BY <1>1 DEF Answered
  <2>2. pc # "done"
    BY DEF ReadableResult
  <2> QED
    BY <2>1, <2>2 DEF IInv, TypeOK, InflightIsCurrent, Places, QueueOK
<1>3. /\ Done(currentQuery, copying, "answered")
      /\ pc' = "done"
      /\ inflight' = (IF copying THEN inflight ELSE NoQuery)
      /\ UNCHANGED <<conn, ub, admin, faults>>
      /\ UNCHANGED <<queueVars, ownVars, loopVars, signals>>
  BY <1>1 DEF Answered, Supported, Fault, NoFault, auxVars
<1> USE QueriesAssumption, <1>2, <1>3
    DEF IInv, TypeOK, queueVars, ownVars, loopVars, timerVars, sockVars, stackVars
<1>4. /\ OwnersOK'
      /\ isDone(currentQuery)' <=> ~copying
      /\ completions'[currentQuery] = completions[currentQuery] + (IF copying THEN 0 ELSE 1)
      /\ outcome'[currentQuery] = "answered"
      /\ \A p \in Queries \ {currentQuery} : /\ isDone(p)' <=> isDone(p)
                                             /\ completions'[p] = completions[p]
                                             /\ outcome'[p] = outcome[p]
  BY DoneEffect
<1>5. QueueOK' /\ FlagsOK' /\ TimersOK' /\ StatesOK' /\ CountersOK'
  <2>1. QueueOK' /\ FlagsOK' /\ TimersOK'
    BY DEF QueueOK, FlagsOK, TimersOK
  <2>2. StatesOK'
    BY DEF StatesOK
  <2>3. CountersOK'
    BY DEF CountersOK
  <2> QED
    BY <2>1, <2>2, <2>3
<1>6. Sound' /\ InflightIsCurrent'
  BY <1>4 DEF Sound, InflightIsCurrent, QueueOK
<1>7. Places'
  BY <1>4 DEF Places, isConnected, NeedsSocket
<1>8. Completion'
  BY <1>4 DEF Completion, QueueOK
<1>9. InOrder'
  BY <1>4 DEF InOrder, Overtaken, QueueOK
<1> QED
  BY <1>4, <1>5, <1>6, <1>7, <1>8, <1>9

\* After a result's callback, the final one removes the query and signals.
LEMMA ResultReturnIInv == ASSUME IInv, ResultReturn PROVE IInv'
<1>1. /\ pc = "done" /\ pSock # "none" /\ ~deaf /\ signals = 0
      /\ currentQuery \in Queries /\ currentQuery \in queue
      /\ inflight # NoQuery => isConnected /\ inflight = currentQuery /\ ~isDone(inflight)
  BY QueriesAssumption DEF ResultReturn, IInv, TypeOK, QueueOK, Places, NeedsSocket,
     InflightIsCurrent
<1>2. CASE FinalReturn
  <2>1. /\ queue' = queue \ {currentQuery} /\ awaitingResponse' = FALSE
        /\ currentQuery' = NoQuery /\ signalled' = TRUE /\ pc' = "idle"
        /\ deaf' \in BOOLEAN /\ (pSock = "open" => ~deaf') /\ UNCHANGED <<ub, signals>>
        /\ inflight = NoQuery
    BY <1>1, <1>2 DEF FinalReturn, EventsReturn, signalCompletion
  <2> USE QueriesAssumption, <1>1, <2>1
      DEF IInv, TypeOK, ResultReturn, timerVars, libpqVars, userVars
  <2>2. QueueOK'
    BY DEF QueueOK
  <2>3. FlagsOK' /\ TimersOK' /\ StatesOK' /\ CountersOK' /\ OwnersOK'
    <3>1. FlagsOK' /\ TimersOK' /\ OwnersOK'
      BY DEF FlagsOK, TimersOK, OwnersOK
    <3>2. StatesOK'
      BY DEF StatesOK
    <3>3. CountersOK'
      BY DEF CountersOK
    <3> QED
      BY <3>1, <3>2, <3>3
  <2>4. Sound' /\ InflightIsCurrent'
    BY DEF Sound, InflightIsCurrent
  <2>5. Places'
    BY DEF Places, isConnected, NeedsSocket
  <2>6. Completion'
    BY DEF Completion, isDone, QueueOK
  <2>7. InOrder'
    BY DEF InOrder, Overtaken, isDone, QueueOK
  <2> QED
    BY <2>2, <2>3, <2>4, <2>5, <2>6, <2>7
<1>3. CASE CopyReturn
  <2>1. /\ UNCHANGED <<ub, signals, queue, awaitingResponse, currentQuery, signalled>>
        /\ ~isDone(currentQuery)
        /\ deaf' \in BOOLEAN /\ (pSock = "open" => ~deaf')
        /\ pc' = IF inflight = NoQuery THEN "idle" ELSE "copied"
    <3>1. CASE inflight = NoQuery
      BY <1>1, <1>3, <3>1 DEF CopyReturn, EventsReturn
    <3>2. CASE inflight # NoQuery
      BY <1>1, <1>3, <3>2 DEF CopyReturn, IInv, TypeOK, FlagsOK, Places
    <3> QED
      BY <3>1, <3>2
  <2> USE QueriesAssumption, <1>1, <2>1
      DEF IInv, TypeOK, ResultReturn, timerVars, libpqVars, userVars
  <2>2. QueueOK'
    BY DEF QueueOK
  <2>3. FlagsOK' /\ TimersOK' /\ StatesOK' /\ CountersOK' /\ OwnersOK'
    <3>1. FlagsOK' /\ TimersOK' /\ OwnersOK'
      BY DEF FlagsOK, TimersOK, OwnersOK
    <3>2. StatesOK'
      BY DEF StatesOK
    <3>3. CountersOK'
      BY DEF CountersOK
    <3> QED
      BY <3>1, <3>2, <3>3
  <2>4. Sound' /\ InflightIsCurrent'
    BY DEF Sound, InflightIsCurrent, isDone
  <2>5. Places'
    BY DEF Places, isConnected, NeedsSocket, InflightIsCurrent
  <2>6. Completion'
    BY DEF Completion, isDone, QueueOK
  <2>7. InOrder'
    BY DEF InOrder, Overtaken, isDone, QueueOK
  <2> QED
    BY <2>2, <2>3, <2>4, <2>5, <2>6, <2>7
<1> QED
  BY <1>2, <1>3 DEF ResultReturn

\* These steps need what the invariant or Supported excludes.
LEMMA Excluded ==
  ASSUME IInv, Supported
  PROVE  /\ ~RetryTimer /\ ~RetryReturn /\ ~ResultForNobody
         /\ \A q \in Queries : ~cancelQueryAgain(q)
  BY QueriesAssumption
  DEF IInv, TypeOK, Sound, InflightIsCurrent, Supported, RetryTimer, RetryReturn,
      ResultForNobody, cancelQueryAgain

-----------------------------------------------------------------------------
(* Every step preserves the invariant *)

\* No step of a supported program leaves the invariant.
LEMMA NextIInv == IInv /\ Supported /\ [Next]_vars => IInv'
<1> SUFFICES ASSUME IInv, Supported, [Next]_vars PROVE IInv'
  OBVIOUS
<1>1. CASE User
  <2>1. ASSUME NEW q \in Queries, query(q) PROVE IInv'
    BY <2>1, QueryIInv
  <2>2. ASSUME NEW q \in Queries, cancelQuery(q) PROVE IInv'
    BY <2>2, CancelIInv
  <2> QED
    BY <1>1, <2>1, <2>2, Excluded, SetAutoReconnectIInv, LazyDisconnectIInv,
       DisconnectIInv,
       ConnectIInv, ReconnectIInv DEF User
<1>2. CASE Loop
  BY <1>2, Excluded, PollingOkIInv, ConnectedReturnIInv, SignalReturnIInv,
     ReconnectTimerIInv, NextCommandIInv, ReadableResultIInv, ResultReturnIInv,
     NotifiedReturnIInv DEF Loop
<1>3. CASE Network
  BY <1>3, Excluded, PollingFailedIInv, ConnectionLostIInv, NotifiedIInv DEF Network
<1>4. CASE UNCHANGED vars
  BY <1>4 DEF vars, queueVars, ownVars, timerVars, sockVars, loopVars, libpqVars, userVars,
     stackVars, auxVars, IInv, TypeOK, QueueOK, FlagsOK, TimersOK, StatesOK, CountersOK,
     OwnersOK, Sound, InflightIsCurrent, Places, Completion, InOrder, Overtaken, isDone,
     isConnected, NeedsSocket
<1> QED
  BY <1>1, <1>2, <1>3, <1>4 DEF Next

\* The invariant holds in every state.
LEMMA Invariance == ASSUME Supported PROVE Spec => []IInv
  BY InitIInv, NextIInv, PTL DEF Spec

-----------------------------------------------------------------------------
(* The theorems *)

\* The types of the variables, the total order of the queue and currentQuery
\* being an element of the queue or its end.
THEOREM TypeCorrect == ASSUME Supported PROVE Spec => []TypeOK
<1>1. IInv => TypeOK
  BY DEF IInv
<1> QED
  BY <1>1, Invariance, PTL

\* The event handlers never meet undefined behaviour: every result finds
\* currentQuery valid and the socket present.
THEOREM NoUndefinedBehaviour == ASSUME Supported PROVE Spec => []NoUB
<1>1. IInv => NoUB
  BY DEF IInv, Sound, NoUB
<1> QED
  BY <1>1, Invariance, PTL

\* A command in flight always belongs to the current query, which is queued,
\* and no second command can be started.
THEOREM InflightIsAlwaysCurrent == ASSUME Supported PROVE Spec => []InflightIsCurrent
<1>1. IInv => InflightIsCurrent
  BY DEF IInv
<1> QED
  BY <1>1, Invariance, PTL

\* A query's owner gets at most one final result.
THEOREM AtMostOneCompletion == ASSUME Supported PROVE Spec => []CompletedAtMostOnce
<1>1. IInv => CompletedAtMostOnce
  BY DEF IInv, Completion, CompletedAtMostOnce
<1> QED
  BY <1>1, Invariance, PTL

\* Queries of one priority are answered first come first served.
THEOREM AnsweredInOrder == ASSUME Supported PROVE Spec => []FifoWithinPriority
<1>1. IInv => FifoWithinPriority
  BY DEF IInv, InOrder, Overtaken, FifoWithinPriority
<1> QED
  BY <1>1, Invariance, PTL

-----------------------------------------------------------------------------
(* The refinement *)

\* The parts of the state that the phase of a query depends on.
phaseVars == <<queue, stamp, inflight, expectsResults>>

\* A step that leaves them alone is no step of the life cycle.
LEMMA PhaseStutters ==
  ASSUME UNCHANGED phaseVars
  PROVE  UNCHANGED Lifecycle!vars
BY DEF phaseVars, Lifecycle!vars, Phase, isDone

\* The phases of the invariant's states.
LEMMA PhaseOf ==
  ASSUME IInv, NEW q \in Queries
  PROVE  /\ Phase(q) = "new" <=> stamp[q] = 0
         /\ Phase(q) = "executing" <=> inflight = q
         /\ Phase(q) = "waiting" <=> q \in queue /\ inflight # q /\ ~isDone(q)
         /\ Phase(q) \in {"new", "executing", "waiting", "ended"}
<1> USE QueriesAssumption DEF IInv, TypeOK, QueueOK, InflightIsCurrent
<1>1. q \in queue \/ inflight = q => stamp[q] # 0
  OBVIOUS
<1> QED
  BY <1>1 DEF Phase

\* One query's phase changes.
LEMMA PhaseMoves ==
  ASSUME NEW q \in Queries, NEW from, NEW to, Phase(q) = from, Phase(q)' = to,
         \A p \in Queries \ {q} : Phase(p)' = Phase(p)
  PROVE  Lifecycle!Move(q, from, to)
BY DEF Lifecycle!Move

\* A command that is lost leaves its query waiting.
LEMMA LossMaps ==
  ASSUME IInv, inflight' = NoQuery, UNCHANGED <<queue, stamp, expectsResults>>
  PROVE  [Lifecycle!Next]_(Lifecycle!vars)
<1>1. CASE inflight = NoQuery
  <2>1. UNCHANGED phaseVars
    BY <1>1 DEF phaseVars
  <2> QED
    BY <2>1, PhaseStutters
<1>2. CASE inflight # NoQuery
  <2>1. inflight \in Queries /\ inflight \in queue /\ ~isDone(inflight) /\ stamp[inflight] # 0
    BY <1>2 DEF IInv, TypeOK, QueueOK, InflightIsCurrent
  <2>2. Phase(inflight) = "executing"
    BY <2>1 DEF Phase
  <2>3. ASSUME NEW q \in Queries, q = inflight PROVE Phase(q)' = "waiting"
    BY <2>1, <2>3, <1>2 DEF Phase, isDone
  <2>4. ASSUME NEW p \in Queries, p # inflight PROVE Phase(p)' = Phase(p)
    BY <2>4, QueriesAssumption DEF Phase, isDone
  <2>5. PICK q \in Queries : q = inflight
    BY <2>1
  <2>6. Lifecycle!Move(q, "executing", "waiting")
    BY <2>2, <2>3, <2>4, <2>5, PhaseMoves
  <2> QED
    BY <2>5, <2>6 DEF Lifecycle!Next, Lifecycle!LoseConnection
<1> QED
  BY <1>1, <1>2

\* query() submits.
LEMMA QueryMaps ==
  ASSUME IInv, NEW q \in Queries, query(q)
  PROVE  Lifecycle!Submit(q)
<1> USE QueriesAssumption DEF query, libpqVars, userVars
<1>1. /\ stamp[q] = 0 /\ stamp \in [Queries -> Nat] /\ submissions \in Nat
      /\ \A p \in Queries : stamp[p] <= submissions
      /\ inflight # q /\ ~isDone(q)
  BY DEF IInv, TypeOK, QueueOK, InflightIsCurrent, Completion
<1>2. stamp' = [stamp EXCEPT ![q] = submissions + 1] /\ queue' = queue \cup {q}
  OBVIOUS
<1>3. Phase(q) = "new"
  BY <1>1, PhaseOf
<1>4. Phase(q)' = "waiting"
  BY <1>1, <1>2 DEF Phase, isDone
<1>5. ASSUME NEW p \in Queries \ {q} PROVE Phase(p)' = Phase(p)
  BY <1>1, <1>2 DEF Phase, isDone
<1>6. Lifecycle!Move(q, "new", "waiting")
  BY <1>3, <1>4, <1>5, PhaseMoves
<1>7. /\ stamp' \in [Queries -> Nat]
      /\ \A p \in Queries : IF p = q THEN stamp'[p] > 0 /\ \A o \in Queries : stamp'[q] > stamp[o]
                                     ELSE stamp'[p] = stamp[p]
  BY <1>1, <1>2
<1> QED
  BY <1>6, <1>7 DEF Lifecycle!Submit

\* cancelQuery() withdraws.
LEMMA CancelMaps ==
  ASSUME IInv, NEW q \in Queries, cancelQuery(q)
  PROVE  Lifecycle!Withdraw(q)
<1>1. /\ q \in queue /\ inflight # q /\ ~isDone(q)
      /\ queue' = queue \ {q} /\ UNCHANGED <<stamp, inflight>>
      /\ stamp[q] # 0
  BY QueriesAssumption DEF cancelQuery, CancelIgnored, IInv, TypeOK, QueueOK,
     InflightIsCurrent, libpqVars
<1>2. ASSUME NEW p \in Queries \ {q} PROVE isDone(p)' <=> isDone(p)
  BY DEF cancelQuery, userVars, Done, isDone, IInv, TypeOK, OwnersOK
<1>3. Phase(q) = "waiting"
  BY <1>1 DEF Phase
<1>4. Phase(q)' = "ended"
  BY <1>1 DEF Phase
<1>5. ASSUME NEW p \in Queries \ {q} PROVE Phase(p)' = Phase(p)
  BY <1>1, <1>2, <1>5 DEF Phase
<1> QED
  BY <1>1, <1>3, <1>4, <1>5, PhaseMoves DEF Lifecycle!Withdraw

\* Sending executes the query that nothing precedes.
LEMMA SendMaps ==
  ASSUME IInv, AtRest, NEW q \in queue, SendBegin(q),
         UNCHANGED <<queue, stamp, expectsResults>>
  PROVE  Lifecycle!Execute(q)
<1>1. /\ q \in Queries /\ inflight = NoQuery /\ inflight' = q /\ stamp[q] # 0
      /\ ~isDone(q) /\ q # NoQuery
  BY QueriesAssumption DEF SendBegin, AtRest, IInv, TypeOK, QueueOK, Completion
<1>2. Lifecycle!In("executing") = {}
  BY <1>1, PhaseOf, QueriesAssumption DEF Lifecycle!In
<1>3. Phase(q) = "waiting"
  BY <1>1, PhaseOf
<1>4. Phase(q)' = "executing"
  BY <1>1 DEF Phase
<1>5. ASSUME NEW p \in Queries \ {q} PROVE Phase(p)' = Phase(p)
  BY <1>1, QueriesAssumption DEF Phase, isDone
<1>6. ASSUME NEW p \in Lifecycle!In("waiting") \ {q} PROVE Lifecycle!Before(q, p)
  <2>1. p \in Queries /\ p \in queue
    BY <1>6, PhaseOf DEF Lifecycle!In
  <2> QED
    BY <2>1, <1>6 DEF SendBegin, IsBegin, Precedes, Lifecycle!Before
<1>7. Lifecycle!Move(q, "waiting", "executing")
  BY <1>1, <1>3, <1>4, <1>5, PhaseMoves
<1> QED
  BY <1>1, <1>2, <1>6, <1>7 DEF Lifecycle!Execute

\* The signal's callback sends the next query, or finds nothing to send or no
\* connection.
LEMMA NextCommandMaps ==
  ASSUME IInv, NextCommand
  PROVE  [Lifecycle!Next]_(Lifecycle!vars)
<1>1. AtRest /\ UNCHANGED <<queue, stamp, expectsResults>>
  BY DEF NextCommand, queueVars, userVars
<1>2. CASE NothingToSend
  <2>1. inflight' = NoQuery \/ inflight' = inflight
    BY <1>2 DEF NothingToSend, dropConnection
  <2>2. inflight' = inflight => UNCHANGED phaseVars
    BY <1>1 DEF phaseVars
  <2> QED
    BY <1>1, <2>1, <2>2, LossMaps, PhaseStutters
<1>3. ASSUME NEW q \in queue, SendBegin(q)
      PROVE  [Lifecycle!Next]_(Lifecycle!vars)
  <2>1. q \in Queries
    BY DEF IInv, TypeOK, QueueOK
  <2> QED
    BY <1>1, <1>3, <2>1, SendMaps DEF Lifecycle!Next
<1>4. CASE SendDisconnected \/ SendRefused
  <2>1. UNCHANGED phaseVars
    BY <1>1, <1>4 DEF phaseVars, SendDisconnected, SendRefused
  <2> QED
    BY <2>1, PhaseStutters
<1> QED
  BY <1>2, <1>3, <1>4 DEF NextCommand

\* A final result ends the execution.
LEMMA ResultMaps ==
  ASSUME IInv, Supported, ReadableResult
  PROVE  [Lifecycle!Next]_(Lifecycle!vars)
<1>1. PICK copying \in BOOLEAN : Answered(copying)
  BY DEF ReadableResult
<1>2. PICK q \in Queries : q = inflight /\ q = currentQuery
  BY <1>1 DEF Answered, IInv, TypeOK, QueueOK, InflightIsCurrent
<1>3. /\ q \in queue /\ ~isDone(q) /\ stamp[q] # 0 /\ q # NoQuery
      /\ inflight' = (IF copying THEN inflight ELSE NoQuery)
      /\ UNCHANGED <<queue, stamp>>
      /\ expectsResults' = [expectsResults EXCEPT ![q] = copying]
      /\ expectsResults \in [Queries -> BOOLEAN]
  BY <1>1, <1>2, QueriesAssumption DEF Answered, Done, Supported, Fault, IInv, TypeOK,
     QueueOK, OwnersOK, InflightIsCurrent, queueVars
<1>4. CASE copying
  <2>1. expectsResults' = expectsResults
    BY <1>3, <1>4 DEF isDone
  <2>2. UNCHANGED phaseVars
    BY <1>3, <1>4, <2>1 DEF phaseVars
  <2> QED
    BY <2>2, PhaseStutters
<1>5. CASE ~copying
  <2>1. Phase(q) = "executing"
    BY <1>2, <1>3 DEF Phase
  <2>2. Phase(q)' = "ended"
    BY <1>2, <1>3, <1>5 DEF Phase, isDone
  <2>3. ASSUME NEW p \in Queries \ {q} PROVE Phase(p)' = Phase(p)
    BY <1>2, <1>3, <1>5, <2>3, QueriesAssumption DEF Phase, isDone
  <2>4. Lifecycle!Answer(q)
    BY <2>1, <2>2, <2>3, <1>3, PhaseMoves DEF Lifecycle!Answer
  <2> QED
    BY <2>4 DEF Lifecycle!Next
<1> QED
  BY <1>4, <1>5

\* What follows the callback of a result changes no phase: the query that it
\* erases has ended.
LEMMA ReturnMaps ==
  ASSUME IInv, ResultReturn
  PROVE  UNCHANGED Lifecycle!vars
<1>1. CASE FinalReturn
  <2>1. /\ isDone(currentQuery) /\ queue' = queue \ {currentQuery}
        /\ UNCHANGED <<stamp, inflight, expectsResults>>
    BY <1>1 DEF ResultReturn, FinalReturn, libpqVars, userVars
  <2>2. ASSUME NEW p \in Queries PROVE Phase(p)' = Phase(p)
    BY <2>1 DEF Phase, isDone
  <2> QED
    BY <2>1, <2>2 DEF Lifecycle!vars
<1>2. CASE CopyReturn
  <2>1. UNCHANGED phaseVars
    BY <1>2 DEF ResultReturn, CopyReturn, libpqVars, userVars, phaseVars
  <2> QED
    BY <2>1, PhaseStutters
<1> QED
  BY <1>1, <1>2 DEF ResultReturn

\* Every step of the client is one of the life cycle, or none.
LEMMA StepMaps ==
  ASSUME IInv, Supported, [Next]_vars
  PROVE  [Lifecycle!Next]_(Lifecycle!vars)
<1>1. CASE \/ setAutoReconnect \/ PollingOk \/ ConnectedReturn \/ SignalReturn
           \/ PollingFailed \/ Notified \/ NotifiedReturn \/ UNCHANGED vars
  <2>1. UNCHANGED phaseVars
    BY <1>1 DEF setAutoReconnect, PollingOk, ConnectedReturn, SignalReturn, PollingFailed,
       Notified, NotifiedReturn, vars, phaseVars, queueVars, libpqVars, userVars
  <2> QED
    BY <2>1, PhaseStutters
<1>2. CASE lazyDisconnect \/ disconnect \/ connect \/ reconnect \/ ReconnectTimer
           \/ ConnectionLost
  <2>1. /\ inflight' = NoQuery \/ inflight' = inflight
        /\ UNCHANGED <<queue, stamp, expectsResults>>
    BY <1>2 DEF lazyDisconnect, disconnect, connect, reconnect, ReconnectTimer,
       ConnectionLost, dropConnection, pollConnection, ResetStarts, ResetFails,
       NothingToReset, queueVars, libpqVars, userVars
  <2>2. inflight' = inflight => UNCHANGED phaseVars
    BY <2>1 DEF phaseVars
  <2> QED
    BY <2>1, <2>2, LossMaps, PhaseStutters
<1>3. CASE \E q \in Queries : query(q) \/ cancelQuery(q) \/ cancelQueryAgain(q)
  <2>1. ASSUME NEW q \in Queries PROVE ~cancelQueryAgain(q)
    BY DEF cancelQueryAgain, Supported
  <2> QED
    BY <1>3, <2>1, QueryMaps, CancelMaps DEF Lifecycle!Next
<1>4. CASE NextCommand \/ ReadableResult \/ ResultReturn
  BY <1>4, NextCommandMaps, ResultMaps, ReturnMaps
<1>5. ~RetryTimer /\ ~RetryReturn /\ ~ResultForNobody
  BY Excluded
<1> QED
  BY <1>1, <1>2, <1>3, <1>4, <1>5 DEF Next, User, Loop, Network

\* The client implements the life cycle that it promises for queries.
THEOREM RefinesLifecycle == ASSUME Supported PROVE Spec => ImplementsLifecycle
<1>1. Init => Lifecycle!Init
  BY DEF Init, Lifecycle!Init, Phase
<1>2. IInv /\ [Next]_vars => [Lifecycle!Next]_(Lifecycle!vars)
  BY StepMaps
<1> QED
  BY <1>1, <1>2, Invariance, PTL DEF Spec, ImplementsLifecycle, Lifecycle!Spec

-----------------------------------------------------------------------------
(* What holds of every program and every connection *)

\* A client that is not disconnected has something that brings it back, or has
\* lost it in one of the two ways that CutOff names.
HasWayBack ==
  /\ autoReconnect
  /\ conn # "null" => \/ pSock # "none" \/ reconnectTimer # "none"
                      \/ signals # 0 \/ pc = "undefined"
  /\ reconnectTimer \in {"none", "runs", "lost"}
  /\ signals \in Nat

\* The operations of the program keep the way back.
LEMMA UserKeepsWayBack ==
  ASSUME HasWayBack, User, "setAutoReconnect" \notin UserOps
  PROVE  HasWayBack'
<1> USE DEF HasWayBack, ownVars, timerVars, sockVars, loopVars, libpqVars, stackVars
<1>1. ASSUME NEW q \in Queries, query(q) \/ cancelQuery(q) PROVE HasWayBack'
  BY <1>1 DEF query, cancelQuery
<1>6. ASSUME NEW q \in Queries, cancelQueryAgain(q) PROVE HasWayBack'
  BY <1>6 DEF cancelQueryAgain, Undefined
<1>2. CASE lazyDisconnect \/ disconnect
  BY <1>2 DEF lazyDisconnect, disconnect, dropConnection
<1>3. CASE connect
  BY <1>3 DEF connect, pollConnection, maybeSignalDisconnectionAndReconnect
<1>4. CASE reconnect
  BY <1>4 DEF reconnect, ResetStarts, ResetFails, NothingToReset, pollConnection
<1>5. ~setAutoReconnect
  BY DEF setAutoReconnect, Admin
<1> QED
  BY <1>1, <1>2, <1>3, <1>4, <1>5, <1>6 DEF User

\* So do the callbacks of the event loop.
LEMMA LoopKeepsWayBack ==
  ASSUME HasWayBack, Loop \/ Network
  PROVE  HasWayBack'
<1> USE DEF HasWayBack, ownVars, timerVars, sockVars, loopVars, libpqVars, stackVars,
            AtRest
<1>1. CASE PollingOk \/ ConnectedReturn
  BY <1>1 DEF PollingOk, ConnectedReturn
<1>2. CASE SignalReturn
  <2>1. CASE StartReconnectTimer /\ signals' = signals - 1
    <3>1. signals' \in Nat
      BY <1>2, <2>1, ReturnStep DEF SignalReturn
    <3>2. reconnectTimer' = "runs" /\ UNCHANGED autoReconnect
      BY <1>2, <2>1 DEF SignalReturn, StartReconnectTimer
    <3> QED
      BY <3>1, <3>2
  <2>2. CASE pc' = "undefined" /\ signals' = 0 /\ UNCHANGED timerVars
    BY <1>2, <2>2 DEF SignalReturn
  <2> QED
    BY <1>2, <2>1, <2>2 DEF SignalReturn, Undefined
<1>3. CASE ReconnectTimer
  BY <1>3 DEF ReconnectTimer, ResetStarts, ResetFails, NothingToReset, pollConnection,
     EndReconnectTimer
<1>4. CASE NextCommand
  <2>1. CASE NothingToSend /\ UNCHANGED <<timerVars, stackVars>>
    BY <1>4, <2>1 DEF NextCommand, NothingToSend, dropConnection
  <2>2. ASSUME NEW q \in queue, SendBegin(q), UNCHANGED <<timerVars, stackVars>>
        PROVE  HasWayBack'
    BY <1>4, <2>2 DEF NextCommand, SendBegin
  <2>3. CASE SendDisconnected /\ UNCHANGED <<timerVars, pc>>
    BY <1>4, <2>3, TellingStep DEF NextCommand, SendDisconnected
  <2>4. CASE SendRefused /\ StartRetryTimer /\ UNCHANGED stackVars
    BY <1>4, <2>4 DEF NextCommand, SendRefused, StartRetryTimer
  <2>5. CASE SendRefused /\ Undefined("stale token") /\ UNCHANGED timerVars
    BY <1>4, <2>5 DEF NextCommand, SendRefused, Undefined
  <2> QED
    BY <1>4, <2>1, <2>2, <2>3, <2>4, <2>5 DEF NextCommand
<1>5. CASE RetryTimer
  <2>1. CASE NothingToSend /\ UNCHANGED signals
    BY <1>5, <2>1 DEF RetryTimer, NothingToSend, dropConnection
  <2>2. ASSUME NEW q \in queue, SendBegin(q), UNCHANGED signals PROVE HasWayBack'
    BY <1>5, <2>2 DEF RetryTimer, SendBegin
  <2>3. CASE SendDisconnected
    BY <1>5, <2>3, TellingStep DEF RetryTimer, SendDisconnected
  <2>4. CASE SendRefused /\ Undefined("timer destroyed in its callback")
    BY <1>5, <2>4 DEF RetryTimer, SendRefused, Undefined
  <2> QED
    BY <1>5, <2>1, <2>2, <2>3, <2>4 DEF RetryTimer
<1>6. CASE RetryReturn
  BY <1>6 DEF RetryReturn, EndRetryTimer
<1>7. CASE ReadableResult
  BY <1>7 DEF ReadableResult, Answered
<1>8. CASE ResultReturn \/ NotifiedReturn
  <2>1. /\ UNCHANGED <<autoReconnect, conn, pSock, reconnectTimer>>
        /\ UNCHANGED signals \/ (pc' = "undefined" /\ signals' = 0)
        /\ signals = 0 /\ pc # "undefined"
    BY <1>8 DEF ResultReturn, FinalReturn, CopyReturn, NotifiedReturn, EventsReturn,
       Undefined
  <2> QED
    BY <2>1
<1>9. CASE PollingFailed \/ ConnectionLost \/ Notified
  BY <1>9, TellingStep DEF PollingFailed, ConnectionLost, Notified
<1>10. CASE ResultForNobody
  BY <1>10 DEF ResultForNobody, Undefined
<1> QED
  BY <1>1, <1>2, <1>3, <1>4, <1>5, <1>6, <1>7, <1>8, <1>9, <1>10 DEF Loop, Network

\* A client whose program leaves autoReconnect on and that lost or missed its
\* connection has a poll handle or a timer, except in the two ways in which it
\* is cut off: its reconnect timer was taken along by the retry timer, or its
\* handle hears of nothing and no timer runs.
THEOREM ClientIsNeverStranded ==
  ASSUME "setAutoReconnect" \notin UserOps
  PROVE  Spec => []NeverStranded
<1>1. Init => HasWayBack
  BY DEF Init, HasWayBack
<1>2. HasWayBack /\ [Next]_vars => HasWayBack'
  <2>1. HasWayBack /\ UNCHANGED vars => HasWayBack'
    BY DEF HasWayBack, vars, ownVars, timerVars, sockVars, loopVars, libpqVars, stackVars
  <2> QED
    BY <2>1, UserKeepsWayBack, LoopKeepsWayBack DEF Next
<1>3. HasWayBack => NeverStranded
  BY DEF HasWayBack, NeverStranded, CutOff
<1> QED
  BY <1>1, <1>2, <1>3, PTL DEF Spec

\* A connected client that processes a query, or has one to process, has its
\* next step scheduled; a result that announces more is of a command in flight;
\* the disconnection callback runs without a connection.
NextIsScheduled ==
  /\ queue \subseteq Queries
  /\ currentQuery \in Queries \cup {NoQuery}
  /\ expectsResults \in [Queries -> BOOLEAN]
  /\ signals \in Nat
  /\ signals # 0 => ~isConnected
  /\ pc = "done" => currentQuery \in Queries
  /\ pc = "done" /\ isConnected /\ ~isDone(currentQuery) => inflight # NoQuery
  /\ pc \in {"idle", "notified", "retry", "closed"} /\ isConnected /\ (busy \/ queue # {}) =>
       \/ signalled \/ inflight # NoQuery
       \/ qRetryTimer = "runs" /\ pc \in {"idle", "notified"}

\* The operations of the program keep the next step scheduled.
LEMMA UserKeepsSchedule ==
  ASSUME NextIsScheduled, User
  PROVE  NextIsScheduled'
<1> USE DEF NextIsScheduled, isConnected, isDone, queueVars, ownVars, timerVars, sockVars,
            loopVars, libpqVars, userVars, stackVars, UserRuns
<1>1. ASSUME NEW q \in Queries, query(q) PROVE NextIsScheduled'
  BY <1>1 DEF query
<1>2. ASSUME NEW q \in Queries, cancelQuery(q) PROVE NextIsScheduled'
  <2>1. expectsResults' = expectsResults \/ expectsResults' = [expectsResults EXCEPT ![q] = FALSE]
    BY <1>2 DEF cancelQuery, Done
  <2>2. ASSUME pc = "done" PROVE ~isDone(currentQuery)' => ~isDone(currentQuery)
    <3>1. currentQuery' = currentQuery
      BY <1>2 DEF cancelQuery
    <3>2. CASE currentQuery = q
      BY <2>1, <3>1, <3>2
    <3>3. CASE currentQuery # q
      BY <2>1, <2>2, <3>1, <3>3
    <3> QED
      BY <3>2, <3>3
  <2>3. expectsResults' \in [Queries -> BOOLEAN]
    BY <2>1
  <2>4. /\ queue' \subseteq queue
        /\ UNCHANGED <<busy, currentQuery, signalled, qRetryTimer, conn, inflight, pc, signals>>
    BY <1>2 DEF cancelQuery
  <2> QED
    BY <2>2, <2>3, <2>4
<1>3. ASSUME NEW q \in Queries, cancelQueryAgain(q) PROVE NextIsScheduled'
  BY <1>3 DEF cancelQueryAgain, Undefined
<1>4. CASE lazyDisconnect \/ disconnect
  BY <1>4 DEF lazyDisconnect, disconnect, dropConnection
<1>5. CASE connect
  BY <1>5 DEF connect, pollConnection, maybeSignalDisconnectionAndReconnect
<1>6. CASE reconnect
  BY <1>6 DEF reconnect, ResetStarts, ResetFails, NothingToReset, pollConnection
<1>7. CASE setAutoReconnect
  BY <1>7 DEF setAutoReconnect
<1> QED
  BY <1>1, <1>2, <1>3, <1>4, <1>5, <1>6, <1>7 DEF User

\* So do the callbacks of the event loop.
LEMMA LoopKeepsSchedule ==
  ASSUME NextIsScheduled, Loop \/ Network
  PROVE  NextIsScheduled'
<1> USE QueriesAssumption
    DEF NextIsScheduled, isConnected, isDone, queueVars, ownVars, timerVars, sockVars,
        loopVars, libpqVars, userVars, stackVars,
        maybeSignalDisconnectionAndReconnect, Undefined, AtRest
<1>1. CASE PollingOk \/ ConnectedReturn
  BY <1>1 DEF PollingOk, ConnectedReturn, signalCompletion
<1>2. CASE SignalReturn
  <2>1. CASE pc' = "undefined" /\ signals' = 0
    BY <1>2, <2>1 DEF SignalReturn
  <2>2. CASE UNCHANGED pc /\ signals' = signals - 1
    <3>1. signals' \in Nat /\ ~isConnected
      BY <1>2, <2>2, ReturnStep DEF SignalReturn
    <3> QED
      BY <1>2, <2>2, <3>1 DEF SignalReturn
  <2> QED
    BY <1>2, <2>1, <2>2 DEF SignalReturn
<1>3. CASE ReconnectTimer
  BY <1>3 DEF ReconnectTimer, ResetStarts, ResetFails, NothingToReset, pollConnection,
     EndReconnectTimer
<1>4. CASE NextCommand
  <2>1. CASE NothingToSend /\ UNCHANGED <<timerVars, stackVars>>
    BY <1>4, <2>1 DEF NextCommand, NothingToSend, dropConnection
  <2>2. ASSUME NEW q \in queue, SendBegin(q), UNCHANGED <<timerVars, stackVars>>
        PROVE  NextIsScheduled'
    BY <1>4, <2>2 DEF NextCommand, SendBegin, IsBegin
  <2>3. CASE SendDisconnected /\ UNCHANGED <<timerVars, pc>>
    BY <1>4, <2>3 DEF NextCommand, SendDisconnected
  <2>4. CASE SendRefused /\ StartRetryTimer /\ UNCHANGED stackVars
    BY <1>4, <2>4 DEF NextCommand, SendRefused, StartRetryTimer
  <2>5. CASE SendRefused /\ Undefined("stale token") /\ UNCHANGED timerVars
    BY <1>4, <2>5 DEF NextCommand, SendRefused
  <2> QED
    BY <1>4, <2>1, <2>2, <2>3, <2>4, <2>5 DEF NextCommand
<1>5. CASE RetryTimer
  <2>1. CASE NothingToSend /\ UNCHANGED signals
    BY <1>5, <2>1 DEF RetryTimer, NothingToSend, dropConnection
  <2>2. ASSUME NEW q \in queue, SendBegin(q), UNCHANGED signals PROVE NextIsScheduled'
    BY <1>5, <2>2 DEF RetryTimer, SendBegin, IsBegin
  <2>3. CASE SendDisconnected
    BY <1>5, <2>3 DEF RetryTimer, SendDisconnected
  <2>4. CASE SendRefused /\ Undefined("timer destroyed in its callback")
    BY <1>5, <2>4 DEF RetryTimer, SendRefused
  <2> QED
    BY <1>5, <2>1, <2>2, <2>3, <2>4 DEF RetryTimer
<1>6. CASE RetryReturn
  BY <1>6 DEF RetryReturn
<1>7. CASE ReadableResult
  <2>1. PICK copying \in BOOLEAN : Answered(copying)
    BY <1>7 DEF ReadableResult
  <2>2. pc' = "done" /\ currentQuery \in Queries /\ UNCHANGED <<queue, currentQuery, signals>>
    BY <2>1 DEF Answered
  <2>3. expectsResults' = [expectsResults EXCEPT ![currentQuery] = copying]
    BY <2>1 DEF Answered, Done
  <2>4. copying => inflight' # NoQuery
    BY <2>1 DEF Answered
  <2> QED
    BY <2>1, <2>2, <2>3, <2>4 DEF Answered
<1>8. CASE ResultReturn
  BY <1>8 DEF ResultReturn, FinalReturn, CopyReturn, EventsReturn, signalCompletion
<1>9. CASE NotifiedReturn
  BY <1>9 DEF NotifiedReturn, EventsReturn
<1>10. CASE PollingFailed \/ ConnectionLost
  BY <1>10 DEF PollingFailed, ConnectionLost
<1>12. CASE ResultForNobody
  BY <1>12 DEF ResultForNobody
<1>11. CASE Notified
  BY <1>11 DEF Notified
<1> QED
  BY <1>1, <1>2, <1>3, <1>4, <1>5, <1>6, <1>7, <1>8, <1>9, <1>10, <1>11, <1>12
  DEF Loop, Network

\* The next step stays scheduled.
LEMMA ScheduleHolds == Spec => []NextIsScheduled
<1>1. Init => NextIsScheduled
  BY DEF Init, NextIsScheduled, isConnected, isDone
<1>2. NextIsScheduled /\ [Next]_vars => NextIsScheduled'
  <2>1. NextIsScheduled /\ UNCHANGED vars => NextIsScheduled'
    BY DEF NextIsScheduled, isConnected, isDone, vars, queueVars, ownVars, timerVars,
       sockVars, loopVars, libpqVars, userVars, stackVars
  <2> QED
    BY <2>1, UserKeepsSchedule, LoopKeepsSchedule DEF Next
<1> QED
  BY <1>1, <1>2, PTL DEF Spec

\* No connected client rests with queries in its queue, whatever fails and
\* whatever the program calls.
THEOREM QueueNeverStalls == Spec => []NoStall
<1>1. NextIsScheduled => NoStall
  BY DEF NextIsScheduled, NoStall, AtRest
<1> QED
  BY <1>1, ScheduleHolds, PTL

Counted == admin \in Nat

\* The bound's counter is a number, whatever fails.
LEMMA AdminIsNat == Spec => []Counted
<1>1. Init => Counted
  BY DEF Init, Counted
<1>2. ASSUME User PROVE admin' \in {admin, admin + 1}
  BY <1>2 DEF User, query, cancelQuery, cancelQueryAgain, setAutoReconnect,
     lazyDisconnect, disconnect, connect, reconnect, Admin, Bounded, auxVars
<1>3. ASSUME Loop PROVE admin' = admin
  BY <1>3 DEF Loop, PollingOk, ConnectedReturn, SignalReturn, ReconnectTimer,
     NextCommand, RetryTimer, RetryReturn, ReadableResult, Answered, ResultReturn,
     NotifiedReturn, NothingToSend, SendBegin, SendDisconnected, SendRefused, Fault,
     NoFault, auxVars
<1>4. ASSUME Network PROVE admin' \in {admin, admin + 1}
  BY <1>4 DEF Network, PollingFailed, ConnectionLost, Notified, ResultForNobody, Fault,
     Admin, Bounded, NoFault, auxVars
<1>5. Counted /\ [Next]_vars => Counted'
  <2>1. UNCHANGED vars => admin' = admin
    BY DEF vars, auxVars
  <2> QED
    BY <1>2, <1>3, <1>4, <2>1 DEF Next, Counted
<1> QED
  BY <1>1, <1>5, PTL DEF Spec

\* The program brings timer and connection together by an operation that is
\* counted, or not at all.
LEMMA UserMeetings ==
  ASSUME admin \in Nat, User, TimerMeetsConnection', ~TimerMeetsConnection
  PROVE  admin' # admin
<1> USE DEF TimerMeetsConnection, isConnected, queueVars, ownVars, timerVars, sockVars,
            loopVars, libpqVars
<1>1. ASSUME NEW q \in Queries PROVE ~(query(q) \/ cancelQuery(q) \/ cancelQueryAgain(q))
  BY DEF query, cancelQuery, cancelQueryAgain
<1>2. ~(setAutoReconnect \/ lazyDisconnect \/ disconnect)
  BY DEF setAutoReconnect, lazyDisconnect, disconnect, dropConnection
<1>3. connect => admin' # admin
  BY DEF connect, Bounded
<1>4. reconnect => admin' # admin
  BY DEF reconnect, Bounded
<1> QED
  BY <1>1, <1>2, <1>3, <1>4 DEF User

\* Of the loop's callbacks, only the one does that starts the timer after the
\* program has connected inside the disconnection callback.
LEMMA LoopMeetings ==
  ASSUME NextIsScheduled, Loop \/ Network, TimerMeetsConnection', ~TimerMeetsConnection
  PROVE  signals # 0 /\ pSock # "none"
<1> USE DEF TimerMeetsConnection, isConnected, queueVars, ownVars, timerVars, sockVars,
            loopVars, libpqVars, maybeSignalDisconnectionAndReconnect, Undefined
<1>1. CASE PollingOk
  BY <1>1 DEF PollingOk
<1>2. CASE ConnectedReturn \/ ReadableResult \/ ResultReturn \/ NotifiedReturn
  BY <1>2 DEF ConnectedReturn, ReadableResult, Answered, ResultReturn, NotifiedReturn
<1>3. CASE SignalReturn
  BY <1>3 DEF SignalReturn, NextIsScheduled
<1>4. CASE ReconnectTimer
  BY <1>4 DEF ReconnectTimer, ResetStarts, ResetFails, NothingToReset, EndReconnectTimer
<1>5. CASE NextCommand \/ RetryTimer
  BY <1>5 DEF NextCommand, RetryTimer, NothingToSend, SendBegin, SendDisconnected,
     SendRefused, StartRetryTimer, dropConnection
<1>6. CASE RetryReturn
  BY <1>6 DEF RetryReturn, EndRetryTimer
<1>7. CASE Network
  BY <1>7 DEF Network, PollingFailed, ConnectionLost, Notified, ResultForNobody
<1> QED
  BY <1>1, <1>2, <1>3, <1>4, <1>5, <1>6, <1>7 DEF Loop

\* The client on its own never lets the reconnect timer run against a
\* connection that works or is attempted.
THEOREM TimerMeetsNoConnection == Spec => TimerOnlyWhenDown
<1>1. ASSUME Counted, NextIsScheduled, [Next]_vars
      PROVE  [TimerMeetsConnection' /\ ~TimerMeetsConnection =>
                admin' # admin \/ (signals # 0 /\ pSock # "none")]_vars
  BY <1>1, UserMeetings, LoopMeetings DEF Next, Counted
<1> QED
  BY <1>1, AdminIsNat, ScheduleHolds, PTL DEF Spec, TimerOnlyWhenDown

=============================================================================
