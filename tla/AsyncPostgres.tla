--------------------------- MODULE AsyncPostgres ---------------------------
(***************************************************************************)
(* The asynchronous PostgreSQL client (AsyncPostgres.hpp, .cpp, .tpp): a   *)
(* priority queue of queries, sent one at a time over one libpq connection *)
(* by the callbacks of a single-threaded event loop.                       *)
(*                                                                         *)
(* Each event-loop callback is one action, except that it is split where   *)
(* it calls user code that may call back into the class: pc names the      *)
(* callback whose handler has not ended, signals counts the calls of       *)
(* connChangeFunc for a lost or missed connection that have not returned,  *)
(* and the *Return actions are what follows them.  The operations of the   *)
(* user below are possible at top level and in all of those callbacks.     *)
(*                                                                         *)
(* libpq, the loop and its poll handles are external and are modelled by   *)
(* what this class relies on.  The class's two timers stand in the vector  *)
(* of TimedCallbacks: one that ends itself takes along the one behind it   *)
(* (TimedCallbacks.tla), which leaves a token without a timer.  Timers of  *)
(* other objects in that vector are not modelled here.                     *)
(*                                                                         *)
(* Undefined behaviour that the class would run into is recorded in ub,    *)
(* and nothing more is specified after it.                                 *)
(***************************************************************************)
EXTENDS Naturals, FiniteSets

CONSTANTS
  Queries,    \* the Query objects the program creates, each queued once
  Priority,   \* their priorities, a function from Queries to integers
  Awaited,    \* those whose only other owner is a coroutine in co_await
  CopyIn,     \* those that are COPY commands (PGRES_COPY_IN/OUT results)
  NoQuery,    \* queries.end(), and no command on the wire
  UserOps,    \* the operations the program uses beside query()
  Faults,     \* the ways in which libpq and the network fail
  MaxAdmin,   \* bound on connect, disconnect and similar operations
  MaxFaults   \* bound on the number of faults

AllOps == {"cancel", "recancel", "lazyDisconnect", "disconnect", "disconnectInResult",
           "connectAgain", "connectInResult", "reconnect", "setAutoReconnect", "notify"}

AllFaults == {"connectStart", "resetStart", "startInResult", "polling", "lost", "sendLost",
              "sendRefused", "terminated"}

ASSUME QueriesAssumption  == /\ NoQuery \notin Queries
                             /\ Awaited \subseteq Queries
                             /\ CopyIn \subseteq Queries
ASSUME PriorityAssumption == Priority \in [Queries -> Nat]
ASSUME UseAssumption      == UserOps \subseteq AllOps /\ Faults \subseteq AllFaults
ASSUME BoundAssumption    == MaxAdmin \in Nat /\ MaxFaults \in Nat

VARIABLES
  queue,            \* queries, the multiset, as the set of its elements
  stamp,            \* position of each query in the order of the emplace calls
  submissions,      \* number of emplace calls so far
  currentQuery,     \* iterator into queries, NoQuery for end()
  busy, awaitingResponse, stopOnceEmpty, autoReconnect,
  signalled,        \* nextCommandCaller was sent and has not run yet
  reconnectTimer, qRetryTimer,     \* the tokens: "none", "runs", or "lost" their timer
  behind,           \* the token whose timer stands behind the other's, if both run
  pSock,            \* "none", "connecting" (PollFunc) or "open" (socketCallback)
  deaf,             \* pSock watches a closed descriptor, or not for what is due
  conn,             \* "null" pgConn, or its status: "bad", "connecting", "ok"
  inflight,         \* libpq: the command that awaits its results
  expectsResults,   \* Query::expectsResults
  outcome,          \* what the last done() told the query's owner
  completions,      \* how often a final done() was made for the query
  pc,               \* the callback whose handler has not ended, "idle" for none
  signals,          \* connChangeFunc calls of a lost connection that have not returned
  ub,               \* the undefined behaviour met, if any: pc is then "undefined"
  admin, faults     \* counters for the bounds

queueVars == <<queue, stamp, submissions>>
ownVars   == <<currentQuery, busy, awaitingResponse, stopOnceEmpty, autoReconnect>>
timerVars == <<reconnectTimer, qRetryTimer, behind>>
sockVars  == <<pSock, deaf>>
loopVars  == <<signalled, timerVars, sockVars>>
libpqVars == <<conn, inflight>>
userVars  == <<expectsResults, outcome, completions>>
stackVars == <<pc, signals>>
auxVars   == <<ub, admin, faults>>

vars == <<queueVars, ownVars, loopVars, libpqVars, userVars, stackVars, auxVars>>

-----------------------------------------------------------------------------
(* The queue *)

\* Mutant: emplace puts a query before those that compare equal.
PrecedesYoungest(p, q) ==
  Priority[p] > Priority[q] \/ (Priority[p] = Priority[q] /\ stamp[p] > stamp[q])

\* The multiset's order: higher priority first, and emplace puts a query
\* behind those that compare equal.
Precedes(p, q) ==
  \/ Priority[p] > Priority[q]
  \/ Priority[p] = Priority[q] /\ stamp[p] < stamp[q]

\* queries.begin()
IsBegin(q) == q \in queue /\ \A p \in queue \ {q} : Precedes(q, p)

\* A suspended coroutine frame keeps the query alive until it is resumed.
Held(q) == q \in Awaited /\ stamp[q] # 0 /\ expectsResults[q]

isDone(q) == ~expectsResults[q]

isConnected == conn = "ok"

\* Query::done with a Result that does, or does not, announce more results.
Done(q, more, what) ==
  /\ expectsResults' = [expectsResults EXCEPT ![q] = more]
  /\ outcome' = [outcome EXCEPT ![q] = what]
  /\ completions' = [completions EXCEPT ![q] = @ + (IF more THEN 0 ELSE 1)]

Bounded(counter, bound) == counter < bound /\ counter' = counter + 1

Fault(f) == f \in Faults /\ Bounded(faults, MaxFaults) /\ UNCHANGED <<ub, admin>>

Admin(op) == op \in UserOps /\ Bounded(admin, MaxAdmin) /\ UNCHANGED <<ub, faults>>

NoFault == UNCHANGED auxVars

\* Nothing is being run: the event loop may call the next handler.
AtRest == pc = "idle" /\ signals = 0

\* Where the user's code may run: at top level and inside its callbacks.
UserRuns == signals # 0 \/ pc \in {"idle", "connected", "done", "notified", "closed"}

\* The handlers that use pSock after the user's callback has returned.
NeedsSocket == pc \in {"done", "notified"}

Undefined(what) == ub' = what /\ pc' = "undefined" /\ signals' = 0

-----------------------------------------------------------------------------
(* The timers *)

\* reconnectTimer = tc.timer(...): the new timer stands behind the others.
StartReconnectTimer ==
  /\ reconnectTimer # "lost"
  /\ reconnectTimer' = "runs"
  /\ behind' = IF qRetryTimer = "runs" THEN "reconnect" ELSE "none"
  /\ UNCHANGED qRetryTimer

StartRetryTimer ==
  /\ qRetryTimer # "lost"
  /\ qRetryTimer' = "runs"
  /\ behind' = IF reconnectTimer = "runs" THEN "retry" ELSE "none"
  /\ UNCHANGED reconnectTimer

\* The callback returns false while its token lives: the erase clears that
\* token, and takes along the timer that stands behind, not its token.
EndReconnectTimer ==
  /\ reconnectTimer' = "none"
  /\ qRetryTimer' = IF behind = "retry" THEN "lost" ELSE qRetryTimer
  /\ behind' = "none"

EndRetryTimer ==
  /\ qRetryTimer' = "none"
  /\ reconnectTimer' = IF behind = "reconnect" THEN "lost" ELSE reconnectTimer
  /\ behind' = "none"

-----------------------------------------------------------------------------
(* Steps that several handlers share *)

\* Mutant: the signal is not sent.
signalNothing == UNCHANGED signalled

\* nextCommandCaller->send(): a second send before the callback has no effect.
signalCompletion == signalled' = TRUE

\* pSock = nullptr; then connChangeFunc, then the rest in SignalReturn.
maybeSignalDisconnectionAndReconnect ==
  /\ pSock' = "none"
  /\ deaf' = FALSE
  /\ signals' = signals + 1

\* Whatever the connection was doing is gone; handshake starts over.
pollConnection ==
  /\ conn' = "connecting"
  /\ inflight' = NoQuery
  /\ busy' = TRUE
  /\ pSock' = "connecting"
  /\ deaf' = FALSE

\* disconnect(): neither awaitingResponse nor currentQuery is reset.  What
\* connChangeFunc does is the user's next operations: nothing follows it here.
dropConnection ==
  /\ conn' = "null"
  /\ inflight' = NoQuery
  /\ busy' = FALSE
  /\ stopOnceEmpty' = FALSE
  /\ pSock' = "none"
  /\ deaf' = FALSE

-----------------------------------------------------------------------------
Init ==
  /\ queue = {}
  /\ stamp = [q \in Queries |-> 0]
  /\ submissions = 0
  /\ currentQuery = NoQuery
  /\ busy = FALSE
  /\ awaitingResponse = FALSE
  /\ stopOnceEmpty = FALSE
  /\ autoReconnect = TRUE
  /\ signalled = FALSE
  /\ reconnectTimer = "none"
  /\ qRetryTimer = "none"
  /\ behind = "none"
  /\ pSock = "none"
  /\ deaf = FALSE
  /\ conn = "null"
  /\ inflight = NoQuery
  /\ expectsResults = [q \in Queries |-> TRUE]
  /\ outcome = [q \in Queries |-> "pending"]
  /\ completions = [q \in Queries |-> 0]
  /\ pc = "idle"
  /\ signals = 0
  /\ ub = "none"
  /\ admin = 0
  /\ faults = 0

-----------------------------------------------------------------------------
(* Operations of the user *)

\* Mutant: signals also when a query is being processed.
querySignals(q) ==
  /\ UserRuns /\ stamp[q] = 0
  /\ signalled' = (signalled \/ isConnected)
  /\ queue' = queue \cup {q}
  /\ submissions' = submissions + 1
  /\ stamp' = [stamp EXCEPT ![q] = submissions + 1]
  /\ UNCHANGED <<ownVars, timerVars, sockVars, libpqVars, userVars, stackVars, auxVars>>

\* query(): signals only if nothing is being processed, then emplaces.
query(q) ==
  /\ UserRuns
  /\ stamp[q] = 0
  /\ signalled' = (signalled \/ (~busy /\ isConnected))
  /\ queue' = queue \cup {q}
  /\ submissions' = submissions + 1
  /\ stamp' = [stamp EXCEPT ![q] = submissions + 1]
  /\ UNCHANGED <<ownVars, timerVars, sockVars, libpqVars, userVars, stackVars, auxVars>>

\* Mutant: does not look at awaitingResponse.
CancelIgnoredDone(q) == isDone(q)

\* The query's own PQrequestCancel leaves its fate to the server's answer.
CancelIgnored(q) == isDone(q) \/ (q = currentQuery /\ awaitingResponse)

\* cancelQuery() of a queued query: the erase destroys it, and ~Query reports
\* to its callback, unless a coroutine frame still owns it.
cancelQuery(q) ==
  /\ UserRuns /\ "cancel" \in UserOps
  /\ q \in queue
  /\ ~CancelIgnored(q)
  /\ queue' = queue \ {q}
  /\ IF Held(q) THEN UNCHANGED userVars ELSE Done(q, FALSE, "dropped")
  /\ UNCHANGED <<stamp, submissions, ownVars, loopVars, libpqVars, stackVars, auxVars>>

\* cancelQuery() of a query that was erased before: its iterator dangles.
cancelQueryAgain(q) ==
  /\ UserRuns /\ "recancel" \in UserOps
  /\ Held(q)
  /\ q \notin queue
  /\ ~CancelIgnored(q)
  /\ Undefined("dangling erase")
  /\ UNCHANGED <<queueVars, ownVars, loopVars, libpqVars, userVars, admin, faults>>

setAutoReconnect ==
  /\ UserRuns
  /\ Admin("setAutoReconnect")
  /\ autoReconnect' = ~autoReconnect
  /\ UNCHANGED <<queueVars, currentQuery, busy, awaitingResponse, stopOnceEmpty,
                 loopVars, libpqVars, userVars, stackVars>>

\* Mutant: does not look at busy.
lazyDisconnectAtOnce ==
  /\ UserRuns
  /\ Admin("lazyDisconnect")
  /\ dropConnection
  /\ UNCHANGED <<queueVars, currentQuery, awaitingResponse, autoReconnect, signalled,
                 timerVars, userVars, stackVars>>

lazyDisconnect ==
  /\ UserRuns
  /\ IF NeedsSocket /\ ~busy THEN Admin("disconnectInResult") ELSE Admin("lazyDisconnect")
  /\ IF busy
     THEN /\ stopOnceEmpty' = TRUE
          /\ UNCHANGED <<conn, inflight, busy, sockVars>>
     ELSE dropConnection
  /\ UNCHANGED <<queueVars, currentQuery, awaitingResponse, autoReconnect, signalled,
                 timerVars, userVars, stackVars>>

disconnect ==
  /\ UserRuns
  /\ IF NeedsSocket THEN Admin("disconnectInResult") ELSE Admin("disconnect")
  /\ dropConnection
  /\ UNCHANGED <<queueVars, currentQuery, awaitingResponse, autoReconnect, signalled,
                 timerVars, userVars, stackVars>>

\* libpq fails to start; that it does so in a result's callback is a fault of
\* its own.
StartFails(f) ==
  /\ f \in Faults
  /\ NeedsSocket => "startInResult" \in Faults
  /\ Bounded(faults, MaxFaults)

\* connect(): every program uses it, and some on a client that is not new.
connect ==
  /\ UserRuns
  /\ conn = "null" \/ "connectAgain" \in UserOps
  /\ NeedsSocket => "connectInResult" \in UserOps
  /\ Bounded(admin, MaxAdmin)
  /\ UNCHANGED ub
  /\ \/ pollConnection /\ UNCHANGED <<faults, signals>>
     \/ /\ StartFails("connectStart")
        /\ conn' = "bad"
        /\ inflight' = NoQuery
        /\ UNCHANGED busy
        /\ maybeSignalDisconnectionAndReconnect
  /\ UNCHANGED <<queueVars, currentQuery, awaitingResponse, stopOnceEmpty, autoReconnect,
                 signalled, timerVars, userVars, pc>>

\* reconnect() when PQresetStart succeeds, and when it does not: it has then
\* closed the descriptor that pSock watches.
ResetStarts == conn # "null" /\ pollConnection

ResetFails ==
  /\ conn # "null"
  /\ conn' = "bad"
  /\ inflight' = NoQuery
  /\ deaf' = (pSock # "none")
  /\ UNCHANGED <<busy, pSock>>

NothingToReset == conn = "null" /\ UNCHANGED <<libpqVars, busy, sockVars>>

reconnect ==
  /\ UserRuns
  /\ "reconnect" \in UserOps
  /\ NeedsSocket => "connectInResult" \in UserOps
  /\ Bounded(admin, MaxAdmin)
  /\ UNCHANGED ub
  /\ \/ (ResetStarts \/ NothingToReset) /\ UNCHANGED faults
     \/ ResetFails /\ StartFails("resetStart")
  /\ UNCHANGED <<queueVars, currentQuery, awaitingResponse, stopOnceEmpty, autoReconnect,
                 signalled, timerVars, userVars, stackVars>>

-----------------------------------------------------------------------------
(* The connection's callbacks *)

\* Mutant: forgets to tell anyone and to reconnect.
PollingFailedSilently ==
  /\ AtRest /\ pSock = "connecting" /\ conn = "connecting"
  /\ Fault("polling")
  /\ conn' = "bad"
  /\ busy' = FALSE
  /\ pSock' = "none" /\ deaf' = FALSE
  /\ UNCHANGED <<queueVars, currentQuery, awaitingResponse, stopOnceEmpty, autoReconnect,
                 signalled, timerVars, inflight, userVars, stackVars>>

\* PollFunc reports PGRES_POLLING_FAILED.
PollingFailed ==
  /\ AtRest /\ pSock = "connecting" /\ conn = "connecting"
  /\ Fault("polling")
  /\ conn' = "bad"
  /\ busy' = FALSE
  /\ maybeSignalDisconnectionAndReconnect
  /\ UNCHANGED <<queueVars, currentQuery, awaitingResponse, stopOnceEmpty, autoReconnect,
                 signalled, timerVars, inflight, userVars, pc>>

\* PollFunc reports PGRES_POLLING_OK: connChangeFunc runs, then ConnectedReturn.
PollingOk ==
  /\ AtRest /\ pSock = "connecting" /\ conn = "connecting"
  /\ conn' = "ok"
  /\ pSock' = "open" /\ deaf' = FALSE
  /\ pc' = "connected"
  /\ NoFault
  /\ UNCHANGED <<queueVars, ownVars, signalled, timerVars, inflight, userVars, signals>>

ConnectedReturn ==
  /\ pc = "connected" /\ signals = 0
  /\ signalCompletion
  /\ pc' = "idle"
  /\ NoFault
  /\ UNCHANGED <<queueVars, ownVars, timerVars, sockVars, libpqVars, userVars, signals>>

\* The rest of maybeSignalDisconnectionAndReconnect after connChangeFunc.  A
\* token whose timer was lost stops what now has that timer's place, and in the
\* retry timer's callback fire() holds an iterator: the vector may move under
\* it as it grows, and the erase of a timer in front of it shifts it.
SignalReturn ==
  /\ signals # 0
  /\ LET inFire == pc \in {"retry", "closed"} IN
     \/ /\ ~autoReconnect
        /\ signals' = signals - 1
        /\ UNCHANGED <<timerVars, pc, ub>>
     \/ /\ autoReconnect /\ ~(inFire /\ behind = "retry")
        /\ StartReconnectTimer
        /\ signals' = signals - 1
        /\ UNCHANGED <<pc, ub>>
     \/ /\ autoReconnect /\ reconnectTimer = "lost"
        /\ Undefined("stale token")
        /\ UNCHANGED timerVars
     \/ /\ autoReconnect /\ inFire
        /\ Undefined("timers change under fire()")
        /\ UNCHANGED timerVars
  /\ UNCHANGED <<queueVars, ownVars, signalled, sockVars, libpqVars, userVars, admin, faults>>

\* Mutant: returns true after a reset, too.
ReconnectTimerAgain ==
  /\ AtRest /\ reconnectTimer = "runs"
  /\ ResetStarts /\ NoFault
  /\ UNCHANGED <<queueVars, currentQuery, awaitingResponse, stopOnceEmpty, autoReconnect,
                 signalled, timerVars, userVars, stackVars>>

\* The reconnect timer runs once every two seconds until a reset starts.
ReconnectTimer ==
  /\ AtRest /\ reconnectTimer = "runs"
  /\ \/ ResetStarts /\ EndReconnectTimer /\ NoFault
     \/ NothingToReset /\ UNCHANGED timerVars /\ NoFault
     \/ ResetFails /\ UNCHANGED timerVars /\ Fault("resetStart")
  /\ UNCHANGED <<queueVars, currentQuery, awaitingResponse, stopOnceEmpty, autoReconnect,
                 signalled, userVars, stackVars>>

\* Mutant: goes on when there is no connection any more.
ConnectionLostIgnored ==
  /\ AtRest /\ pSock = "open" /\ ~deaf
  /\ Fault("lost")
  /\ conn' = "bad"
  /\ inflight' = NoQuery
  /\ UNCHANGED <<queueVars, ownVars, loopVars, userVars, stackVars>>

\* socketCallback, READABLE: PQconsumeInput finds the connection lost.
ConnectionLost ==
  /\ AtRest /\ pSock = "open" /\ ~deaf
  /\ Fault("lost")
  /\ conn' = "bad"
  /\ inflight' = NoQuery
  /\ maybeSignalDisconnectionAndReconnect
  /\ UNCHANGED <<queueVars, ownVars, signalled, timerVars, userVars, pc>>

\* socketCallback, READABLE: a notification, and notifFunc runs.
Notified ==
  /\ AtRest /\ pSock = "open" /\ ~deaf
  /\ Admin("notify")
  /\ pc' = "notified"
  /\ UNCHANGED <<queueVars, ownVars, loopVars, libpqVars, userVars, signals>>

-----------------------------------------------------------------------------
(* Sending the next query *)

\* Mutant: forgets lazyDisconnect().
NothingToSendRest ==
  /\ queue = {}
  /\ busy' = FALSE
  /\ NoFault
  /\ UNCHANGED <<conn, inflight, stopOnceEmpty, sockVars, currentQuery, awaitingResponse>>

\* The queue is empty: rest, or do what lazyDisconnect() asked for.
NothingToSend ==
  /\ queue = {}
  /\ IF stopOnceEmpty
     THEN dropConnection
     ELSE busy' = FALSE /\ UNCHANGED <<conn, inflight, stopOnceEmpty, sockVars>>
  /\ NoFault
  /\ UNCHANGED <<currentQuery, awaitingResponse>>

\* Mutant: takes any query of the queue.
SendAny(q) ==
  /\ q \in queue
  /\ isConnected /\ inflight = NoQuery
  /\ inflight' = q
  /\ currentQuery' = q
  /\ busy' = TRUE
  /\ awaitingResponse' = TRUE
  /\ NoFault
  /\ UNCHANGED <<conn, stopOnceEmpty, sockVars>>

\* PQsendQueryParams succeeds on an idle connection.
SendBegin(q) ==
  /\ IsBegin(q)
  /\ isConnected /\ inflight = NoQuery
  /\ inflight' = q
  /\ currentQuery' = q
  /\ busy' = TRUE
  /\ awaitingResponse' = TRUE
  /\ NoFault
  /\ UNCHANGED <<conn, stopOnceEmpty, sockVars>>

\* It fails because there is no connection, or finds that it is lost.
SendDisconnected ==
  /\ queue # {}
  /\ IF isConnected THEN inflight = NoQuery /\ Fault("sendLost") ELSE NoFault
  /\ conn' = IF isConnected THEN "bad" ELSE conn
  /\ currentQuery' = NoQuery
  /\ busy' = TRUE
  /\ maybeSignalDisconnectionAndReconnect
  /\ UNCHANGED <<inflight, awaitingResponse, stopOnceEmpty>>

\* It fails on a working connection, one that is in use if nothing else.
SendRefused ==
  /\ queue # {}
  /\ isConnected
  /\ IF inflight = NoQuery
     THEN "sendRefused" \in Faults /\ Bounded(faults, MaxFaults)
     ELSE UNCHANGED faults
  /\ currentQuery' = NoQuery
  /\ busy' = TRUE
  /\ UNCHANGED <<admin, conn, inflight, awaitingResponse, stopOnceEmpty, sockVars>>

\* nextCommandCaller's callback.
NextCommand ==
  /\ AtRest /\ signalled
  /\ signalled' = FALSE
  /\ \/ (NothingToSend \/ \E q \in queue : SendBegin(q)) /\ UNCHANGED <<timerVars, stackVars>>
     \/ SendDisconnected /\ UNCHANGED <<timerVars, pc>>
     \/ SendRefused /\ StartRetryTimer /\ UNCHANGED <<ub, stackVars>>
     \/ /\ SendRefused /\ qRetryTimer = "lost"
        /\ Undefined("stale token") /\ UNCHANGED timerVars
  /\ UNCHANGED <<queueVars, autoReconnect, userVars>>

\* qRetryTimer's callback.  A disconnection that lazyDisconnect() asked for
\* tells the user, and so does a connection found lost; a query that is refused
\* again assigns the token, which destroys the timer in its own callback.
RetryTimer ==
  /\ AtRest /\ qRetryTimer = "runs"
  /\ \/ /\ NothingToSend
        /\ pc' = IF stopOnceEmpty /\ isConnected THEN "closed" ELSE "retry"
        /\ UNCHANGED signals
     \/ /\ \E q \in queue : SendBegin(q)
        /\ pc' = "retry" /\ UNCHANGED signals
     \/ SendDisconnected /\ pc' = "retry"
     \/ SendRefused /\ Undefined("timer destroyed in its callback")
  /\ UNCHANGED <<queueVars, autoReconnect, signalled, timerVars, userVars>>

\* The callback returns false.
RetryReturn ==
  /\ pc \in {"retry", "closed"} /\ signals = 0
  /\ EndRetryTimer
  /\ pc' = "idle"
  /\ NoFault
  /\ UNCHANGED <<queueVars, ownVars, signalled, sockVars, libpqVars, userVars, signals>>

-----------------------------------------------------------------------------
(* Receiving results *)

\* A result for the current query: done() runs user code, then ResultReturn.
\* A COPY command has a first result and, in the same callback, a final one.
\* A server that ends the session reports that, and then the closed socket:
\* two final results.
Answered(copying) ==
  /\ signals = 0
  /\ pSock = "open" /\ ~deaf /\ inflight # NoQuery
  /\ currentQuery # NoQuery
  /\ Done(currentQuery, copying, "answered")
  /\ pc' = "done"
  /\ \/ inflight' = (IF copying THEN inflight ELSE NoQuery) /\ UNCHANGED conn /\ NoFault
     \/ ~copying /\ Fault("terminated") /\ conn' = "bad" /\ UNCHANGED inflight
  /\ UNCHANGED <<queueVars, ownVars, loopVars, signals>>

ReadableResult ==
  \/ pc = "idle" /\ inflight \in CopyIn /\ Answered(TRUE)
  \/ pc = "idle" /\ inflight \notin CopyIn /\ Answered(FALSE)
  \/ pc = "copied" /\ Answered(FALSE)

\* The same with currentQuery = queries.end().
ResultForNobody ==
  /\ AtRest /\ pSock = "open" /\ ~deaf /\ inflight # NoQuery
  /\ currentQuery = NoQuery
  /\ Undefined("end dereferenced")
  /\ UNCHANGED <<queueVars, ownVars, loopVars, libpqVars, userVars, admin, faults>>

\* The end of manageSocketEvents, pSock->change(evs).  A handshake that the
\* callback has started meets it, too, and may then wait for what is not
\* watched: to be able to write.
EventsReturn ==
  \/ pSock = "none" /\ Undefined("null pSock") /\ UNCHANGED deaf
  \/ deaf /\ Undefined("closed descriptor") /\ UNCHANGED deaf
  \/ /\ pSock # "none" /\ ~deaf
     /\ deaf' \in BOOLEAN /\ (deaf' => pSock = "connecting")
     /\ pc' = "idle"
     /\ UNCHANGED <<ub, signals>>

\* Mutant: leaves the answered query in the queue.
FinalReturnKeeps ==
  /\ isDone(currentQuery)
  /\ awaitingResponse' = FALSE
  /\ currentQuery' = NoQuery
  /\ signalCompletion
  /\ EventsReturn
  /\ UNCHANGED queue

\* The rest of currentCommandReturnedResult and of manageSocketEvents.
FinalReturn ==
  /\ isDone(currentQuery)
  /\ queue' = queue \ {currentQuery}
  /\ awaitingResponse' = FALSE
  /\ currentQuery' = NoQuery
  /\ signalCompletion
  /\ IF inflight = NoQuery THEN EventsReturn
     ELSE Undefined("end dereferenced") /\ UNCHANGED deaf

CopyReturn ==
  /\ ~isDone(currentQuery)
  /\ IF inflight = NoQuery THEN EventsReturn
     ELSE pc' = "copied" /\ UNCHANGED <<ub, signals, deaf>>
  /\ UNCHANGED <<queue, awaitingResponse, currentQuery, signalled>>

ResultReturn ==
  /\ pc = "done" /\ signals = 0
  /\ FinalReturn \/ CopyReturn
  /\ UNCHANGED <<stamp, submissions, busy, stopOnceEmpty, autoReconnect, timerVars, pSock,
                 libpqVars, userVars, admin, faults>>

\* After notifFunc; a result that has arrived with the notification is read by
\* ReadableResult.
NotifiedReturn ==
  /\ pc = "notified" /\ signals = 0
  /\ EventsReturn
  /\ UNCHANGED <<queueVars, ownVars, signalled, timerVars, pSock, libpqVars, userVars,
                 admin, faults>>

-----------------------------------------------------------------------------
User ==
  \/ \E q \in Queries : query(q) \/ cancelQuery(q) \/ cancelQueryAgain(q)
  \/ setAutoReconnect \/ lazyDisconnect \/ disconnect \/ connect \/ reconnect

Loop ==
  \/ PollingOk \/ ConnectedReturn \/ SignalReturn \/ ReconnectTimer
  \/ NextCommand \/ RetryTimer \/ RetryReturn
  \/ ReadableResult \/ ResultReturn \/ NotifiedReturn

Network == PollingFailed \/ ConnectionLost \/ Notified \/ ResultForNobody

Next == User \/ Loop \/ Network

Spec == Init /\ [][Next]_vars

\* The loop runs every callback that stays due, and a handshake whose handle
\* watches for what is due comes to an end.  Nothing is assumed of the program
\* or of the faults.
Fairness ==
  /\ WF_vars(~deaf /\ PollingOk)
  /\ WF_vars(ConnectedReturn)
  /\ WF_vars(SignalReturn)
  /\ WF_vars(ReconnectTimer)
  /\ WF_vars(NextCommand)
  /\ WF_vars(RetryTimer)
  /\ WF_vars(RetryReturn)
  /\ WF_vars(ReadableResult)
  /\ WF_vars(ResultReturn)
  /\ WF_vars(NotifiedReturn)

FairSpec == Spec /\ Fairness

-----------------------------------------------------------------------------
(* Properties *)

QueueOK ==
  /\ queue \subseteq Queries
  /\ stamp \in [Queries -> Nat]
  /\ submissions \in Nat
  /\ \A q \in Queries : stamp[q] <= submissions
  /\ \A p, q \in Queries : p # q /\ stamp[p] # 0 => stamp[p] # stamp[q]
  /\ \A q \in queue : stamp[q] # 0
  /\ currentQuery \in queue \cup {NoQuery}
  /\ inflight \in Queries \cup {NoQuery}

FlagsOK ==
  /\ busy \in BOOLEAN /\ awaitingResponse \in BOOLEAN
  /\ stopOnceEmpty \in BOOLEAN /\ autoReconnect \in BOOLEAN
  /\ signalled \in BOOLEAN /\ deaf \in BOOLEAN

TimersOK ==
  /\ reconnectTimer \in {"none", "runs", "lost"}
  /\ qRetryTimer \in {"none", "runs", "lost"}
  /\ behind \in {"none", "reconnect", "retry"}
  /\ behind # "none" <=> reconnectTimer = "runs" /\ qRetryTimer = "runs"

StatesOK ==
  /\ pSock \in {"none", "connecting", "open"}
  /\ conn \in {"null", "bad", "connecting", "ok"}
  /\ pc \in {"idle", "connected", "done", "copied", "notified", "retry", "closed",
             "undefined"}
  /\ ub \in {"none", "dangling erase", "end dereferenced", "null pSock",
             "closed descriptor", "stale token", "timers change under fire()",
             "timer destroyed in its callback"}

CountersOK == admin \in Nat /\ faults \in Nat /\ signals \in Nat

OwnersOK ==
  /\ expectsResults \in [Queries -> BOOLEAN]
  /\ outcome \in [Queries -> {"pending", "answered", "dropped"}]
  /\ completions \in [Queries -> Nat]

\* The values the variables take: a query is queued once, the order of the
\* queue is total, and currentQuery points into the queue or past its end.
TypeOK == QueueOK /\ FlagsOK /\ TimersOK /\ StatesOK /\ CountersOK /\ OwnersOK

\* The handlers never meet one of the situations in which they would use a
\* dead iterator, a null socket, a closed descriptor or a destroyed timer.
NoUB == ub = "none"

\* While libpq executes a command, currentQuery is that command's query, it is
\* still queued and awaits its result, so that the result reaches its owner,
\* and no second processNextCommand() is on its way to move currentQuery.
InflightIsCurrent ==
  inflight # NoQuery =>
    /\ currentQuery = inflight /\ inflight \in queue
    /\ awaitingResponse /\ ~isDone(inflight)
    /\ busy /\ ~signalled

\* A connected client at rest with queued queries has a next step scheduled: a
\* signal, the answer of the server or the retry timer.
NoStall ==
  AtRest /\ isConnected /\ pSock = "open" /\ queue # {} =>
    signalled \/ inflight # NoQuery \/ qRetryTimer = "runs"

\* Nothing will bring the connection back: the retry timer ended in front of the
\* reconnect timer and took it along, or nobody retries where pSock hears of
\* nothing, since the program's own reconnect() failed, or a result's callback
\* connected and manageSocketEvents has changed what the new handle watches.
CutOff == reconnectTimer = "lost" \/ (deaf /\ reconnectTimer = "none")

\* A client that was told to connect and lost or missed its connection has a
\* poll handle that hears of it or a reconnect timer that will bring it back,
\* unless it was cut off.
NeverStranded ==
  conn \in {"bad", "connecting"} =>
    \/ pSock # "none" /\ ~deaf
    \/ reconnectTimer = "runs"
    \/ signals # 0 \/ pc = "undefined"
    \/ CutOff

\* done() is called at most once with a final result, whatever cancellations
\* and lost connections the query lives through.
CompletedAtMostOnce == \A q \in Queries : completions[q] <= 1

\* Queries of the same priority are answered in the order of submission, also
\* when a lost connection makes the client send again.
FifoWithinPriority ==
  \A p, q \in Queries :
    /\ Priority[p] = Priority[q]
    /\ 0 < stamp[p] /\ stamp[p] < stamp[q]
    /\ outcome[q] = "answered"
    => isDone(p) \/ p \notin queue

\* The reconnect timer would interrupt a connection that works or is attempted.
\* Only a program gets there, which connects while the timer runs, or while it
\* is told of a disconnection, which starts the timer; the client never does.
TimerMeetsConnection == reconnectTimer = "runs" /\ (isConnected \/ pSock # "none")

TimerOnlyWhenDown ==
  [][TimerMeetsConnection' /\ ~TimerMeetsConnection =>
       \/ admin' # admin
       \/ signals # 0 /\ pSock # "none"]_vars

\* What excuses a client from going on: it was disconnected or cut off, or
\* nothing more is specified.
Excused == conn = "null" \/ CutOff \/ pc = "undefined"

\* A client with a working or recovering connection brings every queued query
\* to its end, when faults are not for ever and the program does not disconnect.
EveryQueryLeaves ==
  \A q \in Queries : (q \in queue /\ conn # "null") ~> (q \notin queue \/ Excused)

\* lazyDisconnect() on a busy client is followed by a disconnection.
LazyDisconnectHappens == stopOnceEmpty ~> Excused

\* What became of a query, for its owner.
Phase(q) ==
  CASE stamp[q] = 0                        -> "new"
    [] stamp[q] # 0 /\ inflight = q        -> "executing"
    [] q \in queue /\ inflight # q /\ ~isDone(q) -> "waiting"
    [] OTHER                               -> "ended"

\* The client implements the life cycle it promises for queries.
Lifecycle == INSTANCE QueryLifecycle WITH phase <- [q \in Queries |-> Phase(q)],
                                          age   <- stamp

ImplementsLifecycle == Lifecycle!Spec

-----------------------------------------------------------------------------
(* Statements of the source's comments that do not hold *)

\* AsyncPostgres.hpp:67, lazyDisconnect() "will disconnect when the query queue
\* is empty": it does not disconnect a connected client that has queries.
LazyDisconnectWaits ==
  [][stopOnceEmpty = stopOnceEmpty' /\ isConnected /\ conn' = "null" => queue = {}]_vars

\* AsyncPostgres.hpp:88, the "query callback will still be called, even if
\* cancelled ok".
CancelledIsCalledBack ==
  \A q \in Queries : (stamp[q] # 0 /\ q \notin queue) ~> isDone(q)

\* AsyncPostgres.cpp:269, results for no query "shouldn't happen anyways".
CurrentIsNotEnd == ub # "end dereferenced"

=============================================================================
