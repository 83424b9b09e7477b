------------------------------ MODULE AsyncCurl ------------------------------
(***************************************************************************)
(* HTTP and SMTP requests over a libcurl multi handle (AsyncCurl.cpp).     *)
(* libcurl does the work inside of its own functions; while it does, it    *)
(* asks for a timer and for sockets to be watched through callbacks into   *)
(* AsyncCurl, and the event loop calls libcurl when these are due.  When a *)
(* transfer is over, processCompleted calls the request's owner, who may   *)
(* make further requests, and whose exception leaves processCompleted      *)
(* where it is: the loop's owner catches it and runs the loop again.       *)
(*                                                                         *)
(* libcurl is external: a handle is one of the states below, and libcurl   *)
(* reports a change of its earliest timeout, as its documentation says.    *)
(* Sockets are not told apart: several transfers may share one, and an     *)
(* event on a socket brings any of the transfers forward.                  *)
(***************************************************************************)
EXTENDS Naturals, FiniteSets

CONSTANTS
  Requests,          \* calls of httpGet and of smtpSendMail that may be made
  NoRequest,
  HostOf,            \* the host that each of them is sent to
  Multiplexing,      \* hosts whose one connection carries several transfers
  MaxConnections,    \* CURLMOPT_MAX_TOTAL_CONNECTIONS
  CallbackRequests,  \* those that may be made inside of a request's callback
  Throwing           \* those whose callback may throw an exception

ASSUME RequestsAssumption == /\ IsFiniteSet(Requests) /\ NoRequest \notin Requests
                             /\ CallbackRequests \subseteq Requests
                             /\ Throwing \subseteq Requests
ASSUME ConnectionsAssumption == MaxConnections \in Nat \ {0}

VARIABLES
  pendingRequests, handleCount,
  timer,      \* [running |-> isTimerRunning, armed |-> whether nev will call back]
  handle,     \* libcurl's state of each request's easy handle
  told,       \* libcurl assumes a timer for its earliest timeout
  pc,         \* the loop is "idle", or in processCompleted or in the destructor
  current,    \* the request whose callback runs
  uncounted   \* requests libcurl counts and that came after handleCount was set

curlVars == <<handle, told>>
vars == <<pendingRequests, handleCount, timer, curlVars, pc, current, uncounted>>

-----------------------------------------------------------------------------
(* libcurl *)

\* ready: to be started as soon as libcurl is called for a timeout
\* queued: waits for a connection        transfer: waits for its socket
\* delayed: waits for a timeout          done: its result can be read
\* reported: its result has been read    closed: removed and freed
HandleStates ==
  {"none", "ready", "queued", "transfer", "delayed", "done", "reported", "closed"}

Timed(h)   == {r \in Requests : h[r] \in {"ready", "delayed"}}
Connected(h) == {r \in Requests : h[r] \in {"transfer", "delayed"}}
Running(h) == {r \in Requests : h[r] \in {"ready", "queued", "transfer", "delayed"}}
Queued(h)  == {r \in Requests : h[r] = "queued"}
Done(h)    == {r \in Requests : h[r] = "done"}

\* The hosts that a connection is held to: CURLMOPT_MAX_HOST_CONNECTIONS is 1.
Hosts(h) == {HostOf[r] : r \in Connected(h)}

Limits(h) ==
  /\ Cardinality(Hosts(h)) <= MaxConnections
  /\ \A r, s \in Connected(h) :
       r # s /\ HostOf[r] = HostOf[s] => HostOf[r] \in Multiplexing

\* What a queued request waits for: the connection to its host, any connection,
\* or libcurl's next call, which starts those that are ready.
Waits(h) ==
  \A q \in Queued(h) : \/ HostOf[q] \in Hosts(h)
                       \/ Cardinality(Hosts(h)) = MaxConnections
                       \/ \E r \in Requests : h[r] = "ready"

\* AsyncCurl::stopTimer and startTimer, which libcurl calls.
stopTimer(t) == IF t.running THEN [running |-> FALSE, armed |-> FALSE] ELSE t

\* Mutant: starts the timer and leaves isTimerRunning as it is.
startTimerUnflagged(t) == [stopTimer(t) EXCEPT !.armed = TRUE]

startTimer(t) ==
  LET s == stopTimer(t)
  IN  IF s.running THEN s ELSE [running |-> TRUE, armed |-> TRUE]

\* The timer function is called when the earliest timeout is not the one that
\* libcurl last asked a timer for,
TimerFunction(h) ==
  IF Timed(h) = {}
  THEN told' = FALSE /\ timer' = IF told THEN stopTimer(timer) ELSE timer
  ELSE told' = TRUE /\ (timer' = startTimer(timer) \/ (told /\ timer' = timer))

\* and in any case after a handle is added or the timer, now t, has run out.
TimerFunctionAnew(h, t) ==
  /\ told' = (Timed(h) # {})
  /\ timer' = IF told' THEN startTimer(t) ELSE t

\* What becomes of a handle that is brought forward.
Forward ==
  [ready    |-> {"queued", "transfer", "delayed", "done"},
   delayed  |-> {"delayed", "transfer", "done"},
   transfer |-> {"transfer", "done"}]

\* curl_multi_socket_action brings the handles D forward: f is what becomes of
\* them, K are queued handles that are started again.  A handle is queued for
\* want of a connection only, and started when another is done or when the
\* connection to its host turns out to carry several.
SocketAction(D) ==
  \E f \in [D -> {"queued", "transfer", "delayed", "done"}],
     K \in SUBSET Queued(handle) :
    LET h == [r \in Requests |-> IF r \in D THEN f[r]
                                 ELSE IF r \in K THEN "ready" ELSE handle[r]]
    IN  /\ \A r \in D : f[r] \in Forward[handle[r]]
        /\ \A q \in K : Done(h) # {} \/ HostOf[q] \in Multiplexing \cap Hosts(h)
        /\ Limits(h) /\ Waits(h)
        /\ handle' = h

\* Mutant: the running handles are counted in another variable.
CountsElsewhere(h) ==
  /\ UNCHANGED handleCount
  /\ uncounted' = {}

\* It returns the number of running handles in handleCount.
Counts(h) ==
  /\ handleCount' = Cardinality(Running(h))
  /\ uncounted' = {}

-----------------------------------------------------------------------------
Init ==
  /\ pendingRequests = {} /\ handleCount = 0
  /\ timer = [running |-> FALSE, armed |-> FALSE]
  /\ handle = [r \in Requests |-> "none"] /\ told = FALSE
  /\ pc = "idle" /\ current = NoRequest
  /\ uncounted = {}

\* httpGet and smtpSendMail: the constructor of the handle adds it to libcurl.
httpGet(r) ==
  /\ pc = "idle" \/ (pc = "callback" /\ r \in CallbackRequests)
  /\ handle[r] = "none"
  /\ handle' = [handle EXCEPT ![r] = "ready"]
  /\ TimerFunctionAnew(handle', timer)
  /\ pendingRequests' = pendingRequests \cup {r}
  /\ uncounted' = uncounted \cup {r}
  /\ UNCHANGED <<handleCount, pc, current>>

\* The callback of the timer: stopTimer and update.
onTimer ==
  /\ pc = "idle" /\ timer.armed
  /\ \E D \in SUBSET Timed(handle) :
       /\ \A r \in Requests : handle[r] = "ready" => r \in D
       /\ SocketAction(D)
       /\ TimerFunctionAnew(handle', stopTimer([timer EXCEPT !.armed = FALSE]))
       /\ Counts(handle')
  /\ pc' = "processing"
  /\ UNCHANGED <<pendingRequests, current>>

\* The callback of a socket's poll handle; timeouts that are due are looked
\* after as well.
onSocket ==
  /\ pc = "idle"
  /\ \E S \in SUBSET {r \in Requests : handle[r] = "transfer"},
        D \in SUBSET Timed(handle) :
       /\ S # {}
       /\ SocketAction(S \cup D)
       /\ TimerFunction(handle')
       /\ Counts(handle')
  /\ pc' = "processing"
  /\ UNCHANGED <<pendingRequests, current>>

\* Mutant: the handle stays in pendingRequests.
finishedKept(r) ==
  /\ pc = "processing" /\ r \in Done(handle)
  /\ handle' = [handle EXCEPT ![r] = "reported"]
  /\ pc' = "callback" /\ current' = r
  /\ UNCHANGED <<pendingRequests, handleCount, timer, told, uncounted>>

\* processCompleted: a result is read, and the owner's callback is called.
finished(r) ==
  /\ pc = "processing" /\ r \in Done(handle)
  /\ handle' = [handle EXCEPT ![r] = "reported"]
  /\ pendingRequests' = pendingRequests \ {r}
  /\ pc' = "callback" /\ current' = r
  /\ UNCHANGED <<handleCount, timer, told, uncounted>>

\* The callback returns and the handle is deleted.
finishedReturns ==
  /\ pc = "callback"
  /\ handle' = [handle EXCEPT ![current] = "closed"]
  /\ TimerFunction(handle')
  /\ pc' = "processing" /\ current' = NoRequest
  /\ UNCHANGED <<pendingRequests, handleCount, uncounted>>

\* The callback throws: its handle is not deleted, and what else is done is left
\* until the next event, with the timer as it is.
finishedThrows ==
  /\ pc = "callback" /\ current \in Throwing
  /\ pc' = "idle" /\ current' = NoRequest
  /\ UNCHANGED <<pendingRequests, handleCount, timer, curlVars, uncounted>>

\* Mutant: the timer is stopped whatever runs.
StopAlways == stopTimer(timer)

\* The end of processCompleted, which looks at a count from before the callbacks.
StopWhenUnused == IF handleCount = 0 THEN stopTimer(timer) ELSE timer

\* Mutant: one result is read where there may be several.
processedOne ==
  /\ pc = "processing"
  /\ timer' = StopWhenUnused
  /\ pc' = "idle"
  /\ UNCHANGED <<pendingRequests, handleCount, curlVars, current, uncounted>>

processed ==
  /\ pc = "processing" /\ Done(handle) = {}
  /\ timer' = StopWhenUnused
  /\ pc' = "idle"
  /\ UNCHANGED <<pendingRequests, handleCount, curlVars, current, uncounted>>

\* The destructor stops the timer and deletes the requests one by one; while it
\* does, libcurl may still ask for the timer.
Destroy ==
  /\ pc = "idle"
  /\ timer' = stopTimer(timer)
  /\ pc' = "destroying"
  /\ UNCHANGED <<pendingRequests, handleCount, curlVars, current, uncounted>>

DeleteRequest(r) ==
  /\ pc = "destroying" /\ r \in pendingRequests
  /\ pendingRequests' = pendingRequests \ {r}
  /\ handle' = [handle EXCEPT ![r] = "closed"]
  /\ TimerFunction(handle')
  /\ UNCHANGED <<handleCount, pc, current, uncounted>>

Destroyed ==
  /\ pc = "destroying" /\ pendingRequests = {}
  /\ pc' = "destroyed"
  /\ UNCHANGED <<pendingRequests, handleCount, timer, curlVars, current, uncounted>>

Next ==
  \/ \E r \in Requests : httpGet(r) \/ finished(r) \/ DeleteRequest(r)
  \/ onTimer \/ onSocket \/ finishedReturns \/ finishedThrows \/ processed
  \/ Destroy \/ Destroyed

Spec == Init /\ [][Next]_vars

\* The remote side of r answers or the connection fails.
Answered(r) ==
  /\ handle[r] \in {"transfer", "delayed"}
  /\ onTimer \/ onSocket
  /\ handle'[r] = "done"

\* The event loop calls what is due, calls within it come to an end, and every
\* transfer is answered some day: no CURLOPT_TIMEOUT ends one that is not.
Fairness ==
  /\ SF_vars(onTimer)
  /\ \A r \in Requests : /\ SF_vars(Answered(r))
                          /\ WF_vars(finished(r)) /\ WF_vars(DeleteRequest(r))
  /\ WF_vars(finishedReturns \/ finishedThrows) /\ WF_vars(processed)

FairSpec == Spec /\ Fairness

-----------------------------------------------------------------------------
(* Properties *)

\* The values the variables take; isTimerRunning says what it is called.
TypeOK ==
  /\ pendingRequests \subseteq Requests
  /\ handleCount \in 0..Cardinality(Requests)
  /\ timer \in [running : BOOLEAN, armed : BOOLEAN] /\ timer.running = timer.armed
  /\ handle \in [Requests -> HandleStates] /\ told \in BOOLEAN
  /\ pc \in {"idle", "processing", "callback", "destroying", "destroyed"}
  /\ current \in Requests \cup {NoRequest}
  /\ uncounted \subseteq Requests

\* pendingRequests owns the handles whose result is not read yet, and every other
\* that libcurl has is the one whose callback runs, which is deleted after it,
\* or one whose callback threw.  The destructor thus frees every handle once but
\* those, which nobody frees.
OwnsHandles ==
  /\ pendingRequests =
       {r \in Requests : handle[r] \notin {"none", "reported", "closed"}}
  /\ \A r \in Requests : handle[r] = "reported" => r = current \/ r \in Throwing

\* activeHandles() is the number of running requests, less those that were made
\* since libcurl was last called for an event.
CountLags ==
  pc # "destroying" /\ pc # "destroyed" =>
    handleCount + Cardinality(uncounted) = Cardinality(Running(handle))

\* The timer that processCompleted stops by that count is one that a request
\* waits for only if all requests that wait for it were made in the callbacks
\* of the last transfers; while others run, no request is left without it.
Stranded == pc = "idle" /\ Timed(handle) # {} /\ ~timer.armed

OnlyUncountedStranded ==
  Stranded => handleCount = 0 /\ Running(handle) \subseteq uncounted \cap CallbackRequests

\* Results that an exception left unread wait for an event, and nothing that
\* could bring one runs.
LeftUnread ==
  /\ pc = "idle" /\ Done(handle) # {} /\ Running(handle) = {}
  /\ \E t \in Throwing : handle[t] = "reported"

\* Every request ends with its callback or with the object, unless it is
\* stranded or left unread for ever: a request that is made later takes it
\* along.
EveryRequestEnds ==
  []<>~(Stranded \/ LeftUnread) =>
    \A r \in Requests : r \in pendingRequests ~> r \notin pendingRequests

=============================================================================
