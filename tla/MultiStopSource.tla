-------------------------- MODULE MultiStopSource --------------------------
(***************************************************************************)
(* MultiStopSource (MultiStopSource.cpp): a stop source for what several   *)
(* parties want, which stops when the last of them has asked to stop.      *)
(*                                                                         *)
(* A party's request_stop() runs the callbacks of its token one after the  *)
(* other: those of others may use the source, or stop other tokens, before *)
(* the source's own callback has run.                                      *)
(***************************************************************************)

CONSTANT Tokens     \* the parties' tokens; one that is never stopped may be
                    \* one that cannot be

VARIABLES
  main,                \* "absent", "possible", "stopped" or "nostopstate"
  connections,         \* the tokens of the list
  stopped,             \* tokens whose stop was requested
  due,                 \* of those, the ones whose callback here has not run
  asked                \* tokens that were given while main could be stopped

multiStopVars == <<main, connections, stopped, due, asked>>

MultiStopInit ==
  /\ main = "absent"
  /\ connections = {} /\ due = {} /\ asked = {}
  /\ stopped = {}

construct(st) ==
  /\ main = "absent"
  /\ asked' = {st}
  /\ IF st \in stopped
     THEN main' = "stopped"  /\ connections' = {}
     ELSE main' = "possible" /\ connections' = {st}
  /\ UNCHANGED <<stopped, due>>

\* Nothing happens for a token or a source that is stopped or cannot be.
connect(st) ==
  /\ main # "absent"
  /\ IF main = "possible" /\ st \notin stopped
     THEN connections' = connections \cup {st}
     ELSE UNCHANGED connections
  /\ asked' = IF main = "possible" THEN asked \cup {st} ELSE asked
  /\ UNCHANGED <<main, stopped, due>>

\* Clearing the list also takes the callbacks back.
invalidate ==
  /\ main # "absent"
  /\ main' = "nostopstate"
  /\ connections' = {} /\ due' = {}
  /\ UNCHANGED <<stopped, asked>>

requestStop(st) ==
  /\ st \notin stopped
  /\ stopped' = stopped \cup {st}
  /\ due' = IF st \in connections THEN due \cup {st} ELSE due
  /\ UNCHANGED <<main, connections, asked>>

\* Mutant: main is stopped if nobody is left before the connections are cleaned.
CheckAndClean(st) ==
  /\ connections' = connections \ stopped
  /\ due' = due \ stopped
  /\ main' = IF connections = {} THEN "stopped" ELSE main

\* The callback of st.  All connections whose token is stopped are erased, with
\* the callbacks that have not run yet.
cleanAndCheck(st) ==
  /\ connections' = connections \ stopped
  /\ due' = due \ stopped
  /\ main' = IF connections' = {} THEN "stopped" ELSE main

StopCallback(st) ==
  /\ st \in due
  /\ cleanAndCheck(st)
  /\ UNCHANGED <<stopped, asked>>

MultiStopNext ==
  \/ \E st \in Tokens : construct(st) \/ connect(st) \/ requestStop(st) \/ StopCallback(st)
  \/ invalidate

MultiStopSpec == MultiStopInit /\ [][MultiStopNext]_multiStopVars

-----------------------------------------------------------------------------
(* Properties *)

\* The values of the variables.  A callback is due for a connection that is
\* stopped, and main can only be stopped while there are connections.
MultiStopTypeOK ==
  /\ main \in {"absent", "possible", "stopped", "nostopstate"}
  /\ connections \subseteq Tokens
  /\ stopped \subseteq Tokens
  /\ due = connections \cap stopped
  /\ asked \subseteq Tokens
  /\ connections # {} => main = "possible"

\* The source stops with the last party that wants the work: not while one of
\* those that were connected in time has not stopped, and a source that is not
\* stopped still has a party that will stop it, or a callback that is due.
StopsWithLast ==
  /\ main = "stopped" => asked \subseteq stopped
  /\ main = "possible" => asked \ stopped \subseteq connections /\ connections # {}
=============================================================================
