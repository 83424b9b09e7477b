---------------------------- MODULE LibraryProofs ----------------------------
(***************************************************************************)
(* Parts of the library that stand alone: the identifiers of IdSys are     *)
(* exact, a MultiStopSource stops with its last party, cached verdicts     *)
(* stay, a bucket lets no more be spent than its rate allows, and what a   *)
(* PropertyReader saves is what it reads back, for every text, and it      *)
(* knows whether its file is outdated.  None of them knows of another one; *)
(* each has its own specification.                                         *)
(***************************************************************************)
EXTENDS IdSys, MultiStopSource, RestApis, Bucket, PropertyReader, DataProofs, FiniteSetTheorems

-----------------------------------------------------------------------------
(* IdSys, for any MaxId: IdsTypeOK and IdsExact together are inductive *)

IdsInv == IdsTypeOK /\ IdsExact

\* What FreeTo leaves of a set F of free identifiers up to c, U being in use.
LEMMA FreeToExact ==
  ASSUME NEW c \in Nat, NEW F, NEW U,
         F \cap U = {}, F \cup U = 1..c, FreeTo(F, c)
  PROVE  /\ currentId' \in Nat
         /\ freeIds' \cap U = {}
         /\ freeIds' \cup U = 1..currentId'
         /\ currentId' \in freeIds' => freeIds' = {currentId'}
  <1>1. PICK d \in 0..c : /\ Shrinks(F, c, d)
                          /\ currentId' = d
                          /\ freeIds' = F \ ((d + 1)..c)
    BY DEF FreeTo
  <1>2. d \in Nat /\ d <= c
    OBVIOUS
  <1>3. \A i \in (d + 1)..c : i \in F
    BY <1>1 DEF Shrinks, Erased
  <1>4. \A u \in U : u \in 1..d
    <2> SUFFICES ASSUME NEW u \in U PROVE u \in 1..d
      OBVIOUS
    <2>1. u \in 1..c /\ u \notin F
      OBVIOUS
    <2>2. u \notin (d + 1)..c
      BY <1>3, <2>1
    <2> QED BY <1>2, <2>1, <2>2
  <1>5. freeIds' \cap U = {}
    BY <1>1
  <1>6. freeIds' \cup U = 1..d
    <2>1. ASSUME NEW i \in freeIds' PROVE i \in 1..d
      <3>1. i \in 1..c /\ i \notin (d + 1)..c
        BY <1>1, <2>1
      <3> QED BY <1>2, <3>1
    <2>2. ASSUME NEW i \in 1..d PROVE i \in freeIds' \cup U
      <3>1. i \in 1..c /\ i \notin (d + 1)..c
        BY <1>2, <2>2
      <3> QED BY <1>1, <3>1
    <2> QED BY <1>4, <2>1, <2>2
  <1>7. ASSUME d \in freeIds' PROVE freeIds' = {d}
    <2>1. d \in F
      BY <1>1, <1>7
    <2>2. \A j \in F : ~(j < d)
      BY <1>1, <2>1 DEF Shrinks, Erased
    <2>3. ASSUME NEW i \in freeIds' PROVE i = d
      <3>1. i \in F /\ i \in 1..d
        BY <1>1, <1>6, <2>3
      <3> QED BY <1>2, <2>2, <3>1
    <2> QED BY <1>7, <2>3
  <1> QED BY <1>1, <1>2, <1>5, <1>6, <1>7

\* No identifier has been given yet.
LEMMA InitExact == IdSysInit => IdsInv
  BY DEF IdSysInit, IdsInv, IdsTypeOK, IdsExact

\* getId() gives the least free identifier, or the next.
LEMMA GetExact == IdsInv /\ getId => IdsInv'
  <1> SUFFICES ASSUME IdsInv, getId PROVE IdsInv'
    OBVIOUS
  <1> USE DEF IdsInv, IdsTypeOK, IdsExact
  <1>1. PICK id \in 1..MaxId : /\ IsNextId(id)
                               /\ currentId' = IF freeIds = {} THEN id ELSE currentId
                               /\ freeIds' = freeIds \ {id}
                               /\ inUse' = inUse \cup {id}
    BY DEF getId
  <1>2. id \in Nat
    BY MaxIdAssumption
  <1>3. CASE freeIds = {}
    <2>1. id = currentId + 1 /\ currentId' = id /\ freeIds' = {} /\ inUse = 1..currentId
      BY <1>1, <1>3 DEF IsNextId
    <2>2. inUse' = 1..currentId'
      BY <1>1, <1>2, <2>1
    <2> QED BY <1>2, <2>1, <2>2
  <1>4. CASE freeIds # {}
    <2>1. IsLeast(id, freeIds) /\ currentId' = currentId
      BY <1>1, <1>4 DEF IsNextId
    <2>2. freeIds' \cap inUse' = {} /\ freeIds' \cup inUse' = 1..currentId'
      BY <1>1, <2>1 DEF IsLeast
    <2>3. currentId' \notin freeIds'
      BY <1>1, <2>1 DEF IsLeast
    <2> QED BY <2>1, <2>2, <2>3
  <1> QED BY <1>3, <1>4

\* freeId() frees it, or lowers the counter as far as shrink() goes.
LEMMA FreeExact == ASSUME NEW id \in inUse, IdsInv, freeId(id) PROVE IdsInv'
  <1> USE DEF IdsInv, IdsTypeOK, IdsExact
  <1> DEFINE U == inUse \ {id}
  <1>1. inUse' = U /\ id \in 1..currentId /\ currentId \in Nat
    BY DEF freeId
  <1>2. CASE id = currentId
    <2>1. FreeTo(freeIds, currentId - 1)
      BY <1>2 DEF freeId
    <2>2. currentId - 1 \in Nat
      BY <1>1
    <2>3. freeIds \cap U = {} /\ freeIds \cup U = 1..(currentId - 1)
      <3>1. freeIds \cup U = (1..currentId) \ {currentId}
        BY <1>1, <1>2
      <3> QED BY <1>1, <3>1
    <2> QED BY <1>1, <2>1, <2>2, <2>3, FreeToExact
  <1>3. CASE id # currentId
    <2>1. FreeTo(freeIds \cup {id}, currentId)
      BY <1>3 DEF freeId
    <2>2. (freeIds \cup {id}) \cap U = {} /\ (freeIds \cup {id}) \cup U = 1..currentId
      BY <1>1
    <2> HIDE DEF U
    <2>3. /\ currentId' \in Nat
          /\ freeIds' \cap U = {}
          /\ freeIds' \cup U = 1..currentId'
          /\ currentId' \in freeIds' => freeIds' = {currentId'}
      BY <1>1, <2>1, <2>2, FreeToExact
    <2> QED BY <1>1, <2>3
  <1> QED BY <1>2, <1>3

\* The invariant holds in every state.
LEMMA IdsInvariant == IdSysSpec => []IdsInv
  <1>1. ASSUME IdsInv, [IdSysNext]_idSysVars PROVE IdsInv'
    <2>1. CASE getId
      BY <1>1, <2>1, GetExact
    <2>2. CASE \E id \in inUse : freeId(id)
      BY <1>1, <2>2, FreeExact
    <2>3. CASE UNCHANGED idSysVars
      BY <1>1, <2>3 DEF idSysVars, IdsInv, IdsTypeOK, IdsExact
    <2> QED BY <1>1, <2>1, <2>2, <2>3 DEF IdSysNext
  <1> QED BY InitExact, <1>1, PTL DEF IdSysSpec

\* The variables of IdSys keep their types.
THEOREM IdsTypeCorrect == IdSysSpec => []IdsTypeOK
  BY IdsInvariant, PTL DEF IdsInv

\* getId() never gives an identifier that is in use, freeId() loses none, and
\* the counter goes down with them (IdSys.cpp:28-47).
THEOREM IdsAreExact == IdSysSpec => []IdsExact
  BY IdsInvariant, PTL DEF IdsInv

\* When all identifiers have been freed, the next one is 1 again.
THEOREM AllFreed == IdSysSpec => [](inUse = {} => currentId \in {0, 1})
  <1>1. IdsInv => (inUse = {} => currentId \in {0, 1})
    <2> SUFFICES ASSUME IdsInv, inUse = {}, currentId # 0 PROVE currentId = 1
      OBVIOUS
    <2>1. freeIds = 1..currentId /\ currentId \in Nat
      BY DEF IdsInv, IdsTypeOK, IdsExact
    <2>2. currentId \in freeIds /\ 1 \in freeIds
      BY <2>1
    <2>3. freeIds = {currentId}
      BY <2>2 DEF IdsInv, IdsExact
    <2> QED BY <2>2, <2>3
  <1> QED BY <1>1, IdsInvariant, PTL

-----------------------------------------------------------------------------
(* MultiStopSource, for any set of tokens *)

MultiStopInv == MultiStopTypeOK /\ StopsWithLast

\* The invariant holds in every state.
LEMMA MultiStopInvariant == MultiStopSpec => []MultiStopInv
  <1> USE DEF MultiStopInv, MultiStopTypeOK, StopsWithLast
  <1>1. MultiStopInit => MultiStopInv
    BY DEF MultiStopInit
  <1>2. ASSUME MultiStopInv, [MultiStopNext]_multiStopVars PROVE MultiStopInv'
    <2>1. ASSUME NEW st \in Tokens, construct(st) PROVE MultiStopInv'
      BY <1>2, <2>1 DEF construct
    <2>2. ASSUME NEW st \in Tokens, connect(st) PROVE MultiStopInv'
      BY <1>2, <2>2 DEF connect
    <2>3. ASSUME NEW st \in Tokens, requestStop(st) PROVE MultiStopInv'
      BY <1>2, <2>3 DEF requestStop
    <2>4. ASSUME NEW st \in Tokens, StopCallback(st) PROVE MultiStopInv'
      BY <1>2, <2>4 DEF StopCallback, cleanAndCheck
    <2>5. CASE invalidate
      BY <1>2, <2>5 DEF invalidate
    <2>6. CASE UNCHANGED multiStopVars
      BY <1>2, <2>6 DEF multiStopVars
    <2> QED BY <1>2, <2>1, <2>2, <2>3, <2>4, <2>5, <2>6 DEF MultiStopNext
  <1> QED BY <1>1, <1>2, PTL DEF MultiStopSpec

\* The source stops with the last of the tokens that it was given in time
\* (MultiStopSource.cpp:42-56), whatever runs between a token's stop and the
\* source's callback.
THEOREM SourceStopsWithLast == MultiStopSpec => []StopsWithLast
  BY MultiStopInvariant, PTL DEF MultiStopInv

-----------------------------------------------------------------------------
(* RestApis, for any number of checks and addresses *)

\* The values of the variables.
RestApisTypeOK ==
  /\ cache \in [Ips -> Verdicts \cup {None}]
  /\ state \in [Checks -> {"new", "asked", "answered", "escaped"}]
  /\ ip \in [ProxyChecks -> Ips]
  /\ answer \in [Checks -> Verdicts \cup {"unknown", None}]
  /\ first \in [Ips -> Verdicts \cup {None}]
  /\ late \subseteq ProxyChecks

\* What they were late for is not None, so that no verdict comes after it.
LateJudged == \A c \in late : first[ip[c]] # None

RestApisInv == RestApisTypeOK /\ LateJudged /\ AnswersStay

\* The invariant holds in every state.
LEMMA RestApisInvariant ==
  ASSUME ChecksAssumption PROVE RestApisSpec => []RestApisInv
<1> USE DEF ChecksAssumption, RestApisInv, RestApisTypeOK, LateJudged, AnswersStay, Verdicts
<1>1. RestApisInit => RestApisInv
  BY DEF RestApisInit
<1>2. ASSUME RestApisInv, [RestApisNext]_apiVars PROVE RestApisInv'
  <2>1. ASSUME NEW c \in Checks, ProxyCheck(c) PROVE RestApisInv'
    BY <1>2, <2>1 DEF ProxyCheck, cachedResult, Ask, Answer
  <2>2. ASSUME NEW c \in Checks, CaptchaCheck(c) PROVE RestApisInv'
    BY <1>2, <2>2 DEF CaptchaCheck, Ask
  <2>3. ASSUME NEW c \in Checks, NEW res \in Results, ProxyResult(c, res) PROVE RestApisInv'
    <3>1. state[c] = "asked" /\ c \in ProxyChecks /\ c \notin late /\ ip[c] \in Ips
      BY <1>2, <2>3 DEF ProxyResult
    <3>2. CASE res \in Verdicts /\ Emplace(ip[c], res) /\ Answer(c, res)
      BY <1>2, <2>3, <3>1, <3>2 DEF ProxyResult, Emplace, Answer
    <3>3. CASE Answer(c, "unknown") /\ UNCHANGED cache
      BY <1>2, <2>3, <3>1, <3>3 DEF ProxyResult, Answer
    <3>4. CASE Escape(c) /\ UNCHANGED cache
      BY <1>2, <2>3, <3>1, <3>4 DEF ProxyResult, Escape
    <3> QED BY <2>3, <3>2, <3>3, <3>4 DEF ProxyResult
  <2>4. ASSUME NEW c \in Checks, NEW res \in Results, CaptchaResult(c, res) PROVE RestApisInv'
    BY <1>2, <2>4 DEF CaptchaResult, Captcha, Answer, Results
  <2>5. ASSUME NEW c \in Checks, NEW res \in Results, Captcha3Result(c, res) PROVE RestApisInv'
    BY <1>2, <2>5 DEF Captcha3Result, Answer, Escape, Results
  <2>6. CASE UNCHANGED apiVars
    BY <1>2, <2>6 DEF apiVars
  <2> QED BY <1>2, <2>1, <2>2, <2>3, <2>4, <2>5, <2>6 DEF RestApisNext
<1> QED BY <1>1, <1>2, PTL DEF RestApisSpec

\* A check that is made when its address has been judged is answered at once,
\* with the verdict that the first answered check of the address got, however
\* many ran at the same time (ProxycheckioRestApi.cpp:33-82).
THEOREM VerdictsStay ==
  ASSUME ChecksAssumption PROVE RestApisSpec => []AnswersStay
<1>1. RestApisSpec => []RestApisInv
  BY RestApisInvariant
<1> QED BY <1>1, PTL DEF RestApisInv

-----------------------------------------------------------------------------
(* Bucket, for any rates and periods and any sequence of calls *)

\* The values of the variables.
BucketTypeOK ==
  /\ rate \in Nat /\ per \in Nat \ {0}
  /\ allowance \in Int
  /\ lastCheck \in 0..clock /\ since \in 0..clock
  /\ clock \in Nat /\ spent \in Nat

PerSecond(r, p) == r * (Scale \div p)
Full(r) == r * Scale
Positive(a) == IF a > 0 THEN a ELSE 0

\* What a bucket holds that held al when it was checked x seconds ago.
Held(al, x, r, p) == Lower(al + x * PerSecond(r, p), Full(r))

\* What was spent and what could be spent now are within the budget together.
BudgetLeft ==
  spent * Scale + Positive(Held(allowance, clock - lastCheck, rate, per))
    <= Full(rate) + (clock - since) * PerSecond(rate, per)

BucketInv == BucketTypeOK /\ BudgetLeft

(* Arithmetic *)

\* Products of natural numbers are natural numbers.
LEMMA NatProduct ==
  ASSUME NEW a \in Nat, NEW b \in Nat PROVE a * b \in Nat
  OBVIOUS

\* So are quotients.
LEMMA Quotient ==
  ASSUME NEW a \in Nat, NEW b \in Nat \ {0} PROVE a \div b \in Nat
  OBVIOUS

\* A second more adds once what a second adds.
LEMMA OneMore ==
  ASSUME NEW a \in Int, NEW b \in Int PROVE (a + 1) * b = a * b + b
  OBVIOUS

\* Multiplication distributes over addition.
LEMMA Distributes ==
  ASSUME NEW a \in Int, NEW b \in Int, NEW c \in Int PROVE (a + b) * c = a * c + b * c
  OBVIOUS

\* Multiplication is associative, which the code's expression needs.
LEMMA Associates ==
  ASSUME NEW a \in Int, NEW b \in Int, NEW c \in Int PROVE a * b * c = a * (b * c)
  OBVIOUS

\* What a second adds and what fits are natural numbers.
LEMMA Settings ==
  ASSUME BucketAssumption, NEW r \in Nat, NEW p \in Nat \ {0}
  PROVE  PerSecond(r, p) \in Nat /\ Full(r) \in Nat
<1>1. Scale \in Nat /\ Scale \div p \in Nat
  BY Quotient DEF BucketAssumption
<1> QED BY <1>1, NatProduct DEF PerSecond, Full

\* A bucket never holds more than fits.
LEMMA HeldFits ==
  ASSUME BucketAssumption, NEW r \in Nat, NEW p \in Nat \ {0}, NEW al \in Int, NEW x \in Nat
  PROVE  Held(al, x, r, p) \in Int /\ Held(al, x, r, p) <= Full(r)
<1>1. x * PerSecond(r, p) \in Nat /\ Full(r) \in Nat
  BY Settings, NatProduct
<1> QED BY <1>1 DEF Held, Lower

\* The code's expression.
LEMMA Expressed ==
  ASSUME BucketAssumption, NEW r \in Nat, NEW p \in Nat \ {0}, NEW al \in Int, NEW x \in Int
  PROVE  Lower(al + x * r * (Scale \div p), r * Scale) = Held(al, x, r, p)
<1>1. Scale \div p \in Nat
  BY Quotient DEF BucketAssumption
<1>2. x * r * (Scale \div p) = x * PerSecond(r, p)
  BY <1>1, Associates DEF PerSecond
<1> QED BY <1>2 DEF Held, Full

-----------------------------------------------------------------------------
(* The actions *)

\* Whatever a bucket holds when one begins to look, it is not more than full.
LEMMA Begins ==
  ASSUME BucketAssumption, NEW r \in Nat, NEW p \in Nat \ {0}, NEW al \in Int, NEW x \in Nat,
         NEW c \in Nat
  PROVE  0 * Scale + Positive(Held(al, x, r, p)) <= Full(r) + (c - c) * PerSecond(r, p)
<1>1. /\ Held(al, x, r, p) \in Int /\ Held(al, x, r, p) <= Full(r)
      /\ PerSecond(r, p) \in Nat /\ Full(r) \in Nat
  BY Settings, HeldFits
<1>2. 0 * Scale = 0 /\ (c - c) * PerSecond(r, p) = 0
  <2>1. Scale \in Nat
    BY DEF BucketAssumption
  <2> QED BY <2>1, <1>1
<1> QED BY <1>1, <1>2 DEF Positive

\* The constructor's bucket is within its budget.
LEMMA InitInv == ASSUME BucketAssumption, BucketInit PROVE BucketInv
<1>1. BucketTypeOK
  BY NatProduct DEF BucketAssumption, BucketInit, BucketTypeOK
<1>2. clock - lastCheck \in Nat /\ since = clock /\ spent = 0
  BY <1>1 DEF BucketInit, BucketTypeOK
<1> QED BY <1>1, <1>2, Begins DEF BucketInv, BucketTypeOK, BudgetLeft

\* A second adds what it adds to the budget, at most.
LEMMA TickKeeps == ASSUME BucketAssumption, BucketInv, Tick PROVE BucketInv'
<1>1. BucketTypeOK'
  BY DEF BucketInv, BucketTypeOK, Tick, settings, balance, observed
<1>2. /\ rate' = rate /\ per' = per /\ allowance' = allowance /\ lastCheck' = lastCheck
      /\ since' = since /\ spent' = spent /\ clock' = clock + 1
  BY DEF Tick, settings, balance, observed
<1> DEFINE G == PerSecond(rate, per)
           x == clock - lastCheck
           y == clock - since
<1>3. /\ G \in Nat /\ Full(rate) \in Nat /\ x \in Nat /\ y \in Nat /\ allowance \in Int
      /\ spent \in Nat
  BY Settings DEF BucketInv, BucketTypeOK
<1>4. clock' - lastCheck' = x + 1 /\ clock' - since' = y + 1
  BY <1>2, <1>3 DEF BucketInv, BucketTypeOK
<1>5. x * G \in Nat /\ (x + 1) * G = x * G + G /\ (y + 1) * G = y * G + G
  BY <1>3, NatProduct, OneMore
<1>6. Positive(Held(allowance, x + 1, rate, per)) <= Positive(Held(allowance, x, rate, per)) + G
  <2> HIDE DEF G, x, y
  <2>1. /\ Held(allowance, x + 1, rate, per) = Lower(allowance + (x * G + G), Full(rate))
        /\ Held(allowance, x, rate, per) = Lower(allowance + x * G, Full(rate))
    BY <1>5 DEF Held, G
  <2> QED BY <2>1, <1>3, <1>5 DEF Positive, Lower
<1>7. spent * Scale + Positive(Held(allowance, x, rate, per)) <= Full(rate) + y * G
  BY DEF BucketInv, BudgetLeft
<1>8. /\ Positive(Held(allowance, x, rate, per)) \in Int
      /\ Positive(Held(allowance, x + 1, rate, per)) \in Int
      /\ spent * Scale \in Int /\ y * G \in Int
  <2>1. Scale \in Nat
    BY DEF BucketAssumption
  <2>2. rate \in Nat /\ per \in Nat \ {0} /\ x + 1 \in Nat
    BY <1>3 DEF BucketInv, BucketTypeOK
  <2>3. /\ Held(allowance, x, rate, per) \in Int
        /\ Held(allowance, x + 1, rate, per) \in Int
    BY <2>2, <1>3, HeldFits
  <2>4. spent * Scale \in Int /\ y * G \in Int
    BY <2>1, <1>3, NatProduct
  <2> QED BY <2>3, <2>4 DEF Positive
<1>9. spent * Scale + Positive(Held(allowance, x + 1, rate, per)) <= Full(rate) + (y * G + G)
  <2> HIDE DEF G, x, y
  <2> QED BY <1>3, <1>6, <1>7, <1>8
<1>10. BudgetLeft'
  BY <1>2, <1>4, <1>5, <1>9 DEF BudgetLeft
<1> QED BY <1>1, <1>10 DEF BucketInv

\* The settings may change as long as nobody looks.
LEMMA BucketSetKeeps ==
  ASSUME BucketAssumption, BucketInv, NEW r \in Rates, NEW p \in Pers \cup {0},
         set(r, p) \/ \E a \in Rates : setAllowance(r, p, a)
  PROVE  BucketInv'
<1>1. /\ rate' \in Nat /\ per' \in Nat \ {0} /\ since' = clock /\ spent' = 0 /\ clock' = clock
      /\ lastCheck' = lastCheck \/ lastCheck' = clock
  BY DEF BucketAssumption, BucketInv, BucketTypeOK, set, setAllowance
<1>2. allowance' \in Int
  <2>1. CASE set(r, p)
    <3>1. clock - lastCheck \in Nat /\ allowance \in Int
      BY DEF BucketInv, BucketTypeOK
    <3> DEFINE x == clock - lastCheck
    <3>2. allowance' = Lower(allowance + x * rate' * (Scale \div per'), rate' * Scale)
      BY <2>1 DEF set, AllowanceNow, Earned
    <3>3. x \in Int /\ x \in Nat
      BY <3>1
    <3> HIDE DEF x
    <3>4. allowance' = Held(allowance, x, rate', per')
      BY <1>1, <3>1, <3>3, <3>2, Expressed, Zenon
    <3> QED BY <1>1, <3>1, <3>4, HeldFits DEF x
  <2>2. CASE \E a \in Rates : setAllowance(r, p, a)
    BY <2>2, NatProduct DEF BucketAssumption, setAllowance
  <2> QED BY <2>1, <2>2
<1>3. BucketTypeOK'
  BY <1>1, <1>2 DEF BucketInv, BucketTypeOK
<1>4. clock' - lastCheck' \in Nat /\ clock' \in Nat
  <2>1. clock - lastCheck \in Nat /\ clock - clock \in Nat /\ clock \in Nat
    BY DEF BucketInv, BucketTypeOK
  <2> QED BY <1>1, <2>1
<1>5. BudgetLeft'
  BY <1>1, <1>2, <1>4, Begins DEF BudgetLeft
<1> QED BY <1>3, <1>5 DEF BucketInv

\* An observer begins with nothing spent.
LEMMA ObserveKeeps == ASSUME BucketAssumption, BucketInv, Observe PROVE BucketInv'
<1>1. BucketTypeOK'
  BY DEF BucketInv, BucketTypeOK, Observe, settings, balance
<1>2. /\ rate' = rate /\ per' = per /\ allowance' = allowance /\ lastCheck' = lastCheck
      /\ since' = clock /\ spent' = 0 /\ clock' = clock
  BY DEF Observe, settings, balance
<1>3. clock - lastCheck \in Nat
  BY DEF BucketInv, BucketTypeOK
<1> QED BY <1>1, <1>2, <1>3, Begins DEF BucketInv, BucketTypeOK, BudgetLeft

\* What is spent is taken from what could be spent, and no punishment adds to it.
LEMMA SpendKeeps ==
  ASSUME BucketAssumption, BucketInv, NEW count \in Rates, NEW ptype \in Punishments,
         spend(count, ptype)
  PROVE  BucketInv'
<1> DEFINE now == AllowanceNow(rate, per)
           cost == count * Scale
<1>1. /\ rate' = rate /\ per' = per /\ lastCheck' = clock /\ since' = since /\ clock' = clock
  BY DEF spend, settings
<1>2. /\ rate \in Nat /\ per \in Nat \ {0} /\ allowance \in Int /\ clock - lastCheck \in Nat
      /\ clock \in Nat /\ spent \in Nat /\ since \in 0..clock
  BY DEF BucketInv, BucketTypeOK
<1>3. Scale \in Nat /\ count \in Nat /\ cost \in Nat
  BY NatProduct DEF BucketAssumption
<1>4. now = Held(allowance, clock - lastCheck, rate, per) /\ now \in Int /\ now <= Full(rate)
  <2> DEFINE x == clock - lastCheck
  <2>1. now = Lower(allowance + x * rate * (Scale \div per), rate * Scale)
    BY DEF AllowanceNow, Earned
  <2>2. x \in Int /\ x \in Nat
    BY <1>2
  <2> HIDE DEF x
  <2>3. now = Held(allowance, x, rate, per)
    BY <1>2, <2>1, <2>2, Expressed, Zenon
  <2> QED BY <1>2, <2>2, <2>3, HeldFits DEF x
<1>5. Full(rate) \in Nat /\ PerSecond(rate, per) \in Nat /\ 2 * rate * Scale \in Nat
  BY <1>2, <1>3, Settings, NatProduct
<1> HIDE DEF now, cost
<1>6. /\ allowance' \in Int /\ allowance' <= Full(rate) /\ spent' \in Nat
      /\ spent' * Scale + Positive(allowance') <= spent * Scale + Positive(now)
  <2>1. CASE now >= cost
    <3>1. allowance' = now - cost /\ spent' = spent + count
      BY <2>1 DEF spend, now, cost
    <3>2. spent' * Scale = spent * Scale + cost /\ spent * Scale \in Nat
      BY <3>1, <1>2, <1>3, Distributes, NatProduct DEF cost
    <3> QED BY <3>1, <3>2, <2>1, <1>2, <1>3, <1>4, <1>5 DEF Positive
  <2>2. CASE ~(now >= cost)
    <3>1. allowance' = Punished(now, count, ptype) /\ spent' = spent
      BY <2>2 DEF spend, now, cost
    <3>2. Lower(cost - now, 2 * rate * Scale) \in Nat
      BY <2>2, <1>3, <1>4, <1>5 DEF Lower
    <3>3. \/ allowance' = now \/ allowance' = 0
          \/ allowance' = -Lower(cost - now, 2 * rate * Scale)
      BY <3>1 DEF Punished, Punishments, cost
    <3>4. /\ allowance' \in Int /\ allowance' <= Full(rate)
          /\ Positive(allowance') <= Positive(now) /\ Positive(allowance') \in Int
      BY <3>2, <3>3, <1>4, <1>5 DEF Positive
    <3>5. spent * Scale \in Nat /\ Positive(now) \in Int
      BY <1>2, <1>3, <1>4, NatProduct DEF Positive
    <3> QED BY <3>1, <3>4, <3>5, <1>2
  <2> QED BY <2>1, <2>2
<1>7. Held(allowance', 0, rate, per) = allowance'
  BY <1>5, <1>6 DEF Held, Lower
<1>8. BucketTypeOK'
  BY <1>1, <1>2, <1>6 DEF BucketTypeOK
<1>9. spent * Scale + Positive(now) <= Full(rate) + (clock - since) * PerSecond(rate, per)
  BY <1>4 DEF BucketInv, BudgetLeft
<1>10. /\ spent * Scale \in Nat /\ spent' * Scale \in Nat /\ Positive(now) \in Int
       /\ Positive(allowance') \in Int /\ (clock - since) * PerSecond(rate, per) \in Nat
  <2>1. clock - since \in Nat
    BY <1>2
  <2>2. /\ spent * Scale \in Nat /\ spent' * Scale \in Nat
        /\ (clock - since) * PerSecond(rate, per) \in Nat
    BY <2>1, <1>2, <1>3, <1>5, <1>6, NatProduct
  <2> QED BY <2>2, <1>4, <1>6 DEF Positive
<1>11. clock' - lastCheck' = 0
  BY <1>1, <1>2
<1>12. spent' * Scale + Positive(allowance')
         <= Full(rate) + (clock - since) * PerSecond(rate, per)
  BY <1>5, <1>6, <1>9, <1>10
<1>13. BudgetLeft'
  BY <1>1, <1>7, <1>11, <1>12 DEF BudgetLeft
<1> QED BY <1>8, <1>13 DEF BucketInv

-----------------------------------------------------------------------------
\* The invariant holds in every state.
LEMMA BucketInvariant == ASSUME BucketAssumption PROVE BucketSpec => []BucketInv
<1>1. BucketInit => BucketInv
  BY InitInv
<1>2. BucketInv /\ [BucketNext]_limiterVars => BucketInv'
  <2> SUFFICES ASSUME BucketInv, [BucketNext]_limiterVars PROVE BucketInv'
    OBVIOUS
  <2>1. CASE UNCHANGED limiterVars
    BY <2>1 DEF limiterVars, settings, balance, observed, BucketInv, BucketTypeOK, BudgetLeft
  <2> QED BY <2>1, TickKeeps, ObserveKeeps, BucketSetKeeps, SpendKeeps DEF BucketNext
<1> QED BY <1>1, <1>2, PTL DEF BucketSpec

\* From any moment on, no more is spent than one full bucket and what the time
\* since then adds, for any rates, periods and punishments, and whatever the
\* settings were before (Bucket.cpp:29-52, 62-76).
THEOREM NoMoreThanRate == ASSUME BucketAssumption PROVE BucketSpec => []WithinBudget
<1>1. BucketInv => WithinBudget
  <2> SUFFICES ASSUME BucketInv PROVE WithinBudget
    OBVIOUS
  <2>1. /\ rate \in Nat /\ per \in Nat \ {0} /\ allowance \in Int /\ clock - lastCheck \in Nat
        /\ clock - since \in Nat /\ spent \in Nat /\ Scale \in Nat
    BY DEF BucketInv, BucketTypeOK, BucketAssumption
  <2>2. /\ Positive(Held(allowance, clock - lastCheck, rate, per)) \in Nat
        /\ spent * Scale \in Nat /\ Full(rate) \in Nat /\ Scale \div per \in Nat
    <3>1. Held(allowance, clock - lastCheck, rate, per) \in Int
      BY <2>1, HeldFits
    <3>2. spent * Scale \in Nat /\ Full(rate) \in Nat /\ Scale \div per \in Nat
      BY <2>1, Settings, NatProduct, Quotient
    <3> QED BY <3>1, <3>2 DEF Positive
  <2>3. (clock - since) * PerSecond(rate, per) = (clock - since) * rate * (Scale \div per)
        /\ (clock - since) * PerSecond(rate, per) \in Nat
    BY <2>1, <2>2, Associates, Settings, NatProduct DEF PerSecond
  <2>4. spent * Scale <= Full(rate) + (clock - since) * PerSecond(rate, per)
    BY <2>2, <2>3 DEF BucketInv, BudgetLeft
  <2> QED BY <2>3, <2>4 DEF WithinBudget, Full
<1>2. BucketSpec => []BucketInv
  BY BucketInvariant
<1> QED BY <1>1, <1>2, PTL

-----------------------------------------------------------------------------
(* PropertyReader, for any characters, keys and values: sequences *)

\* What holds of the empty sequence, and of a longer one if of the shorter,
\* holds of all.
LEMMA SequenceInduction ==
  ASSUME NEW C, NEW T, <<>> \in T, \A s \in Seq(C) : s \in T => \A c \in C : Append(s, c) \in T
  PROVE  \A s \in Seq(C) : s \in T
<1> SUFFICES ASSUME NEW s \in Seq(C) PROVE s \in T
  OBVIOUS
<1> DEFINE U == {i \in 0..Len(s) : SubSeq(s, 1, i) \in T}
<1>1. Len(s) \in Nat /\ DOMAIN s = 1..Len(s)
  OBVIOUS
<1>2. 0 \in U
  <2>1. SubSeq(s, 1, 0) = <<>>
    OBVIOUS
  <2>2. SubSeq(s, 1, 0) \in T
    BY <2>1, Zenon
  <2>3. 0 \in 0..Len(s)
    BY <1>1
  <2> QED BY <2>2, <2>3
<1>3. ASSUME NEW i \in 1..Len(s), i - 1 \in U PROVE i \in U
  <2>1. SubSeq(s, 1, i - 1) \in Seq(C) /\ s[i] \in C
    OBVIOUS
  <2>2. SubSeq(s, 1, i) = Append(SubSeq(s, 1, i - 1), s[i])
    OBVIOUS
  <2>3. SubSeq(s, 1, i - 1) \in T
    BY <1>3
  <2>4. SubSeq(s, 1, i) \in T
    BY <2>1, <2>2, <2>3
  <2> QED BY <1>1, <2>4
<1> HIDE DEF U
<1>4. \A i \in 0..Len(s) : i \in U
  BY <1>1, <1>2, <1>3, Induction
<1>5. Len(s) \in U
  BY <1>1, <1>4
<1>6. SubSeq(s, 1, Len(s)) = s
  OBVIOUS
<1> QED BY <1>5, <1>6 DEF U

\* A loop whose turns are a function of the element and of what was before.
IsFold(f, F, b, seq) == f = [i \in 0..Len(seq) |-> IF i = 0 THEN b ELSE F[seq[i]][f[i - 1]]]

Fold(F, b, seq) == (CHOOSE f : IsFold(f, F, b, seq))[Len(seq)]

Stays(F, C, X) == \A c \in C : \A x \in X : F[c][x] \in X

LEMMA FoldExists ==
  ASSUME NEW C, NEW X, NEW F, NEW b \in X, NEW seq \in Seq(C), Stays(F, C, X)
  PROVE  \E f : IsFold(f, F, b, seq) /\ \A i \in 0..Len(seq) : f[i] \in X
<1> DEFINE n == Len(seq)
           S == [i \in 0..n |-> X]
           G == [i \in 1..n |-> F[seq[i]]]
<1>1. n \in Nat /\ \A i \in 1..n : seq[i] \in C
  OBVIOUS
<1>2. \A i \in 0..n : S[i] = X
  OBVIOUS
<1>3. \A i \in 1..n : G[i] = F[seq[i]]
  OBVIOUS
<1>4. \A i \in 1..n : i \in 0..n /\ i - 1 \in 0..n
  BY <1>1
<1> HIDE DEF S, G
<1>5. \A i \in 1..n : \A x \in S[i - 1] : G[i][x] \in S[i]
  BY <1>1, <1>2, <1>3, <1>4 DEF Stays
<1>6. b \in S[0]
  BY <1>1, <1>2
<1>7. PICK f : IsLoop(f, n, b, G) /\ \A i \in 0..n : f[i] \in S[i]
  BY <1>1, <1>5, <1>6, LoopExists
<1>8. IsFold(f, F, b, seq)
  <2>1. f = [i \in 0..n |-> IF i = 0 THEN b ELSE G[i][f[i - 1]]]
    BY <1>7 DEF IsLoop
  <2>2. \A i \in 0..n : i # 0 => i \in 1..n
    BY <1>1
  <2>3. [i \in 0..n |-> IF i = 0 THEN b ELSE G[i][f[i - 1]]]
        = [i \in 0..n |-> IF i = 0 THEN b ELSE F[seq[i]][f[i - 1]]]
    BY <1>3, <2>2
  <2> QED BY <2>1, <2>3 DEF IsFold
<1> QED BY <1>2, <1>7, <1>8

\* The values of g begin and go on as those of the loop f do.
GoesAs(g, f, F, b, seq) ==
  g[0] = b /\ \A i \in 1..Len(seq) : g[i - 1] = f[i - 1] => g[i] = F[seq[i]][g[i - 1]]

LEMMA FoldUnique ==
  ASSUME NEW C, NEW seq \in Seq(C), NEW F, NEW b, NEW f, IsFold(f, F, b, seq),
         NEW g, GoesAs(g, f, F, b, seq)
  PROVE  g[Len(seq)] = f[Len(seq)]
<1> DEFINE n == Len(seq)
           S == [i \in 0..n |-> {f[i]}]
<1>1. n \in Nat /\ \A i \in 0..n : S[i] = {f[i]}
  OBVIOUS
<1>2. \A i \in 1..n : i \in 0..n /\ i - 1 \in 0..n /\ i # 0
  BY <1>1
<1>3. \A i \in 0..n : f[i] = IF i = 0 THEN b ELSE F[seq[i]][f[i - 1]]
  BY DEF IsFold
<1> HIDE DEF S
<1>4. g[0] \in S[0]
  BY <1>1, <1>3 DEF GoesAs
<1>5. \A i \in 1..n : g[i - 1] \in S[i - 1] => g[i] \in S[i]
  BY <1>1, <1>2, <1>3 DEF GoesAs
<1>6. g[n] \in S[n]
  BY <1>1, <1>4, <1>5, LoopKeeps
<1> QED BY <1>1, <1>6

LEMMA FoldIs ==
  ASSUME NEW C, NEW seq \in Seq(C), NEW F, NEW b, NEW f, IsFold(f, F, b, seq)
  PROVE  f[Len(seq)] = Fold(F, b, seq)
<1> DEFINE g == CHOOSE h : IsFold(h, F, b, seq)
<1>1. IsFold(g, F, b, seq)
  OBVIOUS
<1>2. Fold(F, b, seq) = g[Len(seq)]
  BY DEF Fold
<1> HIDE DEF g
<1>3. g[0] = b /\ \A i \in 1..Len(seq) : g[i] = F[seq[i]][g[i - 1]]
  <2>1. Len(seq) \in Nat
    OBVIOUS
  <2>2. \A i \in 0..Len(seq) : g[i] = IF i = 0 THEN b ELSE F[seq[i]][g[i - 1]]
    BY <1>1 DEF IsFold
  <2>3. \A i \in 1..Len(seq) : i \in 0..Len(seq) /\ i # 0
    BY <2>1
  <2> QED BY <2>1, <2>2, <2>3
<1>4. GoesAs(g, f, F, b, seq)
  BY <1>3 DEF GoesAs
<1>5. g[Len(seq)] = f[Len(seq)]
  BY <1>4, FoldUnique
<1> QED BY <1>2, <1>5

\* What a loop gives for no elements, and for one more.
LEMMA FoldEmpty ==
  ASSUME NEW C, NEW X, NEW F, NEW b \in X, NEW seq \in Seq(C), Len(seq) = 0, Stays(F, C, X)
  PROVE  Fold(F, b, seq) = b
<1>1. PICK f : IsFold(f, F, b, seq)
  BY FoldExists
<1>2. f[0] = b
  BY <1>1 DEF IsFold
<1>3. f[Len(seq)] = Fold(F, b, seq)
  BY <1>1, FoldIs
<1> QED BY <1>2, <1>3

LEMMA FoldAppend ==
  ASSUME NEW C, NEW X, NEW F, NEW b \in X, NEW seq \in Seq(C), NEW c \in C, Stays(F, C, X)
  PROVE  Fold(F, b, Append(seq, c)) = F[c][Fold(F, b, seq)] /\ Fold(F, b, seq) \in X
<1> DEFINE n == Len(seq)
           longer == Append(seq, c)
<1>1. longer \in Seq(C) /\ Len(longer) = n + 1 /\ longer[n + 1] = c /\ n \in Nat
  OBVIOUS
<1>2. \A i \in 1..n : longer[i] = seq[i]
  OBVIOUS
<1> HIDE DEF longer
<1>3. PICK f : IsFold(f, F, b, longer) /\ \A i \in 0..Len(longer) : f[i] \in X
  BY <1>1, FoldExists
<1> DEFINE g == [i \in 0..n |-> f[i]]
<1>4. \A i \in 0..n : g[i] = f[i]
  OBVIOUS
<1>5. \A i \in 0..(n + 1) : f[i] = IF i = 0 THEN b ELSE F[longer[i]][f[i - 1]]
  BY <1>1, <1>3 DEF IsFold
<1>6. IsFold(g, F, b, seq)
  <2>1. ASSUME NEW i \in 0..n PROVE f[i] = IF i = 0 THEN b ELSE F[seq[i]][g[i - 1]]
    <3>1. CASE i = 0
      BY <1>1, <1>5, <3>1
    <3>2. CASE i # 0
      <4>1. i \in 1..n /\ i - 1 \in 0..n /\ i \in 0..(n + 1)
        BY <1>1, <3>2
      <4>2. f[i] = F[longer[i]][f[i - 1]]
        BY <1>5, <3>2, <4>1
      <4> QED BY <1>2, <1>4, <3>2, <4>1, <4>2
    <3> QED BY <3>1, <3>2
  <2>2. [i \in 0..n |-> f[i]] = [i \in 0..n |-> IF i = 0 THEN b ELSE F[seq[i]][g[i - 1]]]
    <3> HIDE DEF g
    <3> QED BY <2>1
  <2>3. g = [i \in 0..n |-> IF i = 0 THEN b ELSE F[seq[i]][g[i - 1]]]
    BY <2>2
  <2> HIDE DEF g
  <2> QED BY <2>3 DEF IsFold
<1> HIDE DEF g
<1>7. f[n + 1] = F[c][f[n]]
  <2>1. n + 1 \in 0..(n + 1) /\ n + 1 # 0 /\ n + 1 - 1 = n
    BY <1>1
  <2> QED BY <1>1, <1>5, <2>1
<1>8. f[n] = g[n] /\ f[n] \in X
  BY <1>1, <1>3, <1>4
<1>9. g[n] = Fold(F, b, seq)
  BY <1>6, FoldIs
<1>10. f[n + 1] = Fold(F, b, longer)
  BY <1>1, <1>3, FoldIs
<1> QED BY <1>7, <1>8, <1>9, <1>10 DEF longer

-----------------------------------------------------------------------------
(* parseSpecial() *)

Unescaped(str) == [str |-> str, escaped |-> FALSE]

Parsed(str) == Loop(ParseChar, Unescaped(<<>>), str)

ParseStates(C) == [str : Seq(C), escaped : BOOLEAN]

Parses(C) == [c \in C |-> [r \in ParseStates(C) |-> ParseChar(r, c)]]

LEMMA ParseStays ==
  ASSUME NEW C, Newline \in C
  PROVE  Stays(Parses(C), C, ParseStates(C)) /\ Unescaped(<<>>) \in ParseStates(C)
<1>1. ASSUME NEW c \in C, NEW r \in ParseStates(C) PROVE ParseChar(r, c) \in ParseStates(C)
  <2>1. r.str \in Seq(C) /\ r.escaped \in BOOLEAN
    BY DEF ParseStates
  <2>2. ASSUME NEW d \in C PROVE Append(r.str, d) \in Seq(C)
    BY <2>1
  <2>3. CASE r.escaped
    <3>1. (IF c = "n" THEN Newline ELSE c) \in C
      OBVIOUS
    <3> QED BY <2>2, <2>3, <3>1 DEF ParseChar, ParseStates
  <2>4. CASE ~r.escaped /\ c = Backslash
    BY <2>1, <2>4 DEF ParseChar, ParseStates
  <2>5. CASE ~r.escaped /\ c # Backslash
    BY <2>1, <2>2, <2>5 DEF ParseChar, ParseStates
  <2> QED BY <2>3, <2>4, <2>5
<1>2. Unescaped(<<>>) \in ParseStates(C)
  BY DEF ParseStates, Unescaped
<1> QED BY <1>1, <1>2 DEF Stays, Parses

LEMMA ParsedIsFold ==
  ASSUME NEW C, Newline \in C, NEW str \in Seq(C)
  PROVE  Parsed(str) = Fold(Parses(C), Unescaped(<<>>), str)
<1> DEFINE F == Parses(C)
           b == Unescaped(<<>>)
           n == Len(str)
           Is(g) == g = [i \in 0..n |-> IF i = 0 THEN b ELSE ParseChar(g[i - 1], str[i])]
           g == CHOOSE h : Is(h)
<1>1. n \in Nat /\ \A i \in 1..n : str[i] \in C /\ i \in 0..n /\ i - 1 \in 0..n /\ i # 0
  OBVIOUS
<1>2. Stays(F, C, ParseStates(C)) /\ b \in ParseStates(C)
  BY ParseStays
<1>3. Parsed(str) = g[n]
  BY DEF Parsed, Loop
<1>4. \A c \in C, r \in ParseStates(C) : F[c][r] = ParseChar(r, c)
  BY DEF Parses
<1> HIDE DEF F, b
<1>5. PICK f : IsFold(f, F, b, str) /\ \A i \in 0..n : f[i] \in ParseStates(C)
  BY <1>2, FoldExists
<1>6. \A i \in 1..n : F[str[i]][f[i - 1]] = ParseChar(f[i - 1], str[i])
  BY <1>1, <1>4, <1>5
<1>7. Is(f)
  <2>1. f = [i \in 0..n |-> IF i = 0 THEN b ELSE F[str[i]][f[i - 1]]]
    BY <1>5 DEF IsFold
  <2>2. \A i \in 0..n : i # 0 => i \in 1..n
    BY <1>1
  <2>3. [i \in 0..n |-> IF i = 0 THEN b ELSE F[str[i]][f[i - 1]]]
        = [i \in 0..n |-> IF i = 0 THEN b ELSE ParseChar(f[i - 1], str[i])]
    BY <1>6, <2>2
  <2> QED BY <2>1, <2>3
<1>8. Is(g)
  BY <1>7
<1> HIDE DEF g
<1>9. g[0] = b /\ \A i \in 1..n : g[i] = ParseChar(g[i - 1], str[i])
  <2>1. \A i \in 0..n : g[i] = IF i = 0 THEN b ELSE ParseChar(g[i - 1], str[i])
    BY <1>8
  <2>2. 0 \in 0..n
    BY <1>1
  <2> QED BY <1>1, <2>1, <2>2
<1>10. GoesAs(g, f, F, b, str)
  BY <1>6, <1>9 DEF GoesAs
<1>11. g[n] = f[n] /\ f[n] = Fold(F, b, str)
  BY <1>5, <1>10, FoldUnique, FoldIs
<1> QED BY <1>3, <1>11 DEF F, b

\* What has been parsed after no character, and after one more.
LEMMA ParsedOne ==
  ASSUME NEW C, Newline \in C, NEW str \in Seq(C), NEW c \in C
  PROVE  Parsed(Append(str, c)) = ParseChar(Parsed(str), c) /\ Parsed(str) \in ParseStates(C)
<1> DEFINE F == Parses(C)
           b == Unescaped(<<>>)
           longer == Append(str, c)
<1>1. Stays(F, C, ParseStates(C)) /\ b \in ParseStates(C)
  BY ParseStays
<1>2. longer \in Seq(C)
  OBVIOUS
<1>3. Parsed(str) = Fold(F, b, str)
  BY ParsedIsFold
<1> HIDE DEF longer
<1>4. Parsed(longer) = Fold(F, b, longer)
  BY <1>2, ParsedIsFold
<1> HIDE DEF F, b
<1>5. Fold(F, b, Append(str, c)) = F[c][Fold(F, b, str)] /\ Fold(F, b, str) \in ParseStates(C)
  BY <1>1, FoldAppend
<1>6. \A r \in ParseStates(C) : F[c][r] = ParseChar(r, c)
  BY DEF F, Parses
<1> QED BY <1>3, <1>4, <1>5, <1>6 DEF longer

LEMMA ParsedNone ==
  ASSUME NEW str, str = <<>>
  PROVE  Parsed(str) = Unescaped(<<>>)
<1> DEFINE C == {Newline}
           b == Unescaped(<<>>)
<1>1. str \in Seq(C) /\ Len(str) = 0 /\ Newline \in C
  OBVIOUS
<1> HIDE DEF C
<1>2. Parsed(str) = Fold(Parses(C), b, str)
  BY <1>1, ParsedIsFold
<1>3. Stays(Parses(C), C, ParseStates(C)) /\ b \in ParseStates(C)
  BY <1>1, ParseStays
<1> HIDE DEF b
<1>4. Fold(Parses(C), b, str) = b
  BY <1>1, <1>3, FoldEmpty
<1> QED BY <1>2, <1>4 DEF b

-----------------------------------------------------------------------------
(* serializeSpecial() *)

Escapes(C) == [c \in C |-> [str \in Seq(C \ {Newline}) |-> SerializeChar(str, c)]]

\* The characters that are written for one.
EscapeOf(c) ==
  CASE c = Newline   -> <<Backslash, "n">>
    [] c = Backslash -> <<Backslash, Backslash>>
    [] OTHER         -> <<c>>

LEMMA AppendTwo ==
  ASSUME NEW D, NEW d \in D, NEW e \in D
  PROVE  /\ <<d, e>> \in Seq(D)
         /\ \A w \in Seq(D) : w \o <<d, e>> = Append(Append(w, d), e)
OBVIOUS

LEMMA EscapeStays ==
  ASSUME NEW C, Backslash \in C, "n" \in C
  PROVE  Stays(Escapes(C), C, Seq(C \ {Newline})) /\ <<>> \in Seq(C \ {Newline})
<1>1. Backslash # Newline /\ "n" # Newline
  BY DEF Backslash, Newline
<1>2. ASSUME NEW c \in C PROVE EscapeOf(c) \in Seq(C \ {Newline})
  <2>1. CASE c = Newline
    <3>1. EscapeOf(c) = <<Backslash, "n">>
      BY <1>1, <2>1 DEF EscapeOf
    <3>2. Backslash \in C \ {Newline} /\ "n" \in C \ {Newline}
      BY <1>1
    <3> QED BY <3>1, <3>2, AppendTwo
  <2>2. CASE c = Backslash
    BY <1>1, <2>2 DEF EscapeOf
  <2>3. CASE c # Newline /\ c # Backslash
    BY <2>3 DEF EscapeOf
  <2> QED BY <2>1, <2>2, <2>3
<1>3. ASSUME NEW c \in C, NEW str \in Seq(C \ {Newline})
      PROVE  SerializeChar(str, c) \in Seq(C \ {Newline})
  <2>1. SerializeChar(str, c) = str \o EscapeOf(c)
    BY DEF SerializeChar, EscapeOf
  <2> QED BY <1>2, <2>1
<1> QED BY <1>3 DEF Stays, Escapes

LEMMA SerializedIsFold ==
  ASSUME NEW C, Backslash \in C, "n" \in C, NEW str \in Seq(C)
  PROVE  serializeSpecial(str) = Fold(Escapes(C), <<>>, str)
<1> DEFINE X == Seq(C \ {Newline})
           F == Escapes(C)
           b == <<>>
           n == Len(str)
           Is(g) == g = [i \in 0..n |-> IF i = 0 THEN b ELSE SerializeChar(g[i - 1], str[i])]
           g == CHOOSE h : Is(h)
<1>1. n \in Nat /\ \A i \in 1..n : str[i] \in C /\ i \in 0..n /\ i - 1 \in 0..n /\ i # 0
  OBVIOUS
<1>2. Stays(F, C, X) /\ b \in X
  BY EscapeStays
<1>3. serializeSpecial(str) = g[n]
  BY DEF serializeSpecial, Loop
<1>4. \A c \in C, r \in X : F[c][r] = SerializeChar(r, c)
  BY DEF Escapes
<1> HIDE DEF F, b, X
<1>5. PICK f : IsFold(f, F, b, str) /\ \A i \in 0..n : f[i] \in X
  BY <1>2, FoldExists
<1>6. \A i \in 1..n : F[str[i]][f[i - 1]] = SerializeChar(f[i - 1], str[i])
  BY <1>1, <1>4, <1>5
<1>7. Is(f)
  <2>1. f = [i \in 0..n |-> IF i = 0 THEN b ELSE F[str[i]][f[i - 1]]]
    BY <1>5 DEF IsFold
  <2>2. \A i \in 0..n : i # 0 => i \in 1..n
    BY <1>1
  <2>3. [i \in 0..n |-> IF i = 0 THEN b ELSE F[str[i]][f[i - 1]]]
        = [i \in 0..n |-> IF i = 0 THEN b ELSE SerializeChar(f[i - 1], str[i])]
    BY <1>6, <2>2
  <2> QED BY <2>1, <2>3
<1>8. Is(g)
  BY <1>7
<1> HIDE DEF g
<1>9. g[0] = b /\ \A i \in 1..n : g[i] = SerializeChar(g[i - 1], str[i])
  <2>1. \A i \in 0..n : g[i] = IF i = 0 THEN b ELSE SerializeChar(g[i - 1], str[i])
    BY <1>8
  <2>2. 0 \in 0..n
    BY <1>1
  <2> QED BY <1>1, <2>1, <2>2
<1>10. GoesAs(g, f, F, b, str)
  BY <1>6, <1>9 DEF GoesAs
<1>11. g[n] = f[n] /\ f[n] = Fold(F, b, str)
  BY <1>5, <1>10, FoldUnique, FoldIs
<1> QED BY <1>3, <1>11 DEF F, b

\* What is written of a text is written of its characters, without newlines.
LEMMA SerializedOne ==
  ASSUME NEW C, Backslash \in C, "n" \in C, NEW str \in Seq(C), NEW c \in C
  PROVE  /\ serializeSpecial(Append(str, c)) = serializeSpecial(str) \o EscapeOf(c)
         /\ serializeSpecial(str) \in Seq(C \ {Newline})
<1> DEFINE X == Seq(C \ {Newline})
           F == Escapes(C)
           b == <<>>
           longer == Append(str, c)
<1>1. Stays(F, C, X) /\ b \in X
  BY EscapeStays
<1>2. longer \in Seq(C)
  OBVIOUS
<1>3. serializeSpecial(str) = Fold(F, b, str)
  BY SerializedIsFold
<1> HIDE DEF longer
<1>4. serializeSpecial(longer) = Fold(F, b, longer)
  BY <1>2, SerializedIsFold
<1>5. \A r \in X : F[c][r] = SerializeChar(r, c)
  BY DEF F, Escapes
<1>6. \A r : SerializeChar(r, c) = r \o EscapeOf(c)
  BY DEF SerializeChar, EscapeOf
<1> HIDE DEF F, b
<1>7. Fold(F, b, Append(str, c)) = F[c][Fold(F, b, str)] /\ Fold(F, b, str) \in X
  <2> HIDE DEF X
  <2> QED BY <1>1, FoldAppend
<1> QED BY <1>3, <1>4, <1>5, <1>6, <1>7 DEF longer

LEMMA SerializedNone ==
  ASSUME NEW str, str = <<>>
  PROVE  serializeSpecial(str) = <<>>
<1> DEFINE C == {Backslash, "n"}
           b == <<>>
<1>1. str \in Seq(C) /\ Len(str) = 0 /\ Backslash \in C /\ "n" \in C
  OBVIOUS
<1> HIDE DEF C
<1>2. serializeSpecial(str) = Fold(Escapes(C), b, str)
  BY <1>1, SerializedIsFold
<1>3. Stays(Escapes(C), C, Seq(C \ {Newline})) /\ b \in Seq(C \ {Newline})
  BY <1>1, EscapeStays
<1> HIDE DEF b
<1>4. Fold(Escapes(C), b, str) = b
  BY <1>1, <1>3, FoldEmpty
<1> QED BY <1>2, <1>4 DEF b

LEMMA SerializedType ==
  ASSUME NEW C, Backslash \in C, "n" \in C, NEW str \in Seq(C)
  PROVE  serializeSpecial(str) \in Seq(C \ {Newline})
BY SerializedOne

\* What is written is read back.
LEMMA ParseUndoesSerialize ==
  ASSUME ReadersAssumption, NEW str \in Texts
  PROVE  Parsed(serializeSpecial(str)) = Unescaped(str)
<1> DEFINE T == {s \in Texts : Parsed(serializeSpecial(s)) = Unescaped(s)}
<1>1. Newline \in Chars /\ Backslash \in Chars /\ "n" \in Chars
  BY DEF ReadersAssumption
<1>2. Backslash # Newline /\ Backslash # "n"
  BY DEF Backslash, Newline
<1>3. <<>> \in T
  <2>1. PICK e : e = <<>>
    OBVIOUS
  <2>2. serializeSpecial(e) = e /\ Parsed(e) = Unescaped(e) /\ e \in Texts
    BY <2>1, SerializedNone, ParsedNone DEF Texts
  <2> HIDE DEF T
  <2>3. e \in T
    BY <2>2 DEF T
  <2> QED BY <2>1, <2>3
<1>4. ASSUME NEW s \in Seq(Chars), s \in T, NEW c \in Chars PROVE Append(s, c) \in T
  <2> DEFINE w == serializeSpecial(s)
  <2>1. w \in Seq(Chars)
    <3>1. w \in Seq(Chars \ {Newline})
      BY <1>1, SerializedType
    <3> QED BY <3>1
  <2>2. serializeSpecial(Append(s, c)) = w \o EscapeOf(c)
    BY <1>1, SerializedOne
  <2>3. Parsed(w) = [str |-> s, escaped |-> FALSE]
    BY <1>4 DEF Unescaped
  <2> HIDE DEF w
  <2>4. ASSUME NEW u \in Seq(Chars), NEW d \in Chars
        PROVE  Parsed(Append(u, d)) = ParseChar(Parsed(u), d)
    BY <1>1, ParsedOne
  <2>5. CASE c # Newline /\ c # Backslash
    <3>1. w \o EscapeOf(c) = Append(w, c)
      BY <2>1, <2>5 DEF EscapeOf
    <3>2. Parsed(Append(w, c)) = ParseChar([str |-> s, escaped |-> FALSE], c)
      BY <2>1, <2>3, <2>4
    <3>3. Parsed(Append(w, c)) = [str |-> Append(s, c), escaped |-> FALSE]
      BY <2>5, <3>2 DEF ParseChar
    <3>4. Parsed(serializeSpecial(Append(s, c))) = Unescaped(Append(s, c))
      BY <2>2, <3>1, <3>3 DEF Unescaped
    <3> QED BY <3>4 DEF Texts
  <2>6. ASSUME NEW d \in Chars, c = IF d = "n" THEN Newline ELSE d, EscapeOf(c) = <<Backslash, d>>
        PROVE  Append(s, c) \in T
    <3> DEFINE v == Append(w, Backslash)
    <3>1. w \o EscapeOf(c) = Append(v, d) /\ v \in Seq(Chars)
      <4>1. w \o <<Backslash, d>> = Append(Append(w, Backslash), d)
        BY <1>1, <2>1, AppendTwo
      <4>2. v \in Seq(Chars)
        BY <1>1, <2>1
      <4> HIDE DEF v
      <4> QED BY <2>6, <4>1, <4>2 DEF v
    <3>2. Parsed(v) = ParseChar([str |-> s, escaped |-> FALSE], Backslash)
      BY <1>1, <2>1, <2>3, <2>4
    <3>3. Parsed(v) = [str |-> s, escaped |-> TRUE]
      BY <3>2 DEF ParseChar
    <3> HIDE DEF v
    <3>4. Parsed(Append(v, d)) = ParseChar([str |-> s, escaped |-> TRUE], d)
      BY <2>4, <3>1, <3>3
    <3>5. Parsed(Append(v, d)) = [str |-> Append(s, c), escaped |-> FALSE]
      BY <2>6, <3>4 DEF ParseChar
    <3>6. Parsed(serializeSpecial(Append(s, c))) = Unescaped(Append(s, c))
      BY <2>2, <3>1, <3>5 DEF Unescaped
    <3> QED BY <3>6 DEF Texts
  <2>7. CASE c = Newline
    BY <1>1, <2>6, <2>7 DEF EscapeOf
  <2>8. CASE c = Backslash
    BY <1>1, <1>2, <2>6, <2>8 DEF EscapeOf
  <2> QED BY <2>5, <2>7, <2>8
<1> HIDE DEF T
<1>5. \A s \in Seq(Chars) : s \in T
  BY <1>3, <1>4, SequenceInduction
<1> QED BY <1>5 DEF T, Texts

-----------------------------------------------------------------------------
(* Lines *)

\* What an object may have: keys have no spaces.
Maps == UNION {[D -> Texts] : D \in {E \in SUBSET KeyTexts : IsFiniteSet(E)}}

LEMMA MapsPut ==
  ASSUME NEW p \in Maps, NEW k \in KeyTexts, NEW v \in Texts
  PROVE  Put(p, k, v) \in Maps
<1>1. PICK D \in SUBSET KeyTexts : IsFiniteSet(D) /\ p \in [D -> Texts]
  BY DEF Maps
<1>2. IsFiniteSet(D \cup {k})
  BY <1>1, FS_AddElement
<1>3. Put(p, k, v) \in [D \cup {k} -> Texts]
  BY <1>1 DEF Put
<1>4. D \cup {k} \in SUBSET KeyTexts
  OBVIOUS
<1> QED BY <1>2, <1>3, <1>4 DEF Maps

LEMMA MapsEmpty ==
  ASSUME NEW p, p = <<>>
  PROVE  p \in Maps /\ DOMAIN p = {}
<1>1. IsFiniteSet({})
  BY FS_EmptySet
<1>2. p \in [{} -> Texts] /\ DOMAIN p = {}
  OBVIOUS
<1> QED BY <1>1, <1>2 DEF Maps

\* The key ends where the first space is, if there is one.
LEMMA KeyEnds ==
  ASSUME NEW line \in Texts
  PROVE  \/ KeyLength(line) = -1 /\ \A m \in 1..Len(line) : line[m] # Space
         \/ /\ KeyLength(line) \in 0..(Len(line) - 1) /\ line[KeyLength(line) + 1] = Space
            /\ \A m \in 1..KeyLength(line) : line[m] # Space
<1> DEFINE I == {i \in 1..Len(line) : line[i] = Space}
<1>1. KeyLength(line) = (IF I # {} THEN Min(I) ELSE 0) - 1
  BY DEF KeyLength, SelectInSeq
<1>2. Len(line) \in Nat
  BY DEF Texts
<1>3. I \subseteq Nat /\ \A i \in I : i \in 1..Len(line) /\ line[i] = Space
  BY <1>2
<1>4. \A i \in 1..Len(line) : i \notin I => line[i] # Space
  OBVIOUS
<1> HIDE DEF I
<1>5. CASE I = {}
  BY <1>1, <1>4, <1>5
<1>6. CASE I # {}
  <2>1. \E x \in I : \A y \in I : x <= y
    BY <1>3, <1>6, Least
  <2>2. Min(I) \in I /\ \A y \in I : Min(I) <= y
    BY <2>1 DEF Min
  <2> DEFINE x == Min(I)
  <2>3. KeyLength(line) = x - 1
    BY <1>1, <1>6
  <2>4. x \in I /\ \A y \in I : x <= y
    BY <2>2
  <2> HIDE DEF x
  <2>5. x \in 1..Len(line) /\ line[x] = Space /\ (x - 1) + 1 = x
    BY <1>2, <1>3, <2>4
  <2>6. ASSUME NEW m \in 1..(x - 1) PROVE line[m] # Space
    <3>1. m \in 1..Len(line) /\ ~(x <= m)
      BY <1>2, <2>5
    <3> QED BY <1>4, <2>4, <3>1
  <2> QED BY <1>2, <2>3, <2>5, <2>6
<1> QED BY <1>5, <1>6

LEMMA ParsedType ==
  ASSUME NEW C, Newline \in C, NEW str \in Seq(C)
  PROVE  parseSpecial(str) \in Seq(C)
<1>1. Parsed(str) \in ParseStates(C)
  BY ParsedOne
<1>2. parseSpecial(str) = Parsed(str).str
  BY DEF parseSpecial, Parsed, Unescaped
<1> QED BY <1>1, <1>2 DEF ParseStates

LEMMA AssignKeeps ==
  ASSUME ReadersAssumption, NEW p \in Maps, NEW line \in Texts
  PROVE  Assign(p, line) \in Maps
<1> DEFINE n == KeyLength(line)
           rawKey == SubSeq(line, 1, n)
           rawValue == SubSeq(line, n + 2, Len(line))
<1>1. CASE n < 0
  BY <1>1 DEF Assign
<1>2. CASE ~(n < 0)
  <2>1. Len(line) \in Nat /\ \A m \in 1..Len(line) : line[m] \in Chars
    BY DEF Texts
  <2>2. n \in 0..(Len(line) - 1) /\ \A m \in 1..n : line[m] # Space
    BY <1>2, KeyEnds
  <2> HIDE DEF n
  <2>3. rawKey \in Seq(Chars \ {Space})
    <3>1. \A m \in 1..n : line[m] \in Chars \ {Space}
      BY <2>1, <2>2
    <3> QED BY <2>1, <2>2, <3>1
  <2>4. rawValue \in Seq(Chars)
    BY <2>1, <2>2 DEF Texts
  <2> HIDE DEF rawKey, rawValue
  <2>5. Newline \in Chars \ {Space} /\ Newline \in Chars
    BY DEF ReadersAssumption, Newline, Space
  <2>6. parseSpecial(rawKey) \in KeyTexts
    BY <2>3, <2>5, ParsedType DEF KeyTexts
  <2>7. parseSpecial(rawValue) \in Texts
    BY <2>4, <2>5, ParsedType DEF Texts
  <2>8. Assign(p, line) = Put(p, parseSpecial(rawKey), parseSpecial(rawValue))
    BY <1>2 DEF Assign, rawKey, rawValue, n
  <2> QED BY <2>6, <2>7, <2>8, MapsPut
<1> QED BY <1>1, <1>2

\* The line of a key and its value gives the key its value.
LEMMA AssignsLine ==
  ASSUME ReadersAssumption, NEW p, NEW k \in KeyTexts, NEW v \in Texts
  PROVE  Assign(p, serializeSpecial(k) \o <<Space>> \o serializeSpecial(v)) = Put(p, k, v)
<1> DEFINE sk == serializeSpecial(k)
           sv == serializeSpecial(v)
           line == sk \o <<Space>> \o sv
           n == KeyLength(line)
<1>1. Backslash \in Chars /\ "n" \in Chars /\ Space \in Chars /\ Newline \in Chars
  BY DEF ReadersAssumption
<1>2. Backslash # Space /\ "n" # Space
  BY DEF Backslash, Space
<1>3. k \in Seq(Chars \ {Space}) /\ k \in Texts
  BY DEF KeyTexts, Texts
<1>4. sk \in Seq((Chars \ {Space}) \ {Newline})
  BY <1>1, <1>2, <1>3, SerializedType
<1>5. sv \in Seq(Chars \ {Newline})
  BY <1>1, SerializedType DEF Texts
<1>6. Parsed(sk) = Unescaped(k) /\ Parsed(sv) = Unescaped(v)
  BY <1>3, ParseUndoesSerialize
<1> HIDE DEF sk, sv
<1>7. /\ Len(sk) \in Nat /\ \A m \in 1..Len(sk) : sk[m] # Space
      /\ sk \in Seq(Chars) /\ sv \in Seq(Chars) /\ Len(sv) \in Nat
  BY <1>4, <1>5
<1>8. /\ line \in Seq(Chars) /\ Len(line) = Len(sk) + 1 + Len(sv)
      /\ line[Len(sk) + 1] = Space /\ \A m \in 1..Len(sk) : line[m] = sk[m]
  BY <1>1, <1>7
<1>9. SubSeq(line, 1, Len(sk)) = sk
  BY <1>1, <1>7
<1>10. SubSeq(line, Len(sk) + 2, Len(line)) = sv
  BY <1>1, <1>7
<1>11. n = Len(sk)
  <2>1. \/ n = -1 /\ \A m \in 1..Len(line) : line[m] # Space
        \/ n \in 0..(Len(line) - 1) /\ line[n + 1] = Space /\ \A m \in 1..n : line[m] # Space
    BY <1>8, KeyEnds DEF Texts
  <2> HIDE DEF n, line
  <2>2. Len(sk) + 1 \in 1..Len(line)
    BY <1>7, <1>8
  <2>3. n \in 0..(Len(line) - 1) /\ line[n + 1] = Space /\ \A m \in 1..n : line[m] # Space
    BY <1>8, <2>1, <2>2
  <2>4. ~(Len(sk) + 1 <= n)
    BY <1>7, <1>8, <2>3
  <2>5. ~(n + 1 <= Len(sk))
    <3>1. CASE n + 1 \in 1..Len(sk)
      BY <1>7, <1>8, <2>3, <3>1
    <3> QED BY <1>7, <2>3, <3>1
  <2> QED BY <1>7, <1>8, <2>3, <2>4, <2>5
<1>12. Assign(p, line) = Put(p, parseSpecial(sk), parseSpecial(sv))
  <2>1. ~(n < 0)
    <3> HIDE DEF n
    <3> QED BY <1>7, <1>11
  <2>2. Assign(p, line) = Put(p, parseSpecial(SubSeq(line, 1, n)), parseSpecial(SubSeq(line, n + 2, Len(line))))
    BY <2>1 DEF Assign
  <2> HIDE DEF n, line
  <2> QED BY <1>9, <1>10, <1>11, <2>2
<1>13. parseSpecial(sk) = k /\ parseSpecial(sv) = v
  BY <1>6 DEF parseSpecial, Parsed, Unescaped
<1> QED BY <1>12, <1>13 DEF sk, sv

-----------------------------------------------------------------------------
(* Load() *)

Begun == [props |-> <<>>, line |-> <<>>]

Read(text) == Loop(ReadChar, Begun, text)

ReadStates == [props : Maps, line : Texts]

Reads == [c \in Chars |-> [r \in ReadStates |-> ReadChar(r, c)]]

LEMMA ReadStays ==
  ASSUME ReadersAssumption
  PROVE  Stays(Reads, Chars, ReadStates) /\ Begun \in ReadStates
<1>1. PICK e : e = <<>>
  OBVIOUS
<1>2. e \in Maps /\ e \in Texts
  BY <1>1, MapsEmpty DEF Texts
<1>3. ASSUME NEW c \in Chars, NEW r \in ReadStates PROVE ReadChar(r, c) \in ReadStates
  <2>1. r.props \in Maps /\ r.line \in Texts
    BY DEF ReadStates
  <2>2. Assign(r.props, r.line) \in Maps
    BY <2>1, AssignKeeps
  <2>3. Append(r.line, c) \in Texts
    BY <2>1 DEF Texts
  <2>4. CASE c = Newline
    <3>1. ReadChar(r, c) = [props |-> Assign(r.props, r.line), line |-> e]
      BY <1>1, <2>4 DEF ReadChar
    <3> QED BY <1>2, <2>2, <3>1 DEF ReadStates
  <2>5. CASE c # Newline
    <3>1. ReadChar(r, c) = [r EXCEPT !.line = Append(@, c)]
      BY <2>5 DEF ReadChar
    <3> QED BY <2>1, <2>3, <3>1 DEF ReadStates
  <2> QED BY <2>4, <2>5
<1>4. Begun \in ReadStates
  <2>1. Begun = [props |-> e, line |-> e]
    BY <1>1 DEF Begun
  <2> QED BY <1>2, <2>1 DEF ReadStates
<1> QED BY <1>3, <1>4 DEF Stays, Reads

LEMMA ReadIsFold ==
  ASSUME ReadersAssumption, NEW text \in Texts
  PROVE  Read(text) = Fold(Reads, Begun, text)
<1> DEFINE X == ReadStates
           F == Reads
           b == Begun
           n == Len(text)
           Is(g) == g = [i \in 0..n |-> IF i = 0 THEN b ELSE ReadChar(g[i - 1], text[i])]
           g == CHOOSE h : Is(h)
<1>1. text \in Seq(Chars) /\ n \in Nat /\ \A i \in 1..n : text[i] \in Chars /\ i \in 0..n /\ i - 1 \in 0..n /\ i # 0
  BY DEF Texts
<1>2. Stays(F, Chars, X) /\ b \in X
  BY ReadStays
<1>3. Read(text) = g[n]
  BY DEF Read, Loop
<1>4. \A c \in Chars, r \in X : F[c][r] = ReadChar(r, c)
  BY DEF Reads
<1> HIDE DEF F, b, X
<1>5. PICK f : IsFold(f, F, b, text) /\ \A i \in 0..n : f[i] \in X
  BY <1>1, <1>2, FoldExists
<1>6. \A i \in 1..n : F[text[i]][f[i - 1]] = ReadChar(f[i - 1], text[i])
  BY <1>1, <1>4, <1>5
<1>7. Is(f)
  <2>1. f = [i \in 0..n |-> IF i = 0 THEN b ELSE F[text[i]][f[i - 1]]]
    BY <1>5 DEF IsFold
  <2>2. \A i \in 0..n : i # 0 => i \in 1..n
    BY <1>1
  <2>3. [i \in 0..n |-> IF i = 0 THEN b ELSE F[text[i]][f[i - 1]]]
        = [i \in 0..n |-> IF i = 0 THEN b ELSE ReadChar(f[i - 1], text[i])]
    BY <1>6, <2>2
  <2> QED BY <2>1, <2>3
<1>8. Is(g)
  BY <1>7
<1> HIDE DEF g
<1>9. g[0] = b /\ \A i \in 1..n : g[i] = ReadChar(g[i - 1], text[i])
  <2>1. \A i \in 0..n : g[i] = IF i = 0 THEN b ELSE ReadChar(g[i - 1], text[i])
    BY <1>8
  <2>2. 0 \in 0..n
    BY <1>1
  <2> QED BY <1>1, <2>1, <2>2
<1>10. GoesAs(g, f, F, b, text)
  BY <1>6, <1>9 DEF GoesAs
<1>11. g[n] = f[n] /\ f[n] = Fold(F, b, text)
  BY <1>1, <1>5, <1>10, FoldUnique, FoldIs
<1> QED BY <1>3, <1>11 DEF F, b

\* What has been read after no character, and after one more.
LEMMA ReadOne ==
  ASSUME ReadersAssumption, NEW text \in Texts, NEW c \in Chars
  PROVE  Read(Append(text, c)) = ReadChar(Read(text), c) /\ Read(text) \in ReadStates
<1> DEFINE F == Reads
           longer == Append(text, c)
<1>1. Stays(F, Chars, ReadStates) /\ Begun \in ReadStates
  BY ReadStays
<1>2. text \in Seq(Chars) /\ longer \in Texts
  BY DEF Texts
<1>3. Read(text) = Fold(F, Begun, text)
  BY ReadIsFold
<1> HIDE DEF longer
<1>4. Read(longer) = Fold(F, Begun, longer)
  BY <1>2, ReadIsFold
<1> HIDE DEF F
<1>5. Fold(F, Begun, Append(text, c)) = F[c][Fold(F, Begun, text)] /\ Fold(F, Begun, text) \in ReadStates
  BY <1>1, <1>2, FoldAppend
<1>6. \A r \in ReadStates : F[c][r] = ReadChar(r, c)
  BY DEF F, Reads
<1> QED BY <1>3, <1>4, <1>5, <1>6 DEF longer

LEMMA ReadNone ==
  ASSUME ReadersAssumption, NEW text, text = <<>>
  PROVE  Read(text) = Begun
<1>1. text \in Seq(Chars) /\ Len(text) = 0
  OBVIOUS
<1>2. Read(text) = Fold(Reads, Begun, text)
  BY <1>1, ReadIsFold DEF Texts
<1>3. Stays(Reads, Chars, ReadStates) /\ Begun \in ReadStates
  BY ReadStays
<1>4. Fold(Reads, Begun, text) = Begun
  BY <1>1, <1>3, FoldEmpty
<1> QED BY <1>2, <1>4

\* Characters that are not newlines make the line longer.
LEMMA ReadLonger ==
  ASSUME ReadersAssumption, NEW text \in Texts, NEW w \in Seq(Chars \ {Newline})
  PROVE  Read(text \o w) = [props |-> Read(text).props, line |-> Read(text).line \o w]
<1> DEFINE p == Read(text).props
           l == Read(text).line
           T == {u \in Seq(Chars \ {Newline}) : Read(text \o u) = [props |-> p, line |-> l \o u]}
<1>1. Read(text) \in ReadStates
  <2>1. Newline \in Chars
    BY DEF ReadersAssumption
  <2> QED BY <2>1, ReadOne
<1>2. p \in Maps /\ l \in Seq(Chars) /\ text \in Seq(Chars) /\ Read(text) = [props |-> p, line |-> l]
  BY <1>1 DEF ReadStates, Texts
<1> HIDE DEF p, l
<1>3. <<>> \in T
  <2>1. PICK e : e = <<>>
    OBVIOUS
  <2>2. text \o e = text /\ l \o e = l /\ e \in Seq(Chars \ {Newline})
    BY <1>2, <2>1
  <2>3. Read(text \o e) = [props |-> p, line |-> l \o e]
    BY <1>2, <2>2
  <2>4. e \in T
    BY <2>2, <2>3
  <2> HIDE DEF T
  <2> QED BY <2>1, <2>4
<1>4. ASSUME NEW u \in Seq(Chars \ {Newline}), u \in T, NEW c \in Chars \ {Newline} PROVE Append(u, c) \in T
  <2>1. text \o u \in Texts /\ text \o Append(u, c) = Append(text \o u, c)
    BY <1>2 DEF Texts
  <2>2. l \o Append(u, c) = Append(l \o u, c)
    BY <1>2
  <2>3. Read(text \o u) = [props |-> p, line |-> l \o u]
    BY <1>4
  <2>4. Read(Append(text \o u, c)) = ReadChar([props |-> p, line |-> l \o u], c)
    BY <2>1, <2>3, ReadOne
  <2>5. ReadChar([props |-> p, line |-> l \o u], c) = [props |-> p, line |-> Append(l \o u, c)]
    BY DEF ReadChar
  <2>6. Read(text \o Append(u, c)) = [props |-> p, line |-> l \o Append(u, c)]
    BY <2>1, <2>2, <2>4, <2>5
  <2>7. Append(u, c) \in Seq(Chars \ {Newline})
    OBVIOUS
  <2> QED BY <2>6, <2>7
<1> HIDE DEF T
<1>5. \A u \in Seq(Chars \ {Newline}) : u \in T
  BY <1>3, <1>4, SequenceInduction
<1>6. w \in T
  BY <1>5
<1> QED BY <1>6 DEF T, p, l

\* A line that was written gives its key its value.
LEMMA ReadsLine ==
  ASSUME ReadersAssumption, NEW text \in Texts, NEW p \in Maps, Read(text) = [props |-> p, line |-> <<>>],
         NEW k \in KeyTexts, NEW v \in Texts
  PROVE  /\ LineOf(k, v) \in Texts
         /\ Read(text \o LineOf(k, v)) = [props |-> Put(p, k, v), line |-> <<>>]
<1> DEFINE sk == serializeSpecial(k)
           sv == serializeSpecial(v)
           w == sk \o <<Space>> \o sv
<1>1. Backslash \in Chars /\ "n" \in Chars /\ Space \in Chars /\ Newline \in Chars
  BY DEF ReadersAssumption
<1>2. Space # Newline
  BY DEF Space, Newline
<1>3. k \in Seq(Chars) /\ v \in Seq(Chars)
  BY DEF KeyTexts, Texts
<1>4. sk \in Seq(Chars \ {Newline}) /\ sv \in Seq(Chars \ {Newline})
  BY <1>1, <1>3, SerializedType
<1>5. LineOf(k, v) = w \o <<Newline>>
  BY DEF LineOf
<1>6. Assign(p, w) = Put(p, k, v)
  BY AssignsLine
<1> HIDE DEF sk, sv
<1>7. w \in Seq(Chars \ {Newline})
  BY <1>1, <1>2, <1>4
<1> HIDE DEF w
<1>8. w \in Seq(Chars) /\ text \in Seq(Chars)
  BY <1>7 DEF Texts
<1>9. text \o w \in Texts /\ text \o (w \o <<Newline>>) = Append(text \o w, Newline) /\ w \o <<Newline>> \in Texts
  BY <1>1, <1>8 DEF Texts
<1>10. Read(text \o w) = [props |-> p, line |-> w]
  <2>1. Read(text).props = p /\ Read(text).line = <<>>
    OBVIOUS
  <2>2. <<>> \o w = w
    BY <1>8
  <2>3. Read(text \o w) = [props |-> Read(text).props, line |-> Read(text).line \o w]
    BY <1>7, ReadLonger
  <2> QED BY <2>1, <2>2, <2>3
<1>11. Read(Append(text \o w, Newline)) = ReadChar([props |-> p, line |-> w], Newline)
  BY <1>1, <1>9, <1>10, ReadOne
<1>12. ReadChar([props |-> p, line |-> w], Newline) = [props |-> Assign(p, w), line |-> <<>>]
  BY DEF ReadChar
<1> QED BY <1>5, <1>6, <1>9, <1>11, <1>12

-----------------------------------------------------------------------------
(* Save() *)

Saved(props, ks) == Loop(LAMBDA text, k : text \o LineOf(k, props[k]), <<>>, ks)

Saves(props) == [k \in DOMAIN props |-> [text \in Texts |-> text \o LineOf(k, props[k])]]

LEMMA LineType ==
  ASSUME ReadersAssumption, NEW k \in KeyTexts, NEW v \in Texts
  PROVE  LineOf(k, v) \in Texts
<1>1. Backslash \in Chars /\ "n" \in Chars /\ Space \in Chars /\ Newline \in Chars
  BY DEF ReadersAssumption
<1>2. k \in Seq(Chars) /\ v \in Seq(Chars)
  BY DEF KeyTexts, Texts
<1>3. serializeSpecial(k) \in Seq(Chars \ {Newline}) /\ serializeSpecial(v) \in Seq(Chars \ {Newline})
  BY <1>1, <1>2, SerializedType
<1>4. serializeSpecial(k) \in Seq(Chars) /\ serializeSpecial(v) \in Seq(Chars)
  BY <1>3
<1> QED BY <1>1, <1>4 DEF LineOf, Texts

LEMMA MapsType ==
  ASSUME NEW p \in Maps
  PROVE  /\ IsFiniteSet(DOMAIN p) /\ p = [k \in DOMAIN p |-> p[k]]
         /\ \A k \in DOMAIN p : k \in KeyTexts /\ p[k] \in Texts
<1>1. PICK D \in SUBSET KeyTexts : IsFiniteSet(D) /\ p \in [D -> Texts]
  BY DEF Maps
<1> QED BY <1>1

LEMMA SaveStays ==
  ASSUME ReadersAssumption, NEW p \in Maps
  PROVE  Stays(Saves(p), DOMAIN p, Texts) /\ <<>> \in Texts
<1>1. ASSUME NEW k \in DOMAIN p, NEW text \in Texts PROVE text \o LineOf(k, p[k]) \in Texts
  <2>1. LineOf(k, p[k]) \in Texts
    BY MapsType, LineType
  <2> QED BY <2>1 DEF Texts
<1>2. <<>> \in Texts
  BY DEF Texts
<1> QED BY <1>1, <1>2 DEF Stays, Saves

LEMMA SavedIsFold ==
  ASSUME ReadersAssumption, NEW p \in Maps, NEW ks \in Seq(DOMAIN p)
  PROVE  Saved(p, ks) = Fold(Saves(p), <<>>, ks)
<1> DEFINE X == Texts
           F == Saves(p)
           b == <<>>
           n == Len(ks)
           Is(g) == g = [i \in 0..n |-> IF i = 0 THEN b ELSE g[i - 1] \o LineOf(ks[i], p[ks[i]])]
           g == CHOOSE h : Is(h)
<1>1. n \in Nat /\ \A i \in 1..n : ks[i] \in DOMAIN p /\ i \in 0..n /\ i - 1 \in 0..n /\ i # 0
  OBVIOUS
<1>2. Stays(F, DOMAIN p, X) /\ b \in X
  BY SaveStays
<1>3. Saved(p, ks) = g[n]
  BY DEF Saved, Loop
<1>4. \A k \in DOMAIN p, r \in X : F[k][r] = r \o LineOf(k, p[k])
  BY DEF Saves
<1> HIDE DEF F, b, X
<1>5. PICK f : IsFold(f, F, b, ks) /\ \A i \in 0..n : f[i] \in X
  BY <1>2, FoldExists
<1>6. \A i \in 1..n : F[ks[i]][f[i - 1]] = f[i - 1] \o LineOf(ks[i], p[ks[i]])
  BY <1>1, <1>4, <1>5
<1>7. Is(f)
  <2>1. f = [i \in 0..n |-> IF i = 0 THEN b ELSE F[ks[i]][f[i - 1]]]
    BY <1>5 DEF IsFold
  <2>2. \A i \in 0..n : i # 0 => i \in 1..n
    BY <1>1
  <2>3. [i \in 0..n |-> IF i = 0 THEN b ELSE F[ks[i]][f[i - 1]]]
        = [i \in 0..n |-> IF i = 0 THEN b ELSE f[i - 1] \o LineOf(ks[i], p[ks[i]])]
    BY <1>6, <2>2
  <2> QED BY <2>1, <2>3
<1>8. Is(g)
  BY <1>7
<1> HIDE DEF g
<1>9. g[0] = b /\ \A i \in 1..n : g[i] = g[i - 1] \o LineOf(ks[i], p[ks[i]])
  <2>1. \A i \in 0..n : g[i] = IF i = 0 THEN b ELSE g[i - 1] \o LineOf(ks[i], p[ks[i]])
    BY <1>8
  <2>2. 0 \in 0..n
    BY <1>1
  <2> QED BY <1>1, <2>1, <2>2
<1>10. GoesAs(g, f, F, b, ks)
  BY <1>6, <1>9 DEF GoesAs
<1>11. g[n] = f[n] /\ f[n] = Fold(F, b, ks)
  BY <1>5, <1>10, FoldUnique, FoldIs
<1> QED BY <1>3, <1>11 DEF F, b

LEMMA SavedOne ==
  ASSUME ReadersAssumption, NEW p \in Maps, NEW ks \in Seq(DOMAIN p), NEW k \in DOMAIN p
  PROVE  Saved(p, Append(ks, k)) = Saved(p, ks) \o LineOf(k, p[k]) /\ Saved(p, ks) \in Texts
<1> DEFINE F == Saves(p)
           b == <<>>
           longer == Append(ks, k)
<1>1. Stays(F, DOMAIN p, Texts) /\ b \in Texts
  BY SaveStays
<1>2. longer \in Seq(DOMAIN p)
  OBVIOUS
<1>3. Saved(p, ks) = Fold(F, b, ks)
  BY SavedIsFold
<1> HIDE DEF longer
<1>4. Saved(p, longer) = Fold(F, b, longer)
  BY <1>2, SavedIsFold
<1>5. \A r \in Texts : F[k][r] = r \o LineOf(k, p[k])
  BY DEF F, Saves
<1> HIDE DEF F, b
<1>6. Fold(F, b, Append(ks, k)) = F[k][Fold(F, b, ks)] /\ Fold(F, b, ks) \in Texts
  BY <1>1, FoldAppend
<1> QED BY <1>3, <1>4, <1>5, <1>6 DEF longer

LEMMA SavedNone ==
  ASSUME ReadersAssumption, NEW p \in Maps, NEW ks, ks = <<>>
  PROVE  Saved(p, ks) = <<>>
<1> DEFINE b == <<>>
<1>1. ks \in Seq(DOMAIN p) /\ Len(ks) = 0
  OBVIOUS
<1>2. Saved(p, ks) = Fold(Saves(p), b, ks)
  BY <1>1, SavedIsFold
<1>3. Stays(Saves(p), DOMAIN p, Texts) /\ b \in Texts
  BY SaveStays
<1> HIDE DEF b
<1>4. Fold(Saves(p), b, ks) = b
  BY <1>1, <1>3, FoldEmpty
<1> QED BY <1>2, <1>4 DEF b

\* The properties of some keys.
Chosen(p, ks) == [k \in ToSet(ks) |-> p[k]]

\* What is read of the keys that were saved is what they have.
LEMMA SavedIsRead ==
  ASSUME ReadersAssumption, NEW p \in Maps, NEW ks \in Seq(DOMAIN p)
  PROVE  Saved(p, ks) \in Texts /\ Read(Saved(p, ks)) = [props |-> Chosen(p, ks), line |-> <<>>]
<1> DEFINE D == DOMAIN p
           Good(js) == /\ Saved(p, js) \in Texts /\ Chosen(p, js) \in Maps
                       /\ Read(Saved(p, js)) = [props |-> Chosen(p, js), line |-> <<>>]
           T == {js \in Seq(D) : Good(js)}
<1>1. <<>> \in T
  <2>1. PICK e : e = <<>>
    OBVIOUS
  <2>2. e \in Seq(D) /\ e \in Texts /\ e \in Maps
    BY <2>1, MapsEmpty DEF Texts
  <2>3. Saved(p, e) = e
    BY <2>1, SavedNone
  <2>4. Chosen(p, e) = e
    BY <2>1 DEF Chosen, ToSet
  <2>5. Read(e) = [props |-> e, line |-> <<>>]
    BY <2>1, ReadNone DEF Begun
  <2>6. Good(e)
    BY <2>2, <2>3, <2>4, <2>5
  <2> HIDE DEF Good
  <2>7. e \in T
    BY <2>2, <2>6
  <2> HIDE DEF T
  <2> QED BY <2>1, <2>7
<1>2. ASSUME NEW js \in Seq(D), js \in T, NEW k \in D PROVE Append(js, k) \in T
  <2> DEFINE text == Saved(p, js)
             kept == Chosen(p, js)
  <2>1. k \in KeyTexts /\ p[k] \in Texts
    BY MapsType
  <2>2. text \in Texts /\ kept \in Maps /\ Read(text) = [props |-> kept, line |-> <<>>]
    BY <1>2
  <2>3. Saved(p, Append(js, k)) = text \o LineOf(k, p[k])
    BY SavedOne
  <2>4. Put(kept, k, p[k]) = Chosen(p, Append(js, k))
    <3>1. ToSet(Append(js, k)) = ToSet(js) \cup {k}
      <4>1. DOMAIN js = 1..Len(js) /\ Len(js) \in Nat /\ DOMAIN Append(js, k) = 1..(Len(js) + 1)
        OBVIOUS
      <4>2. \A i \in 1..Len(js) : Append(js, k)[i] = js[i] /\ i \in 1..(Len(js) + 1)
        BY <4>1
      <4>3. Append(js, k)[Len(js) + 1] = k /\ Len(js) + 1 \in 1..(Len(js) + 1)
        BY <4>1
      <4>4. \A i \in 1..(Len(js) + 1) : i \in 1..Len(js) \/ i = Len(js) + 1
        BY <4>1
      <4> QED BY <4>1, <4>2, <4>3, <4>4 DEF ToSet
    <3> QED BY <3>1 DEF Put, Chosen
  <2> HIDE DEF text, kept
  <2>5. LineOf(k, p[k]) \in Texts
    BY <2>1, LineType
  <2>6. Read(text \o LineOf(k, p[k])) = [props |-> Put(kept, k, p[k]), line |-> <<>>]
    BY <2>1, <2>2, ReadsLine
  <2>7. text \o LineOf(k, p[k]) \in Texts
    BY <2>2, <2>5 DEF Texts
  <2>8. Put(kept, k, p[k]) \in Maps
    BY <2>1, <2>2, MapsPut
  <2>9. Good(Append(js, k))
    BY <2>3, <2>4, <2>6, <2>7, <2>8
  <2> HIDE DEF Good
  <2> QED BY <2>9
<1> HIDE DEF T
<1>3. \A js \in Seq(D) : js \in T
  BY <1>1, <1>2, SequenceInduction
<1>4. ks \in T
  BY <1>3
<1> QED BY <1>4 DEF T

\* Every key is saved.
LEMMA SavesAll ==
  ASSUME NEW D, IsFiniteSet(D)
  PROVE  SetToSeq(D) \in Seq(D) /\ ToSet(SetToSeq(D)) = D
<1> DEFINE n == Cardinality(D)
           f == SetToSeq(D)
<1>1. n \in Nat /\ ExistsBijection(1..n, D)
  BY FS_CardinalityType
<1>2. \E g \in [1..n -> D] : IsInjective(g)
  BY <1>1 DEF ExistsBijection, Bijection, Injection
<1>3. f \in [1..n -> D] /\ IsInjective(f)
  BY <1>2 DEF SetToSeq
<1> HIDE DEF f
<1>4. f \in Injection(1..n, D)
  BY <1>3 DEF Injection
<1>5. Cardinality(1..n) = n
  BY <1>1, FS_Interval
<1>6. f \in Surjection(1..n, D)
  BY <1>4, <1>5, FS_Injection
<1>7. f \in Seq(D)
  BY <1>1, <1>3
<1>8. ToSet(f) = D
  BY <1>3, <1>6 DEF ToSet, Surjection
<1> QED BY <1>7, <1>8 DEF f

-----------------------------------------------------------------------------
(***************************************************************************)
(* What is saved is read back: all keys with their values, whatever        *)
(* characters they are of, and no others. (PropertyReader.cpp:72-108)      *)
(***************************************************************************)
THEOREM SavedIsLoaded ==
  ASSUME ReadersAssumption, NEW p \in Maps
  PROVE  Save(p) \in Texts /\ Load(Save(p)) = p
<1> DEFINE ks == SetToSeq(DOMAIN p)
           text == Save(p)
<1>1. IsFiniteSet(DOMAIN p) /\ p = [k \in DOMAIN p |-> p[k]]
  BY MapsType
<1>2. ks \in Seq(DOMAIN p) /\ ToSet(ks) = DOMAIN p
  BY <1>1, SavesAll
<1>3. text = Saved(p, ks)
  BY DEF Save, Saved
<1> HIDE DEF ks, text
<1>4. text \in Texts /\ Read(text) = [props |-> Chosen(p, ks), line |-> <<>>]
  BY <1>2, <1>3, SavedIsRead
<1>5. Chosen(p, ks) = p
  BY <1>1, <1>2 DEF Chosen
<1>6. text # NoFile
  BY <1>4 DEF ReadersAssumption
<1>7. Load(text) = Assign(p, <<>>)
  BY <1>4, <1>5, <1>6 DEF Load, Read, Begun
<1>8. Assign(p, <<>>) = p
  <2>1. PICK e : e = <<>>
    OBVIOUS
  <2>2. e \in Texts /\ Len(e) = 0
    BY <2>1 DEF Texts
  <2>3. KeyLength(e) < 0
    <3>1. \/ KeyLength(e) = -1
          \/ KeyLength(e) \in 0..(Len(e) - 1)
      BY <2>2, KeyEnds
    <3> QED BY <2>2, <3>1
  <2>4. Assign(p, e) = p
    BY <2>3 DEF Assign
  <2> QED BY <2>1, <2>4
<1> QED BY <1>4, <1>7, <1>8 DEF text

-----------------------------------------------------------------------------
(* The objects of a path *)

Files == Texts \cup {NoFile}

Objects == [props : Maps, propsChanged : BOOLEAN, base : Files \cup {Unknown},
            unsaved : SUBSET KeyTexts, loose : SUBSET KeyTexts]

RdrTypeOK ==
  /\ file \in Files
  /\ alive \subseteq Readers
  /\ reader \in [Readers -> Objects]

\* What an object knows of the text it last read or wrote.
KnowsItsBase(o) ==
  /\ o.unsaved # {} => o.propsChanged
  /\ o.base # Unknown =>
       \A k \in DOMAIN Load(o.base) \cup DOMAIN o.props :
         k \notin o.unsaved \cup o.loose => AgreeOn(Load(o.base), o.props, k)

RdrInv == RdrTypeOK /\ \A r \in alive : KnowsItsBase(reader[r])

LEMMA LoadType ==
  ASSUME ReadersAssumption, NEW f \in Files
  PROVE  Load(f) \in Maps
<1>1. CASE f = NoFile
  <2>1. Load(f) = <<>>
    BY <1>1 DEF Load
  <2> QED BY <2>1, MapsEmpty
<1>2. CASE f # NoFile
  <2>1. f \in Texts /\ Newline \in Chars
    BY <1>2 DEF Files, ReadersAssumption
  <2>2. Read(f) \in ReadStates
    BY <2>1, ReadOne
  <2>3. Read(f).props \in Maps /\ Read(f).line \in Texts
    BY <2>2 DEF ReadStates
  <2>4. Load(f) = Assign(Read(f).props, Read(f).line)
    BY <1>2 DEF Load, Read, Begun
  <2> QED BY <2>3, <2>4, AssignKeeps
<1> QED BY <1>1, <1>2

LEMMA MapsWithout ==
  ASSUME NEW p \in Maps, NEW k
  PROVE  Without(p, k) \in Maps /\ DOMAIN Without(p, k) = DOMAIN p \ {k}
<1>1. PICK D \in SUBSET KeyTexts : IsFiniteSet(D) /\ p \in [D -> Texts]
  BY DEF Maps
<1>2. IsFiniteSet(D \ {k}) /\ D \ {k} \in SUBSET KeyTexts
  BY <1>1, FS_RemoveElement
<1>3. Without(p, k) \in [D \ {k} -> Texts] /\ DOMAIN Without(p, k) = DOMAIN p \ {k}
  BY <1>1 DEF Without
<1> QED BY <1>2, <1>3 DEF Maps

LEMMA MapsOverlaid ==
  ASSUME NEW p \in Maps, NEW q \in Maps
  PROVE  Overlaid(p, q) \in Maps
<1>1. PICK D \in SUBSET KeyTexts : IsFiniteSet(D) /\ p \in [D -> Texts]
  BY DEF Maps
<1>2. PICK E \in SUBSET KeyTexts : IsFiniteSet(E) /\ q \in [E -> Texts]
  BY DEF Maps
<1>3. IsFiniteSet(D \cup E) /\ D \cup E \in SUBSET KeyTexts
  BY <1>1, <1>2, FS_Union
<1>4. Overlaid(p, q) \in [D \cup E -> Texts]
  BY <1>1, <1>2 DEF Overlaid
<1> QED BY <1>3, <1>4 DEF Maps

LEMMA FreshKnows ==
  ASSUME ReadersAssumption, NEW f \in Files
  PROVE  Fresh(f) \in Objects /\ KnowsItsBase(Fresh(f))
<1>1. Load(f) \in Maps
  BY LoadType
<1> QED BY <1>1 DEF Fresh, Objects, KnowsItsBase, AgreeOn

LEMMA MovedFromType == MovedFrom \in Objects
<1>1. PICK e : e = <<>>
  OBVIOUS
<1>2. e \in Maps
  BY <1>1, MapsEmpty
<1>3. MovedFrom = [props |-> e, propsChanged |-> FALSE, base |-> Unknown, unsaved |-> {}, loose |-> {}]
  BY <1>1 DEF MovedFrom
<1> QED BY <1>2, <1>3 DEF Objects

\* Objects field by field.
Object(props, propsChanged, base, unsaved, loose) ==
  [props |-> props, propsChanged |-> propsChanged, base |-> base, unsaved |-> unsaved, loose |-> loose]

LEMMA ObjectIs ==
  ASSUME NEW P, NEW C, NEW B, NEW U, NEW L,
         NEW x \in [props : P, propsChanged : C, base : B, unsaved : U, loose : L]
  PROVE  x = Object(x.props, x.propsChanged, x.base, x.unsaved, x.loose)
BY DEF Object

LEMMA ObjectFields ==
  ASSUME NEW o \in Objects, NEW text, NEW k, NEW v
  PROVE  /\ Reread(o, text) = Object(Overlaid(Load(text), o.props), o.propsChanged, text,
                                     o.unsaved \ DOMAIN Load(text),
                                     (DOMAIN o.props \ DOMAIN Load(text)) \ o.unsaved)
         /\ Written(o, text) = Object(o.props, o.propsChanged, text, {}, {})
         /\ Deleted(o, k) = Object(Without(o.props, k), o.propsChanged, o.base, o.unsaved, o.loose \cup {k})
         /\ Assigned(o, k, v) = Object(Put(o.props, k, v), TRUE, o.base, o.unsaved \cup {k}, o.loose \ {k})
         /\ k \in DOMAIN o.props =>
              Emptied(o, k) = Object(Without(o.props, k), TRUE, o.base, o.unsaved \cup {k}, o.loose \ {k})
         /\ Marked(o) = Object(o.props, FALSE, Unknown, {}, {})
<1>1. Reread(o, text) = Object(Overlaid(Load(text), o.props), o.propsChanged, text,
    o.unsaved \ DOMAIN Load(text), (DOMAIN o.props \ DOMAIN Load(text)) \ o.unsaved)
  <2> DEFINE x == Reread(o, text)
  <2>1. x \in [props : {Overlaid(Load(text), o.props)}, propsChanged : {o.propsChanged}, base : {text},
             unsaved : {o.unsaved \ DOMAIN Load(text)},
             loose : {(DOMAIN o.props \ DOMAIN Load(text)) \ o.unsaved}]
    BY DEF Objects, Reread
  <2>2. /\ x.props = Overlaid(Load(text), o.props)
        /\ x.propsChanged = o.propsChanged
        /\ x.base = text
        /\ x.unsaved = o.unsaved \ DOMAIN Load(text)
        /\ x.loose = (DOMAIN o.props \ DOMAIN Load(text)) \ o.unsaved
    BY <2>1
  <2> HIDE DEF x
  <2> QED BY <2>1, <2>2, ObjectIs DEF x
<1>2. Written(o, text) = Object(o.props, o.propsChanged, text,
    {}, {})
  <2> DEFINE x == Written(o, text)
  <2>1. x \in [props : {o.props}, propsChanged : {o.propsChanged}, base : {text},
             unsaved : {{}}, loose : {{}}]
    BY DEF Objects, Written
  <2>2. /\ x.props = o.props
        /\ x.propsChanged = o.propsChanged
        /\ x.base = text
        /\ x.unsaved = {}
        /\ x.loose = {}
    BY <2>1
  <2> HIDE DEF x
  <2> QED BY <2>1, <2>2, ObjectIs DEF x
<1>3. Deleted(o, k) = Object(Without(o.props, k), o.propsChanged, o.base,
    o.unsaved, o.loose \cup {k})
  <2> DEFINE x == Deleted(o, k)
  <2>1. x \in [props : {Without(o.props, k)}, propsChanged : {o.propsChanged}, base : {o.base},
             unsaved : {o.unsaved}, loose : {o.loose \cup {k}}]
    BY DEF Objects, Deleted
  <2>2. /\ x.props = Without(o.props, k)
        /\ x.propsChanged = o.propsChanged
        /\ x.base = o.base
        /\ x.unsaved = o.unsaved
        /\ x.loose = o.loose \cup {k}
    BY <2>1
  <2> HIDE DEF x
  <2> QED BY <2>1, <2>2, ObjectIs DEF x
<1>4. Assigned(o, k, v) = Object(Put(o.props, k, v), TRUE, o.base,
    o.unsaved \cup {k}, o.loose \ {k})
  <2> DEFINE x == Assigned(o, k, v)
  <2>1. x \in [props : {Put(o.props, k, v)}, propsChanged : {TRUE}, base : {o.base},
             unsaved : {o.unsaved \cup {k}}, loose : {o.loose \ {k}}]
    BY DEF Objects, Assigned
  <2>2. /\ x.props = Put(o.props, k, v)
        /\ x.propsChanged = TRUE
        /\ x.base = o.base
        /\ x.unsaved = o.unsaved \cup {k}
        /\ x.loose = o.loose \ {k}
    BY <2>1
  <2> HIDE DEF x
  <2> QED BY <2>1, <2>2, ObjectIs DEF x
<1>5. Marked(o) = Object(o.props, FALSE, Unknown,
    {}, {})
  <2> DEFINE x == Marked(o)
  <2>1. x \in [props : {o.props}, propsChanged : {FALSE}, base : {Unknown},
             unsaved : {{}}, loose : {{}}]
    BY DEF Objects, Marked
  <2>2. /\ x.props = o.props
        /\ x.propsChanged = FALSE
        /\ x.base = Unknown
        /\ x.unsaved = {}
        /\ x.loose = {}
    BY <2>1
  <2> HIDE DEF x
  <2> QED BY <2>1, <2>2, ObjectIs DEF x
<1>6. k \in DOMAIN o.props =>
        Emptied(o, k) = Object(Without(o.props, k), TRUE, o.base, o.unsaved \cup {k}, o.loose \ {k})
  BY DEF Objects, Emptied, Object
<1> QED BY <1>1, <1>2, <1>3, <1>4, <1>5, <1>6

\* A step that changes one object, or none that is left.
Changes(r, o) == alive' \subseteq alive \cup {r} /\ reader' = [reader EXCEPT ![r] = o]

LEMMA OneChanges ==
  ASSUME RdrInv, NEW r \in Readers, NEW o \in Objects, KnowsItsBase(o), Changes(r, o), file' \in Files
  PROVE  RdrInv'
<1>1. /\ alive' \subseteq Readers /\ reader' \in [Readers -> Objects] /\ reader'[r] = o
      /\ \A q \in alive' : q # r => q \in alive /\ reader'[q] = reader[q]
  BY DEF RdrInv, RdrTypeOK, Changes
<1>2. \A q \in alive : KnowsItsBase(reader[q])
  BY DEF RdrInv
<1>3. ASSUME NEW q \in alive' PROVE KnowsItsBase(reader'[q])
  <2>1. CASE q = r
    BY <1>1, <2>1
  <2>2. CASE q # r
    BY <1>1, <1>2, <2>2
  <2> QED BY <2>1, <2>2
<1>4. \A q \in alive' : KnowsItsBase(reader[q])'
  BY <1>3 DEF KnowsItsBase
<1> QED BY <1>1, <1>4 DEF RdrInv, RdrTypeOK

LEMMA AliveObject ==
  ASSUME RdrInv, NEW r \in alive
  PROVE  r \in Readers /\ reader[r] \in Objects /\ KnowsItsBase(reader[r])
BY DEF RdrInv, RdrTypeOK

LEMMA RdrInvInit == ReadersAssumption /\ RdrInit => RdrInv
<1> SUFFICES ASSUME ReadersAssumption, RdrInit PROVE RdrInv
  OBVIOUS
<1>1. file \in Files
  BY DEF RdrInit, ReadersAssumption, Files
<1> QED BY <1>1, MovedFromType DEF RdrInit, RdrInv, RdrTypeOK

LEMMA ConstructKeeps ==
  ASSUME ReadersAssumption, RdrInv, NEW r \in Readers, constructReader(r)
  PROVE  RdrInv'
<1>1. file \in Files /\ file' = file /\ Changes(r, Fresh(file))
  BY DEF RdrInv, RdrTypeOK, constructReader, Changes
<1>2. Fresh(file) \in Objects /\ KnowsItsBase(Fresh(file))
  BY <1>1, FreshKnows
<1> QED BY <1>1, <1>2, OneChanges

LEMMA CopyKeeps ==
  ASSUME RdrInv, NEW r \in Readers, NEW q \in Readers, copy(r, q)
  PROVE  RdrInv'
<1>1. r \in alive /\ file \in Files /\ file' = file /\ Changes(q, reader[r])
  BY DEF RdrInv, RdrTypeOK, copy, Changes
<1>2. reader[r] \in Objects /\ KnowsItsBase(reader[r])
  BY <1>1, AliveObject
<1> QED BY <1>1, <1>2, OneChanges

LEMMA MoveKeeps ==
  ASSUME RdrInv, NEW r \in Readers, NEW q \in Readers, moveReader(r, q)
  PROVE  RdrInv'
<1>1. r \in alive /\ q # r /\ alive' = (alive \cup {q}) \ {r} /\ file' = file
  BY DEF moveReader
<1>2. reader' = [reader EXCEPT ![q] = reader[r], ![r] = MovedFrom]
  BY DEF moveReader
<1>3. reader[r] \in Objects /\ KnowsItsBase(reader[r])
  BY <1>1, AliveObject
<1>4. /\ reader' \in [Readers -> Objects] /\ reader'[q] = reader[r]
      /\ \A p \in Readers \ {q, r} : reader'[p] = reader[p]
  BY <1>1, <1>2, <1>3, MovedFromType DEF RdrInv, RdrTypeOK
<1>5. RdrTypeOK'
  BY <1>1, <1>4 DEF RdrInv, RdrTypeOK
<1>6. ASSUME NEW p \in alive' PROVE KnowsItsBase(reader'[p])
  <2>1. CASE p = q
    BY <1>3, <1>4, <2>1
  <2>2. CASE p # q
    <3>1. p \in alive /\ p \in Readers \ {q, r}
      BY <1>1, <2>2 DEF RdrInv, RdrTypeOK
    <3> QED BY <1>4, <3>1 DEF RdrInv
  <2> QED BY <2>1, <2>2
<1>7. \A p \in alive' : KnowsItsBase(reader[p])'
  BY <1>6 DEF KnowsItsBase
<1> QED BY <1>5, <1>7 DEF RdrInv

LEMMA ReadKeeps ==
  ASSUME ReadersAssumption, RdrInv, NEW r \in Readers, readFromDisk(r)
  PROVE  RdrInv'
<1> DEFINE o == reader[r]
           loaded == Load(file)
           new == Object(Overlaid(loaded, o.props), o.propsChanged, file, o.unsaved \ DOMAIN loaded,
                         (DOMAIN o.props \ DOMAIN loaded) \ o.unsaved)
<1>1. r \in alive /\ alive' = alive /\ file' = file /\ file \in Files
  BY DEF readFromDisk, RdrInv, RdrTypeOK
<1>2. o \in Objects /\ KnowsItsBase(o)
  BY <1>1, AliveObject
<1>3. loaded \in Maps
  BY <1>1, LoadType
<1>4. reader' = [reader EXCEPT ![r] = Reread(o, file)]
  BY DEF readFromDisk
<1>5. Reread(o, file) = new
  BY <1>2, ObjectFields
<1>6. o.props \in Maps /\ o.unsaved \in SUBSET KeyTexts /\ o.propsChanged \in BOOLEAN
  BY <1>2 DEF Objects
<1>7. DOMAIN o.props \in SUBSET KeyTexts
  BY <1>6, MapsType
<1>8. new \in Objects
  <2>1. Overlaid(loaded, o.props) \in Maps
    BY <1>3, <1>6, MapsOverlaid
  <2> HIDE DEF loaded, o
  <2> QED BY <1>1, <1>6, <1>7, <2>1 DEF Objects, Object, Files
<1>9. KnowsItsBase(new)
  <2>1. ASSUME new.unsaved # {} PROVE new.propsChanged
    BY <1>2, <2>1 DEF KnowsItsBase, Object
  <2> DEFINE props == Overlaid(loaded, o.props)
  <2>2. ASSUME NEW k \in DOMAIN loaded \cup DOMAIN props, k \notin new.unsaved \cup new.loose
        PROVE  AgreeOn(loaded, props, k)
    <3>1. DOMAIN props = DOMAIN loaded \cup DOMAIN o.props
      BY DEF Overlaid
    <3>2. CASE k \in DOMAIN loaded
      BY <3>2 DEF Overlaid, AgreeOn
    <3>3. CASE k \notin DOMAIN loaded
      BY <2>2, <3>1, <3>3 DEF Object
    <3> QED BY <3>2, <3>3
  <2>3. new.base = file /\ new.props = props
    BY DEF Object
  <2> HIDE DEF new, props
  <2> QED BY <2>1, <2>2, <2>3 DEF KnowsItsBase, loaded
<1> HIDE DEF new
<1>10. Changes(r, new)
  BY <1>1, <1>4, <1>5 DEF Changes
<1> QED BY <1>1, <1>8, <1>9, <1>10, OneChanges

LEMMA WriteKeeps ==
  ASSUME ReadersAssumption, RdrInv, NEW r \in Readers, NEW force \in BOOLEAN, writeToDisk(r, force)
  PROVE  RdrInv'
<1> DEFINE o == reader[r]
           new == Object(o.props, o.propsChanged, file', {}, {})
<1>1. r \in alive /\ alive' = alive /\ file \in Files /\ file' \in AfterWrite(r)
  BY DEF writeToDisk, RdrInv, RdrTypeOK
<1>2. o \in Objects /\ KnowsItsBase(o) /\ o.props \in Maps
  BY <1>1, AliveObject DEF Objects
<1>3. Save(o.props) \in Texts /\ Load(Save(o.props)) = o.props
  BY <1>2, SavedIsLoaded
<1>4. file' \in Files
  BY <1>1, <1>3 DEF AfterWrite, Files
<1>5. CASE o.props # <<>> /\ file' # Save(o.props)
  <2>1. reader' = reader
    BY <1>5 DEF writeToDisk
  <2>2. RdrTypeOK'
    BY <1>1, <1>4, <2>1 DEF RdrInv, RdrTypeOK
  <2>3. \A q \in alive' : KnowsItsBase(reader[q])'
    BY <1>1, <2>1 DEF RdrInv, KnowsItsBase
  <2> QED BY <2>2, <2>3 DEF RdrInv
<1>6. CASE ~(o.props # <<>> /\ file' # Save(o.props))
  <2>1. reader' = [reader EXCEPT ![r] = Written(o, file')]
    BY <1>6 DEF writeToDisk
  <2>2. Changes(r, new)
    <3>1. Written(o, file') = new
      BY <1>2, ObjectFields
    <3> QED BY <1>1, <2>1, <3>1 DEF Changes
  <2>3. Load(file') = o.props
    <3>1. CASE o.props = <<>>
      BY <1>1, <3>1 DEF AfterWrite, Load
    <3>2. CASE o.props # <<>>
      BY <1>3, <1>6, <3>2
    <3> QED BY <3>1, <3>2
  <2>4. new \in Objects
    BY <1>2, <1>4 DEF Objects, Object
  <2>5. KnowsItsBase(new)
    BY <2>3 DEF KnowsItsBase, AgreeOn, Object
  <2> HIDE DEF new
  <2> QED BY <1>4, <2>2, <2>4, <2>5, OneChanges
<1> QED BY <1>5, <1>6

LEMMA DestructKeeps ==
  ASSUME ReadersAssumption, RdrInv, NEW r \in Readers, destruct(r)
  PROVE  RdrInv'
<1>1. r \in alive /\ alive' = alive \ {r} /\ reader' = [reader EXCEPT ![r] = MovedFrom]
  BY DEF destruct
<1>2. reader[r].props \in Maps /\ file \in Files
  BY <1>1, AliveObject DEF Objects, RdrInv, RdrTypeOK
<1>3. file' \in Files
  BY <1>2, SavedIsLoaded DEF destruct, AfterWrite, Files
<1>4. RdrTypeOK'
  BY <1>1, <1>3, MovedFromType DEF RdrInv, RdrTypeOK
<1>5. \A q \in alive' : KnowsItsBase(reader[q])'
  BY <1>1 DEF RdrInv, RdrTypeOK, KnowsItsBase
<1> QED BY <1>4, <1>5 DEF RdrInv

LEMMA DelKeeps ==
  ASSUME ReadersAssumption, RdrInv, NEW r \in Readers, NEW k \in Keys, delProp(r, k)
  PROVE  RdrInv'
<1> DEFINE o == reader[r]
           new == Object(Without(o.props, k), o.propsChanged, o.base, o.unsaved, o.loose \cup {k})
<1>1. r \in alive /\ alive' = alive /\ file' = file /\ file \in Files /\ k \in KeyTexts
  BY DEF delProp, RdrInv, RdrTypeOK, ReadersAssumption
<1>2. o \in Objects /\ KnowsItsBase(o) /\ o.props \in Maps
  BY <1>1, AliveObject DEF Objects
<1>3. reader' = [reader EXCEPT ![r] = Deleted(o, k)] /\ Deleted(o, k) = new
  BY <1>2, ObjectFields DEF delProp
<1>4. Without(o.props, k) \in Maps /\ DOMAIN Without(o.props, k) = DOMAIN o.props \ {k}
  BY <1>2, MapsWithout
<1>5. Changes(r, new)
  BY <1>1, <1>3 DEF Changes
<1>6. new \in Objects
  <2> HIDE DEF o
  <2> QED BY <1>1, <1>2, <1>4 DEF Objects, Object
<1>7. KnowsItsBase(new)
  <2> HIDE DEF o
  <2> QED BY <1>2, <1>4 DEF KnowsItsBase, AgreeOn, Without, Object
<1> HIDE DEF new
<1> QED BY <1>1, <1>5, <1>6, <1>7, OneChanges

LEMMA SetKeeps ==
  ASSUME ReadersAssumption, RdrInv, NEW r \in Readers, NEW k \in Keys, NEW v \in Values, setProp(r, k, v)
  PROVE  RdrInv'
<1> DEFINE o == reader[r]
           new == IF v = <<>> THEN Emptied(o, k) ELSE Assigned(o, k, v)
<1>1. /\ r \in alive /\ alive' = alive /\ file' = file /\ file \in Files
      /\ k \in KeyTexts /\ v \in Texts
  BY DEF setProp, RdrInv, RdrTypeOK, ReadersAssumption
<1>2. o \in Objects /\ KnowsItsBase(o) /\ o.props \in Maps
  BY <1>1, AliveObject DEF Objects
<1>3. Changes(r, new)
  <2>1. reader \in [Readers -> Objects]
    BY DEF RdrInv, RdrTypeOK
  <2> QED BY <1>1, <2>1 DEF setProp, Changes
<1> HIDE DEF o
<1>4. Emptied(o, k) \in Objects /\ KnowsItsBase(Emptied(o, k))
  <2>1. Without(o.props, k) \in Maps /\ DOMAIN Without(o.props, k) = DOMAIN o.props \ {k}
    BY <1>2, MapsWithout
  <2>2. CASE k \in DOMAIN o.props
    <3> DEFINE e == Object(Without(o.props, k), TRUE, o.base, o.unsaved \cup {k}, o.loose \ {k})
    <3>1. Emptied(o, k) = e
      BY <1>2, <2>2, ObjectFields
    <3>2. e \in Objects
      BY <1>1, <1>2, <2>1 DEF Objects, Object
    <3>3. KnowsItsBase(e)
      BY <1>2, <2>1 DEF KnowsItsBase, AgreeOn, Without, Object
    <3> QED BY <3>1, <3>2, <3>3
  <2>3. CASE k \notin DOMAIN o.props
    BY <1>2, <2>3 DEF Emptied
  <2> QED BY <2>2, <2>3
<1>5. Assigned(o, k, v) \in Objects /\ KnowsItsBase(Assigned(o, k, v))
  <2> DEFINE e == Object(Put(o.props, k, v), TRUE, o.base, o.unsaved \cup {k}, o.loose \ {k})
  <2>1. Put(o.props, k, v) \in Maps
    BY <1>1, <1>2, MapsPut
  <2>2. Assigned(o, k, v) = e
    BY <1>2, ObjectFields
  <2>3. e \in Objects
    BY <1>1, <1>2, <2>1 DEF Objects, Object
  <2>4. KnowsItsBase(e)
    BY <1>2 DEF KnowsItsBase, AgreeOn, Put, Object
  <2> QED BY <2>2, <2>3, <2>4
<1>6. new \in Objects /\ KnowsItsBase(new)
  BY <1>4, <1>5
<1> HIDE DEF new
<1> QED BY <1>1, <1>3, <1>6, OneChanges

LEMMA MarkKeeps ==
  ASSUME RdrInv, NEW r \in Readers, markAsWritten(r)
  PROVE  RdrInv'
<1> DEFINE o == reader[r]
           new == Object(o.props, FALSE, Unknown, {}, {})
<1>1. r \in alive /\ alive' = alive /\ file' = file /\ file \in Files
  BY DEF markAsWritten, RdrInv, RdrTypeOK
<1>2. o \in Objects
  BY <1>1, AliveObject
<1>3. reader' = [reader EXCEPT ![r] = Marked(o)] /\ Marked(o) = new
  BY <1>2, ObjectFields DEF markAsWritten
<1>4. Changes(r, new)
  BY <1>1, <1>3 DEF Changes
<1> HIDE DEF o
<1>5. new \in Objects /\ KnowsItsBase(new)
  BY <1>2 DEF Objects, KnowsItsBase, Object
<1> HIDE DEF new
<1> QED BY <1>1, <1>4, <1>5, OneChanges

LEMMA RdrInvNext == ReadersAssumption /\ RdrInv /\ [RdrNext]_rdrVars => RdrInv'
<1> SUFFICES ASSUME ReadersAssumption, RdrInv, [RdrNext]_rdrVars PROVE RdrInv'
  OBVIOUS
<1>1. CASE UNCHANGED rdrVars
  BY <1>1 DEF rdrVars, RdrInv, RdrTypeOK, KnowsItsBase
<1>2. ASSUME NEW r \in Readers, constructReader(r) PROVE RdrInv'
  BY <1>2, ConstructKeeps
<1>3. ASSUME NEW r \in Readers, readFromDisk(r) PROVE RdrInv'
  BY <1>3, ReadKeeps
<1>4. ASSUME NEW r \in Readers, destruct(r) PROVE RdrInv'
  BY <1>4, DestructKeeps
<1>5. ASSUME NEW r \in Readers, markAsWritten(r) PROVE RdrInv'
  BY <1>5, MarkKeeps
<1>6. ASSUME NEW r \in Readers, NEW force \in BOOLEAN, writeToDisk(r, force) PROVE RdrInv'
  BY <1>6, WriteKeeps
<1>7. ASSUME NEW r \in Readers, NEW k \in Keys, delProp(r, k) PROVE RdrInv'
  BY <1>7, DelKeeps
<1>8. ASSUME NEW r \in Readers, NEW k \in Keys, NEW v \in Values, setProp(r, k, v) PROVE RdrInv'
  BY <1>8, SetKeeps
<1>9. ASSUME NEW r \in Readers, NEW k \in Keys, NEW v \in Values, getOrSetProp(r, k, v) PROVE RdrInv'
  BY <1>9, SetKeeps DEF getOrSetProp
<1>10. ASSUME NEW r \in Readers, NEW q \in Readers, copy(r, q) PROVE RdrInv'
  BY <1>10, CopyKeeps
<1>11. ASSUME NEW r \in Readers, NEW q \in Readers, moveReader(r, q) PROVE RdrInv'
  BY <1>11, MoveKeeps
<1> QED BY <1>1, <1>2, <1>3, <1>4, <1>5, <1>6, <1>7, <1>8, <1>9, <1>10, <1>11 DEF RdrNext

\* The files and the objects have what their types say.
THEOREM ReadersTypeCorrect ==
  ASSUME ReadersAssumption
  PROVE  RdrSpec => []RdrTypeOK
<1>1. RdrInv => RdrTypeOK
  BY DEF RdrInv
<1> QED BY <1>1, RdrInvInit, RdrInvNext, PTL DEF RdrSpec

(***************************************************************************)
(* An object knows whether its file is outdated: while nobody else changed *)
(* the file, it differs from the object only in what the flag tells of, or *)
(* in what delProp() removed. (PropertyReader.cpp:53-166)                  *)
(***************************************************************************)
THEOREM OutdatedIsAlwaysFlagged ==
  ASSUME ReadersAssumption
  PROVE  RdrSpec => []OutdatedIsFlagged
<1>1. RdrInv => OutdatedIsFlagged
  <2> SUFFICES ASSUME RdrInv, NEW r \in alive, reader[r].base = file
               PROVE  /\ \A k \in DOMAIN Load(file) \cup DOMAIN reader[r].props :
                           k \notin reader[r].unsaved \cup reader[r].loose =>
                             AgreeOn(Load(file), reader[r].props, k)
                      /\ reader[r].unsaved # {} => reader[r].propsChanged
    BY DEF OutdatedIsFlagged
  <2>1. KnowsItsBase(reader[r])
    BY DEF RdrInv
  <2>2. reader[r].base # Unknown
    BY DEF RdrInv, RdrTypeOK, Files, ReadersAssumption
  <2> QED BY <2>1, <2>2 DEF KnowsItsBase
<1> QED BY <1>1, RdrInvInit, RdrInvNext, PTL DEF RdrSpec
=============================================================================
