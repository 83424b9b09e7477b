------------------------------- MODULE IdSys -------------------------------
(***************************************************************************)
(* IdSys<N> (IdSys.cpp): hands out the smallest identifier that is not in  *)
(* use.  Identifiers up to currentId are in use or in freeIds; freeing     *)
(* lowers currentId again when it can.                                     *)
(***************************************************************************)
EXTENDS Naturals

CONSTANT MaxId      \* bound: as many identifiers are in use at most

ASSUME MaxIdAssumption == MaxId \in Nat

VARIABLES
  currentId, freeIds,
  inUse               \* the identifiers that getId() gave and freeId() has not had back

idSysVars == <<currentId, freeIds, inUse>>

IsLeast(i, S) == i \in S /\ \A j \in S : i <= j

\* freeIds.empty() ? currentId + 1 : *freeIds.begin()
IsNextId(id) == IF freeIds = {} THEN id = currentId + 1 ELSE IsLeast(id, freeIds)

IdSysInit ==
  /\ currentId = 0
  /\ freeIds = {}
  /\ inUse = {}

getId ==
  \E id \in 1..MaxId :
    /\ IsNextId(id)
    /\ currentId' = IF freeIds = {} THEN id ELSE currentId
    /\ freeIds' = freeIds \ {id}
    /\ inUse' = inUse \cup {id}

\* shrink() takes c down to d: it erases the largest element of F while that is
\* the counter and not the first element, at which it stops.
Erased(F, i) == i \in F /\ \E j \in F : j < i

\* Mutant: the counter stays where it is.
ShrinksNot(F, c, d) == d = c

Shrinks(F, c, d) ==
  /\ \A i \in (d + 1)..c : Erased(F, i)
  /\ ~Erased(F, d)

FreeTo(F, c) ==
  \E d \in 0..c :
    /\ Shrinks(F, c, d)
    /\ currentId' = d
    /\ freeIds' = F \ ((d + 1)..c)

\* The contract: what is freed is in use.
freeId(id) ==
  /\ id \in inUse
  /\ inUse' = inUse \ {id}
  /\ IF id = currentId THEN FreeTo(freeIds, currentId - 1)
                       ELSE FreeTo(freeIds \cup {id}, currentId)

IdSysNext == getId \/ \E id \in inUse : freeId(id)

IdSysSpec == IdSysInit /\ [][IdSysNext]_idSysVars

-----------------------------------------------------------------------------
(* Properties *)

\* The values of the variables.
IdsTypeOK ==
  /\ currentId \in Nat
  /\ freeIds \subseteq 1..currentId
  /\ inUse \subseteq 1..currentId

\* No identifier is in use twice or lost, whatever was freed in whatever order,
\* and the counter goes down with the identifiers in use: a free one is at its
\* end only if it is the last free one.
IdsExact ==
  /\ freeIds \cap inUse = {}
  /\ freeIds \cup inUse = 1..currentId
  /\ currentId \in freeIds => freeIds = {currentId}
=============================================================================
