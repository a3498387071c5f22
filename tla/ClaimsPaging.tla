---------------------------- MODULE ClaimsPaging ----------------------------
(***************************************************************************)
(* A client that reads the claims of an owner page by page, each page in a *)
(* query of its own, while claims are committed and paid out in between.   *)
(* It asks for the page after the last id it has seen, and stops at a page *)
(* that is not full.                                                       *)
(***************************************************************************)
EXTENDS ClaimsLifecycle, FiniteSetsExt

CONSTANTS
  MaxLimit,    \* bound on the limit of a page (DEFAULT_LIMIT is 10)
  NotReading   \* the client is not reading

ASSUME PagingAssumption == MaxLimit \in Nat \ {0}

VARIABLE
  reading   \* [owner, startAfter, seen : the ids of the pages so far]

pagingVars == <<vars, reading>>

NoStart == -1

Reading == [owner : Users, startAfter : Nat \cup {NoStart}, seen : SUBSET Nat]

PagingInit == Init /\ reading = NotReading

ClaimsOf(owner) == {id \in DOMAIN claims : claims[id].owner = owner}

(* The limit smallest of a set of ids.                                     *)
Take(ids, limit) == {id \in ids : Cardinality({i \in ids : i < id}) < limit}

(* Defects: the limit is applied before the owner is looked at; the page   *)
(* has the claims of the highest ids.                                      *)
QueryClaimsFilteredLate(owner, startAfter, limit) ==
  Take({id \in DOMAIN claims : id > startAfter}, limit) \cap ClaimsOf(owner)

QueryClaimsDescending(owner, startAfter, limit) ==
  LET ids == {id \in ClaimsOf(owner) : id > startAfter}
  IN  {id \in ids : Cardinality({i \in ids : i > id}) < limit}

(* query_claims_for_owner: the ids, which is what the pages go by.         *)
QueryClaimsForOwner(owner, startAfter, limit) ==
  Take({id \in ClaimsOf(owner) : id > startAfter}, limit)

StartReading(owner) ==
  /\ reading = NotReading
  /\ reading' = [owner |-> owner, startAfter |-> NoStart, seen |-> {}]
  /\ UNCHANGED vars

Page(limit) == QueryClaimsForOwner(reading.owner, reading.startAfter, limit)

NextPage(limit) ==
  /\ reading # NotReading
  /\ Cardinality(Page(limit)) = limit
  /\ reading' = [reading EXCEPT !.startAfter = Max(Page(limit)),
                                !.seen = @ \cup Page(limit)]
  /\ UNCHANGED vars

LastPage(limit) ==
  /\ reading # NotReading
  /\ Cardinality(Page(limit)) < limit
  /\ reading' = NotReading
  /\ UNCHANGED vars

PagingNext ==
  \/ Next /\ UNCHANGED reading
  \/ \E owner \in Users : StartReading(owner)
  \/ \E limit \in 1..MaxLimit : NextPage(limit) \/ LastPage(limit)

PagingSpec == PagingInit /\ [][PagingNext]_pagingVars

----------------------------------------------------------------------------
(* The client has seen every claim of the owner that is open when it gets  *)
(* the last page, although the pages are of different states: a new claim  *)
(* never gets an id behind the client's position, because ids only grow    *)
(* (query_claims_for_owner, commit_pending_claim).                         *)
NothingMissed ==
  \A limit \in 1..MaxLimit :
    LastPage(limit) =>
      ClaimsOf(reading.owner) \subseteq reading.seen \cup Page(limit)

ReadingIsComplete == [][NothingMissed]_pagingVars

(* The inductive strengthening: nothing behind the position is missed.     *)
NothingBehind ==
  reading # NotReading =>
    /\ reading \in Reading
    /\ {id \in ClaimsOf(reading.owner) : id <= reading.startAfter}
         \subseteq reading.seen
    /\ reading.startAfter < nextClaimId

============================================================================
