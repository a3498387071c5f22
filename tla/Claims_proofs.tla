--------------------------- MODULE Claims_proofs ---------------------------
(* The claims store keeps its promises for any number of users, claims and *)
(* blocks; and who reads the claims page by page misses none, whatever the *)
(* number of claims, the limits and what happens between two pages.        *)
EXTENDS ClaimsPaging, FiniteSetTheorems, WellFoundedInduction, TLAPS

(* An empty store satisfies the invariant.                                 *)
LEMMA InitInv == Init => Inv
<1> SUFFICES ASSUME Init PROVE Inv
  OBVIOUS
<1>1. /\ DOMAIN claims = {} /\ DOMAIN granted = {}
      /\ claims = [id \in {} |-> NoClaim]
      /\ pendingClaim = NoClaim /\ nextClaimId = 0
      /\ lastIssuedId = -1 /\ idAssigned = FALSE
  BY DEF Init, ClaimsInit
<1>2. TypeOK
  BY <1>1 DEF Init, TypeOK, ClaimsTypeOK, IsClaimMap
<1>3. IdsBelowCounter
  BY <1>1 DEF IdsBelowCounter
<1>4. AmountsPositive /\ PaidPlusOpenIsGranted /\ CommittedIdIsFresh
  BY <1>1 DEF AmountsPositive, PaidPlusOpenIsGranted, CommittedIdIsFresh,
     ReadyToCommit
<1> QED
  BY <1>2, <1>3, <1>4 DEF Inv

(* A new pending claim (create_pending_claim) has the id of the counter,   *)
(* which is above every id in use.                                         *)
LEMMA CreateKeepsInv ==
  ASSUME Inv, NEW owner \in Users, NEW amount \in 1..MaxAmount,
         NEW releaseAt \in now..MaxTime, Create(owner, amount, releaseAt)
  PROVE  Inv'
<1>1. /\ pendingClaim = NoClaim
      /\ pendingClaim' = [owner |-> owner, amount |-> amount,
                          releaseAt |-> releaseAt, id |-> nextClaimId]
      /\ idAssigned' = FALSE
      /\ UNCHANGED <<claims, nextClaimId, now, chainIssuesIds, lastIssuedId,
                     granted, paid>>
  BY DEF Create, CreatePendingClaim, history
<1>2. amount \in Nat \ {0} /\ releaseAt \in Nat /\ nextClaimId \in Nat
  BY LifecycleAssumption DEF Inv, TypeOK, ClaimsTypeOK, IsClaimMap
<1>3. pendingClaim' \in Claim /\ pendingClaim'.id = nextClaimId
                              /\ pendingClaim'.amount = amount
  BY <1>1, <1>2 DEF Claim
<1>4. pendingClaim' # NoClaim
  BY <1>3, ClaimsAssumption
<1>5. TypeOK'
  BY <1>1, <1>3 DEF Inv, TypeOK, ClaimsTypeOK, IsClaimMap
<1>6. IdsBelowCounter'
  BY <1>1, <1>3, <1>4 DEF Inv, IdsBelowCounter
<1>7. AmountsPositive'
  BY <1>1, <1>2, <1>3 DEF Inv, AmountsPositive
<1>8. PaidPlusOpenIsGranted'
  BY <1>1 DEF Inv, PaidPlusOpenIsGranted, OpenAmount
<1>9. CommittedIdIsFresh'
  BY <1>1, <1>2, <1>3 DEF Inv, IdsBelowCounter, CommittedIdIsFresh,
     ReadyToCommit, TypeOK
<1> QED
  BY <1>5, <1>6, <1>7, <1>8, <1>9 DEF Inv

(* The reply handler gives the pending claim the issued id                 *)
(* (set_pending_claim), which is past the counter.                         *)
LEMMA AssignKeepsInv ==
  ASSUME Inv, NEW id \in 0..MaxId, AssignIssuedId(id)
  PROVE  Inv'
<1>1. /\ chainIssuesIds /\ ~idAssigned /\ id > lastIssuedId
      /\ pendingClaim # NoClaim
      /\ pendingClaim' = [pendingClaim EXCEPT !.id = id]
      /\ lastIssuedId' = id /\ idAssigned' = TRUE
      /\ UNCHANGED <<claims, nextClaimId, now, chainIssuesIds, granted, paid>>
  BY DEF AssignIssuedId, SetPendingClaimId, history
<1>2. id \in Nat /\ nextClaimId \in Nat /\ pendingClaim \in Claim
  BY <1>1, LifecycleAssumption DEF Inv, TypeOK, ClaimsTypeOK, IsClaimMap
<1>3. /\ pendingClaim' \in Claim /\ pendingClaim'.id = id
      /\ pendingClaim'.amount = pendingClaim.amount
  BY <1>1, <1>2 DEF Claim
<1>4. nextClaimId <= id
  BY <1>1, <1>2 DEF Inv, IdsBelowCounter, TypeOK
<1>5. TypeOK'
  BY <1>1, <1>2, <1>3 DEF Inv, TypeOK, ClaimsTypeOK, IsClaimMap
<1>6. IdsBelowCounter'
  BY <1>1, <1>2, <1>3, <1>4 DEF Inv, IdsBelowCounter
<1>7. AmountsPositive'
  BY <1>1, <1>3 DEF Inv, AmountsPositive
<1>8. PaidPlusOpenIsGranted'
  BY <1>1 DEF Inv, PaidPlusOpenIsGranted, OpenAmount
<1>9. CommittedIdIsFresh'
  BY <1>1, <1>2, <1>3, <1>4 DEF Inv, IdsBelowCounter, CommittedIdIsFresh, TypeOK
<1> QED
  BY <1>5, <1>6, <1>7, <1>8, <1>9 DEF Inv

(* A commit (commit_pending_claim) adds one claim under a fresh id and     *)
(* moves the counter past it.                                              *)
LEMMA CommitKeepsInv ==
  ASSUME Inv, Commit
  PROVE  Inv'
<1> DEFINE c == pendingClaim
<1>1. /\ c # NoClaim /\ (chainIssuesIds => idAssigned)
      /\ c.id \notin DOMAIN claims
      /\ nextClaimId' = IF c.id >= nextClaimId THEN c.id + 1 ELSE nextClaimId
      /\ claims' = [id \in DOMAIN claims \cup {c.id} |->
                      IF id = c.id THEN c ELSE claims[id]]
      /\ pendingClaim' = NoClaim
      /\ granted' = [id \in DOMAIN granted \cup {c.id} |->
                       IF id = c.id THEN c.amount ELSE granted[id]]
      /\ paid' = [id \in DOMAIN granted \cup {c.id} |->
                    IF id = c.id THEN 0 ELSE paid[id]]
      /\ UNCHANGED <<now, chainIssuesIds, lastIssuedId, idAssigned>>
  BY DEF Commit, CommitPendingClaim, ReadyToCommit
<1>2. /\ c \in Claim /\ c.id \in Nat /\ c.amount \in Nat \ {0}
      /\ nextClaimId \in Nat
      /\ c.id \notin DOMAIN granted
  BY <1>1 DEF Inv, TypeOK, ClaimsTypeOK, IsClaimMap, Claim, AmountsPositive,
     CommittedIdIsFresh, ReadyToCommit
<1>3. /\ nextClaimId' \in Nat /\ nextClaimId' > c.id
      /\ nextClaimId' >= nextClaimId
      /\ chainIssuesIds => c.id = lastIssuedId /\ nextClaimId' = lastIssuedId + 1
  BY <1>1, <1>2 DEF Inv, IdsBelowCounter
<1> HIDE DEF c
<1>4. TypeOK'
  BY <1>1, <1>2, <1>3 DEF Inv, TypeOK, ClaimsTypeOK, IsClaimMap
<1>5. IdsBelowCounter'
  <2>1. \A id \in DOMAIN granted' : id < nextClaimId'
    BY <1>1, <1>2, <1>3 DEF Inv, IdsBelowCounter, TypeOK
  <2>2. \A id \in DOMAIN claims' : claims'[id].id = id
    BY <1>1 DEF Inv, IdsBelowCounter
  <2>3. chainIssuesIds' => nextClaimId' <= lastIssuedId' + 1
    BY <1>1, <1>2, <1>3
  <2> QED
    BY <1>1, <2>1, <2>2, <2>3 DEF IdsBelowCounter
<1>6. AmountsPositive'
  BY <1>1, <1>2 DEF Inv, AmountsPositive
<1>7. PaidPlusOpenIsGranted'
  BY <1>1, <1>2 DEF Inv, PaidPlusOpenIsGranted, OpenAmount
<1>8. CommittedIdIsFresh'
  BY <1>1 DEF CommittedIdIsFresh, ReadyToCommit
<1> QED
  BY <1>4, <1>5, <1>6, <1>7, <1>8 DEF Inv

(* What both kinds of payment have in common: a positive part or nothing   *)
(* of one claim stays, the rest is paid, everything else is unchanged.     *)
LEMMA PaymentKeepsInv ==
  ASSUME Inv, NEW id \in DOMAIN claims, NEW amount \in 0..claims[id].amount,
         \/ /\ amount < claims[id].amount
            /\ claims' = [claims EXCEPT ![id].amount = @ - amount]
         \/ /\ amount = claims[id].amount
            /\ claims' = Restrict(claims, DOMAIN claims \ {id}),
         Pay(id, amount),
         UNCHANGED <<pendingClaim, nextClaimId, now, chainIssuesIds,
                     lastIssuedId, idAssigned, granted>>
  PROVE  Inv'
<1>1. /\ claims[id] \in Claim /\ claims[id].amount \in Nat
      /\ amount \in Nat /\ amount <= claims[id].amount
      /\ id \in DOMAIN granted /\ id \in Nat
  BY DEF Inv, TypeOK, ClaimsTypeOK, IsClaimMap, Claim, PaidPlusOpenIsGranted
<1>2. /\ DOMAIN claims' \subseteq DOMAIN claims
      /\ \A i \in DOMAIN claims' : i # id => claims'[i] = claims[i]
      /\ id \in DOMAIN claims' =>
           /\ claims'[id] \in Claim
           /\ claims'[id].id = claims[id].id
           /\ claims'[id].amount = claims[id].amount - amount
           /\ amount < claims[id].amount
      /\ id \notin DOMAIN claims' => amount = claims[id].amount
      /\ \A i \in DOMAIN claims : i # id => i \in DOMAIN claims'
  <2>1. CASE /\ amount < claims[id].amount
             /\ claims' = [claims EXCEPT ![id].amount = @ - amount]
    BY <1>1, <2>1 DEF Claim
  <2>2. CASE /\ amount = claims[id].amount
             /\ claims' = Restrict(claims, DOMAIN claims \ {id})
    BY <2>2 DEF Restrict
  <2> QED
    BY <2>1, <2>2
<1>3. claims' = [i \in DOMAIN claims' |-> claims'[i]]
  <2>1. claims = [i \in DOMAIN claims |-> claims[i]]
    BY DEF Inv, TypeOK, ClaimsTypeOK, IsClaimMap
  <2> QED
    BY <2>1 DEF Restrict
<1>4. paid' = [paid EXCEPT ![id] = @ + amount]
  BY DEF Pay
<1>5. TypeOK'
  <2>1. claims' \in [DOMAIN claims' -> Claim] /\ DOMAIN claims' \subseteq Nat
    BY <1>2, <1>3 DEF Inv, TypeOK, ClaimsTypeOK, IsClaimMap
  <2>2. paid' \in [DOMAIN granted -> Nat]
    BY <1>1, <1>4 DEF Inv, TypeOK
  <2> QED
    BY <2>1, <2>2 DEF Inv, TypeOK, ClaimsTypeOK, IsClaimMap
<1>6. IdsBelowCounter'
  BY <1>2 DEF Inv, IdsBelowCounter
<1>7. AmountsPositive'
  BY <1>1, <1>2 DEF Inv, AmountsPositive
<1>8. PaidPlusOpenIsGranted'
  <2> SUFFICES ASSUME NEW i \in DOMAIN granted
               PROVE  paid'[i] + OpenAmount(i)' = granted[i]
    BY <1>2 DEF Inv, PaidPlusOpenIsGranted
  <2>1. paid[i] + OpenAmount(i) = granted[i] /\ paid[i] \in Nat
    BY DEF Inv, TypeOK, PaidPlusOpenIsGranted
  <2>2. CASE i = id
    BY <1>1, <1>2, <1>4, <2>1, <2>2 DEF OpenAmount, Inv, TypeOK
  <2>3. CASE i # id
    BY <1>2, <1>4, <2>1, <2>3 DEF OpenAmount, Inv, TypeOK
  <2> QED
    BY <2>2, <2>3
<1>9. CommittedIdIsFresh'
  BY DEF Inv, CommittedIdIsFresh, ReadyToCommit
<1> QED
  BY <1>5, <1>6, <1>7, <1>8, <1>9 DEF Inv

(* claim_tokens pays a whole matured claim.                                *)
LEMMA WithdrawKeepsInv ==
  ASSUME Inv, NEW sender \in Users, NEW id \in DOMAIN claims,
         Withdraw(sender, id)
  PROVE  Inv'
<1>1. claims[id].amount \in Nat
  BY DEF Inv, TypeOK, ClaimsTypeOK, IsClaimMap, Claim
<1> DEFINE amount == claims[id].amount
<1>2. /\ amount = claims[id].amount
      /\ claims' = Restrict(claims, DOMAIN claims \ {id})
      /\ Pay(id, amount)
      /\ UNCHANGED <<pendingClaim, nextClaimId, now, chainIssuesIds,
                     lastIssuedId, idAssigned, granted>>
  BY DEF Withdraw, ClaimTokens
<1>3. amount \in 0..claims[id].amount
  BY <1>1
<1> HIDE DEF amount
<1> QED
  BY <1>2, <1>3, PaymentKeepsInv

(* force_claim pays any part of a claim, matured or not.                   *)
LEMMA ForceWithdrawKeepsInv ==
  ASSUME Inv, NEW sender \in Users, NEW id \in DOMAIN claims,
         NEW amount \in 0..MaxAmount, ForceWithdraw(sender, id, amount)
  PROVE  Inv'
<1>1. /\ amount \in Nat /\ claims[id].amount \in Nat
      /\ amount <= claims[id].amount
  BY LifecycleAssumption
  DEF Inv, TypeOK, ClaimsTypeOK, IsClaimMap, Claim, ForceWithdraw, ForceClaim
<1>2. /\ \/ /\ amount < claims[id].amount
            /\ claims' = [claims EXCEPT ![id].amount = @ - amount]
         \/ /\ amount = claims[id].amount
            /\ claims' = Restrict(claims, DOMAIN claims \ {id})
      /\ Pay(id, amount)
      /\ UNCHANGED <<pendingClaim, nextClaimId, now, chainIssuesIds,
                     lastIssuedId, idAssigned, granted>>
  BY <1>1 DEF ForceWithdraw, ForceClaim
<1>3. amount \in 0..claims[id].amount
  BY <1>1
<1> QED
  BY <1>2, <1>3, PaymentKeepsInv

(* Time and stuttering change no claim.                                    *)
LEMMA TickKeepsInv ==
  ASSUME Inv, Tick \/ UNCHANGED vars
  PROVE  Inv'
<1>1. /\ UNCHANGED <<claims, pendingClaim, nextClaimId, chainIssuesIds,
                     lastIssuedId, idAssigned, granted, paid>>
      /\ now' \in Nat
  BY DEF Tick, vars, claimsVars, history, Inv, TypeOK
<1> QED
  BY <1>1 DEF Inv, TypeOK, ClaimsTypeOK, IsClaimMap, IdsBelowCounter, AmountsPositive,
     PaidPlusOpenIsGranted, OpenAmount, CommittedIdIsFresh, ReadyToCommit

(* The invariant of the store: every claim is paid exactly once in total,  *)
(* and every id a claim is committed with is fresh.                        *)
THEOREM ClaimsInvariant == Spec => []Inv
<1>1. Inv /\ [Next]_vars => Inv'
  BY CreateKeepsInv, AssignKeepsInv, CommitKeepsInv, WithdrawKeepsInv,
     ForceWithdrawKeepsInv, TickKeepsInv DEF Next
<1> QED
  BY InitInv, <1>1, PTL DEF Spec

(* commit_pending_claim never fails, and an id names one claim for ever.   *)
THEOREM IdsNeverReused == Spec => []CommittedIdIsFresh
<1>1. Inv => CommittedIdIsFresh
  BY DEF Inv
<1> QED
  BY ClaimsInvariant, <1>1, PTL

(* What was paid for a claim and what is open make up what was granted.    *)
THEOREM PaidExactlyOnce == Spec => []PaidPlusOpenIsGranted
<1>1. Inv => PaidPlusOpenIsGranted
  BY DEF Inv
<1> QED
  BY ClaimsInvariant, <1>1, PTL

(* The terms of an open claim never change: the action property            *)
(* TermsNeverChange, for commit_pending_claim, claim_tokens and force_claim.*)
THEOREM TermsAreKept == Spec => TermsNeverChange
<1>1. Inv /\ Next => TermsKept
  <2> SUFFICES ASSUME Inv, Next, NEW id \in DOMAIN claims \cap DOMAIN claims'
               PROVE  /\ claims'[id].owner = claims[id].owner
                      /\ claims'[id].releaseAt = claims[id].releaseAt
                      /\ claims'[id].amount \in 1..claims[id].amount
    BY DEF TermsKept
  <2>1. claims[id] \in Claim /\ claims[id].amount \in Nat \ {0}
    BY DEF Inv, TypeOK, ClaimsTypeOK, IsClaimMap, Claim, AmountsPositive
  <2>2. CASE claims'[id] = claims[id]
    BY <2>1, <2>2
  <2>3. ASSUME NEW owner \in Users, NEW amount \in 1..MaxAmount,
               NEW releaseAt \in now..MaxTime, Create(owner, amount, releaseAt)
        PROVE  claims'[id] = claims[id]
    BY <2>3 DEF Create, CreatePendingClaim
  <2>4. ASSUME NEW issued \in 0..MaxId, AssignIssuedId(issued)
        PROVE  claims'[id] = claims[id]
    BY <2>4 DEF AssignIssuedId, SetPendingClaimId
  <2>5. ASSUME Commit PROVE claims'[id] = claims[id]
    BY <2>5 DEF Commit, CommitPendingClaim
  <2>6. ASSUME NEW sender \in Users, NEW i \in DOMAIN claims, Withdraw(sender, i)
        PROVE  claims'[id] = claims[id]
    BY <2>6 DEF Withdraw, ClaimTokens, Restrict
  <2>7. ASSUME NEW sender \in Users, NEW i \in DOMAIN claims,
               NEW amount \in 0..MaxAmount, ForceWithdraw(sender, i, amount)
        PROVE  \/ claims'[id] = claims[id]
               \/ /\ i = id /\ amount < claims[i].amount
                  /\ claims' = [claims EXCEPT ![i].amount = @ - amount]
    BY <2>7 DEF ForceWithdraw, ForceClaim, Restrict
  <2>8. ASSUME NEW amount \in 0..MaxAmount, amount < claims[id].amount,
               claims' = [claims EXCEPT ![id].amount = @ - amount]
        PROVE  /\ claims'[id].owner = claims[id].owner
               /\ claims'[id].releaseAt = claims[id].releaseAt
               /\ claims'[id].amount \in 1..claims[id].amount
    <3>1. amount \in Nat
      BY LifecycleAssumption
    <3>2. claims'[id] = [claims[id] EXCEPT !.amount = @ - amount]
      BY <2>8
    <3> QED
      BY <2>1, <2>8, <3>1, <3>2 DEF Claim
  <2>9. CASE Tick
    BY <2>2, <2>9 DEF Tick, claimsVars
  <2> QED
    BY <2>2, <2>3, <2>4, <2>5, <2>6, <2>7, <2>8, <2>9 DEF Next
<1>2. Inv /\ [Next]_vars => [TermsKept]_vars
  BY <1>1
<1> QED
  BY ClaimsInvariant, <1>2, PTL DEF Spec, TermsNeverChange

----------------------------------------------------------------------------
(* Reading page by page.                                                   *)

(* A set of ids has a least one, and a last one if it is bounded.          *)
LEMMA LeastId ==
  ASSUME NEW ids \in SUBSET Nat, ids # {}
  PROVE  \E least \in ids : \A id \in ids : least <= id
<1>1. \E least \in ids : \A id \in ids : ~ (<<id, least>> \in OpToRel(<, Nat))
  BY NatLessThanWellFounded, WFMin
<1>2. OpToRel(<, Nat) = {pair \in Nat \X Nat : pair[1] < pair[2]}
  BY DEF OpToRel
<1>3. ASSUME NEW least \in Nat, NEW id \in Nat,
             <<id, least>> \notin OpToRel(<, Nat)
      PROVE  least <= id
  <2>1. ~ id < least
    BY <1>2, <1>3
  <2> QED
    BY <2>1
<1> QED
  BY <1>1, <1>3

LEMMA LastId ==
  ASSUME NEW ids \in SUBSET Nat, ids # {}, NEW bound \in Nat,
         \A id \in ids : id <= bound
  PROVE  Max(ids) \in ids /\ \A id \in ids : id <= Max(ids)
<1> DEFINE mirrored == {bound - id : id \in ids}
<1>1. mirrored \in SUBSET Nat /\ mirrored # {}
  <2>1. \A id \in ids : bound - id \in Nat
    OBVIOUS
  <2> QED
    BY <2>1
<1>2. PICK least \in mirrored : \A m \in mirrored : least <= m
  BY <1>1, LeastId
<1>3. PICK last \in ids : least = bound - last
  BY <1>2
<1>4. \A id \in ids : last >= id
  <2> SUFFICES ASSUME NEW id \in ids PROVE last >= id
    OBVIOUS
  <2>1. least <= bound - id
    BY <1>2
  <2> QED
    BY <1>3, <2>1
<1>5. Max(ids) \in ids /\ \A id \in ids : Max(ids) >= id
  BY <1>3, <1>4, Zenon DEF Max
<1> QED
  BY <1>5

(* A page of ids below a bound: with an id it has every smaller one, and   *)
(* when it is not full it has them all.                                    *)
LEMMA IdsFinite ==
  ASSUME NEW ids \in SUBSET Nat, NEW bound \in Nat, \A id \in ids : id < bound
  PROVE  IsFiniteSet(ids) /\ Cardinality(ids) \in Nat
BY FS_BoundedSetOfNaturals, FS_CardinalityType

LEMMA PageIsPrefix ==
  ASSUME NEW ids \in SUBSET Nat, IsFiniteSet(ids), NEW limit \in Nat,
         NEW id \in Take(ids, limit), NEW smaller \in ids, smaller < id
  PROVE  smaller \in Take(ids, limit)
<1> DEFINE below(x) == {i \in ids : i < x}
<1>1. /\ below(id) \in SUBSET ids /\ IsFiniteSet(below(id))
      /\ below(smaller) \in SUBSET below(id)
  <2>1. below(id) \in SUBSET ids
    OBVIOUS
  <2>2. id \in Nat /\ smaller \in Nat
    BY DEF Take
  <2>3. ASSUME NEW i \in ids, i < smaller
        PROVE  i < id
    BY <2>2, <2>3
  <2> QED
    BY <2>1, <2>3, FS_Subset
<1>2. /\ Cardinality(below(smaller)) <= Cardinality(below(id))
      /\ Cardinality(below(smaller)) \in Nat /\ Cardinality(below(id)) \in Nat
  BY <1>1, FS_Subset, FS_CardinalityType
<1>3. Cardinality(below(id)) < limit
  BY DEF Take
<1> QED
  BY <1>2, <1>3 DEF Take

LEMMA ShortPageIsAll ==
  ASSUME NEW ids \in SUBSET Nat, IsFiniteSet(ids), NEW limit \in Nat,
         Cardinality(Take(ids, limit)) < limit
  PROVE  ids \subseteq Take(ids, limit)
<1> SUFFICES ASSUME ids \ Take(ids, limit) # {}
             PROVE  FALSE
  OBVIOUS
<1>1. PICK least \in ids \ Take(ids, limit) :
        \A id \in ids \ Take(ids, limit) : least <= id
  BY LeastId
<1> DEFINE below == {i \in ids : i < least}
<1>2. below \in SUBSET Take(ids, limit)
  <2> SUFFICES ASSUME NEW i \in ids, i < least, i \notin Take(ids, limit)
               PROVE  FALSE
    OBVIOUS
  <2>1. i \in Nat /\ least \in Nat /\ least <= i
    BY <1>1
  <2> QED
    BY <2>1
<1>3. IsFiniteSet(Take(ids, limit)) /\ IsFiniteSet(below)
  <2>1. Take(ids, limit) \in SUBSET ids /\ below \in SUBSET ids
    BY DEF Take
  <2> QED
    BY <2>1, FS_Subset
<1>4. /\ Cardinality(below) <= Cardinality(Take(ids, limit))
      /\ Cardinality(below) \in Nat /\ Cardinality(Take(ids, limit)) \in Nat
  BY <1>2, <1>3, FS_Subset, FS_CardinalityType
<1>5. Cardinality(below) < limit
  BY <1>4
<1> QED
  BY <1>1, <1>5 DEF Take

(* The reader does not change the store, so the invariant of the store     *)
(* holds.                                                                  *)
LEMMA StoreIsUnderSpec == PagingSpec => []Inv
<1>1. PagingInit => Inv
  BY InitInv DEF PagingInit
<1>2. [PagingNext]_pagingVars => [Next]_vars
  BY DEF PagingNext, pagingVars, StartReading, NextPage, LastPage
<1> QED
  BY <1>1, <1>2, ClaimsInvariant, PTL DEF PagingSpec, PagingInit, Spec

(* The owner's claims that are after the reader's position.                *)
Ahead == {id \in ClaimsOf(reading.owner) : id > reading.startAfter}

LEMMA AheadFinite ==
  ASSUME Inv
  PROVE  /\ Ahead \in SUBSET Nat /\ IsFiniteSet(Ahead)
         /\ nextClaimId \in Nat /\ \A id \in DOMAIN claims : id < nextClaimId
         /\ DOMAIN claims \subseteq Nat
<1>1. /\ nextClaimId \in Nat /\ DOMAIN claims \subseteq Nat
      /\ \A id \in DOMAIN claims : id < nextClaimId
  BY DEF Inv, TypeOK, ClaimsTypeOK, IsClaimMap, PaidPlusOpenIsGranted,
     IdsBelowCounter
<1>2. Ahead \in SUBSET Nat /\ \A id \in Ahead : id < nextClaimId
  BY <1>1 DEF Ahead, ClaimsOf
<1> QED
  BY <1>1, <1>2, IdsFinite

(* A step of the store adds no claim behind the reader: a new id is not    *)
(* below the counter, which never falls (commit_pending_claim).            *)
LEMMA StoreAddsAhead ==
  ASSUME Inv, Next
  PROVE  /\ nextClaimId' \in Nat /\ nextClaimId <= nextClaimId'
         /\ \A id \in DOMAIN claims' :
              \/ id \in DOMAIN claims /\ claims'[id].owner = claims[id].owner
              \/ id \in Nat /\ id >= nextClaimId
<1> USE DEF Inv, TypeOK, ClaimsTypeOK, IsClaimMap
<1>1. ASSUME NEW owner \in Users, NEW amount \in 1..MaxAmount,
             NEW releaseAt \in now..MaxTime, Create(owner, amount, releaseAt)
      PROVE  UNCHANGED <<claims, nextClaimId>>
  BY <1>1 DEF Create, CreatePendingClaim
<1>2. ASSUME NEW issued \in 0..MaxId, AssignIssuedId(issued)
      PROVE  UNCHANGED <<claims, nextClaimId>>
  BY <1>2 DEF AssignIssuedId, SetPendingClaimId
<1>3. CASE Commit
  <2> DEFINE new == pendingClaim.id
  <2>1. /\ ReadyToCommit
        /\ claims' = [i \in DOMAIN claims \cup {new} |->
                        IF i = new THEN pendingClaim ELSE claims[i]]
        /\ nextClaimId' = IF new >= nextClaimId THEN new + 1 ELSE nextClaimId
    BY <1>3 DEF Commit, CommitPendingClaim
  <2>2. new \in Nat /\ new >= nextClaimId
    BY <2>1 DEF ReadyToCommit, IdsBelowCounter, Claim
  <2> QED
    BY <2>1, <2>2
<1>4. ASSUME NEW sender \in Users, NEW i \in DOMAIN claims, Withdraw(sender, i)
      PROVE  /\ nextClaimId' = nextClaimId
             /\ \A id \in DOMAIN claims' :
                  id \in DOMAIN claims /\ claims'[id].owner = claims[id].owner
  BY <1>4 DEF Withdraw, ClaimTokens, Restrict
<1>5. ASSUME NEW sender \in Users, NEW i \in DOMAIN claims,
             NEW amount \in 0..MaxAmount, ForceWithdraw(sender, i, amount)
      PROVE  /\ nextClaimId' = nextClaimId
             /\ \A id \in DOMAIN claims' :
                  id \in DOMAIN claims /\ claims'[id].owner = claims[id].owner
  BY <1>5 DEF ForceWithdraw, ForceClaim, Restrict, Claim
<1>6. CASE Tick
  BY <1>6 DEF Tick, claimsVars
<1> QED
  BY <1>1, <1>2, <1>3, <1>4, <1>5, <1>6 DEF Next

(* The reader's next page is a prefix of what is ahead.                    *)
LEMMA NextPageKeepsNothingBehind ==
  ASSUME Inv, NothingBehind, NEW limit \in 1..MaxLimit, NextPage(limit)
  PROVE  NothingBehind'
<1> DEFINE page == Page(limit)
<1>1. /\ reading # NotReading /\ Cardinality(page) = limit
      /\ reading' = [reading EXCEPT !.startAfter = Max(page), !.seen = @ \cup page]
      /\ UNCHANGED <<claims, nextClaimId>>
  BY DEF NextPage, vars, claimsVars
<1>2. /\ page = Take(Ahead, limit) /\ page \subseteq Ahead
      /\ reading \in Reading /\ limit \in Nat \ {0}
  BY <1>1, PagingAssumption
  DEF Page, QueryClaimsForOwner, Ahead, Take, NothingBehind
<1>3. page # {} /\ page \in SUBSET Nat
  BY <1>1, <1>2, AheadFinite, FS_EmptySet
<1>4. /\ Max(page) \in page /\ \A id \in page : id <= Max(page)
      /\ Max(page) \in Nat /\ Max(page) < nextClaimId
  <2>1. \A id \in page : id <= nextClaimId
    BY <1>2, AheadFinite DEF Ahead, ClaimsOf
  <2>2. nextClaimId \in Nat /\ \A id \in page : id < nextClaimId
    BY <1>2, AheadFinite DEF Ahead, ClaimsOf
  <2> QED
    BY <1>3, <2>1, <2>2, LastId
<1> HIDE DEF page
<1>5. /\ reading' \in Reading /\ reading'.owner = reading.owner
      /\ reading'.startAfter = Max(page) /\ reading'.seen = reading.seen \cup page
  BY <1>1, <1>2, <1>3, <1>4 DEF Reading
<1>6. ASSUME NEW id \in ClaimsOf(reading.owner), id <= Max(page)
      PROVE  id \in reading.seen \cup page
  <2>1. id \in Nat /\ reading.startAfter \in Int
    BY <1>2, AheadFinite DEF ClaimsOf, Reading, NoStart
  <2>2. CASE id <= reading.startAfter
    BY <1>1, <2>2 DEF NothingBehind
  <2>3. CASE id > reading.startAfter /\ id # Max(page)
    <3>1. id \in Ahead /\ id < Max(page)
      BY <1>4, <1>6, <2>1, <2>3 DEF Ahead
    <3> QED
      BY <1>2, <1>4, <3>1, AheadFinite, PageIsPrefix
  <2> QED
    BY <1>4, <2>1, <2>2, <2>3
<1>7. ClaimsOf(reading.owner)' = ClaimsOf(reading.owner)
  BY <1>1, <1>5 DEF ClaimsOf
<1> QED
  BY <1>1, <1>4, <1>5, <1>6, <1>7 DEF NothingBehind

LEMMA NothingBehindIsKept ==
  ASSUME Inv, NothingBehind, [PagingNext]_pagingVars
  PROVE  NothingBehind'
<1>1. CASE Next /\ UNCHANGED reading
  <2> SUFFICES ASSUME reading # NotReading
               PROVE  /\ reading.startAfter < nextClaimId'
                      /\ \A id \in ClaimsOf(reading.owner)' :
                           id <= reading.startAfter => id \in reading.seen
    BY <1>1 DEF NothingBehind, ClaimsOf
  <2>1. /\ reading.startAfter \in Int /\ reading.startAfter < nextClaimId
        /\ nextClaimId \in Nat
    BY AheadFinite DEF NothingBehind, Reading, NoStart
  <2>2. nextClaimId' \in Nat /\ nextClaimId <= nextClaimId'
    BY <1>1, StoreAddsAhead
  <2>3. ASSUME NEW id \in ClaimsOf(reading.owner)', id <= reading.startAfter
        PROVE  id \in reading.seen
    <3>1. \/ id \in DOMAIN claims /\ claims'[id].owner = claims[id].owner
          \/ id \in Nat /\ id >= nextClaimId
      BY <1>1, StoreAddsAhead DEF ClaimsOf
    <3>2. id \in ClaimsOf(reading.owner)
      BY <1>1, <2>1, <2>3, <3>1 DEF ClaimsOf
    <3> QED
      BY <2>3, <3>2 DEF NothingBehind
  <2> QED
    BY <2>1, <2>2, <2>3
<1>2. ASSUME NEW owner \in Users, StartReading(owner)
      PROVE  NothingBehind'
  <2>1. /\ reading' = [owner |-> owner, startAfter |-> NoStart, seen |-> {}]
        /\ UNCHANGED <<claims, nextClaimId>>
    BY <1>2 DEF StartReading, vars, claimsVars
  <2> QED
    BY <2>1, AheadFinite DEF NothingBehind, Reading, NoStart, ClaimsOf
<1>3. ASSUME NEW limit \in 1..MaxLimit, LastPage(limit)
      PROVE  NothingBehind'
  BY <1>3 DEF LastPage, NothingBehind
<1>4. CASE UNCHANGED pagingVars
  BY <1>4 DEF pagingVars, vars, claimsVars, NothingBehind, ClaimsOf
<1> QED
  BY <1>1, <1>2, <1>3, <1>4, NextPageKeepsNothingBehind DEF PagingNext

(* No claim behind the reader's position is missed, in any state           *)
(* (query_claims_for_owner, commit_pending_claim).                         *)
THEOREM NothingIsBehind == PagingSpec => []NothingBehind
<1>1. PagingInit => NothingBehind
  BY DEF PagingInit, NothingBehind
<1>2. Inv /\ NothingBehind /\ [PagingNext]_pagingVars => NothingBehind'
  BY NothingBehindIsKept
<1> QED
  BY <1>1, <1>2, StoreIsUnderSpec, PTL DEF PagingSpec

(* A reader that gets its last page has seen every open claim of the       *)
(* owner: the action property ReadingIsComplete.                           *)
THEOREM ReadingStaysComplete == PagingSpec => ReadingIsComplete
<1>1. Inv /\ NothingBehind => NothingMissed
  <2> SUFFICES ASSUME Inv, NothingBehind, NEW limit \in 1..MaxLimit,
                      LastPage(limit), NEW id \in ClaimsOf(reading.owner)
               PROVE  id \in reading.seen \cup Page(limit)
    BY DEF NothingMissed
  <2>1. /\ reading # NotReading /\ Cardinality(Take(Ahead, limit)) < limit
        /\ Page(limit) = Take(Ahead, limit) /\ limit \in Nat
    BY PagingAssumption DEF LastPage, Page, QueryClaimsForOwner, Ahead
  <2>2. Ahead \subseteq Page(limit)
    BY <2>1, AheadFinite, ShortPageIsAll
  <2>3. id \in Nat /\ reading.startAfter \in Int
    BY <2>1, AheadFinite DEF ClaimsOf, NothingBehind, Reading, NoStart
  <2> QED
    BY <2>1, <2>2, <2>3 DEF Ahead, NothingBehind
<1>2. Inv /\ NothingBehind /\ [PagingNext]_pagingVars => [NothingMissed]_pagingVars
  BY <1>1
<1> QED
  BY <1>2, StoreIsUnderSpec, NothingIsBehind, PTL DEF PagingSpec, ReadingIsComplete
============================================================================
