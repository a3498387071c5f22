-------------------------- MODULE ClaimsLifecycle --------------------------
(***************************************************************************)
(* The claims store under every legal sequence of calls.  The vault either *)
(* lets the store number its claims or gives every pending claim the id of *)
(* a position issued by the staking contract, which never issues an id     *)
(* twice and issues them in increasing order.                              *)
(***************************************************************************)
EXTENDS Claims

CONSTANTS
  MaxAmount,   \* bound on the amount of one claim
  MaxId,       \* bound on the ids
  MaxTime      \* bound on the block time

ASSUME LifecycleAssumption == MaxAmount \in Nat /\ MaxId \in Nat /\ MaxTime \in Nat

VARIABLES
  now,            \* the block time
  chainIssuesIds, \* the staking contract issues ids (fixed for a vault)
  lastIssuedId,   \* the last id it issued, -1 before the first
  idAssigned,     \* the pending claim has got the issued id
  granted,        \* history: the amount each id was committed with
  paid            \* history: the amount paid out for each id

history == <<granted, paid>>
vars == <<claimsVars, now, chainIssuesIds, lastIssuedId, idAssigned, history>>

Init ==
  /\ ClaimsInit
  /\ now = 0
  /\ chainIssuesIds \in BOOLEAN
  /\ lastIssuedId = -1
  /\ idAssigned = FALSE
  /\ granted = [id \in {} |-> 0]
  /\ paid = [id \in {} |-> 0]

Create(owner, amount, releaseAt) ==
  /\ CreatePendingClaim(owner, amount, releaseAt, DefaultId)
  /\ idAssigned' = FALSE
  /\ UNCHANGED <<now, chainIssuesIds, lastIssuedId, history>>

AssignIssuedId(id) ==
  /\ chainIssuesIds
  /\ ~idAssigned
  /\ id > lastIssuedId
  /\ SetPendingClaimId(id)
  /\ lastIssuedId' = id
  /\ idAssigned' = TRUE
  /\ UNCHANGED <<now, chainIssuesIds, history>>

(* The pending claim has the id it is to be committed with.                *)
ReadyToCommit == pendingClaim # NoClaim /\ (chainIssuesIds => idAssigned)

Pay(id, amount) == paid' = [paid EXCEPT ![id] = @ + amount]

Commit ==
  /\ ReadyToCommit
  /\ pendingClaim.id <= MaxId
  /\ CommitPendingClaim
  /\ LET id == pendingClaim.id
         ids == DOMAIN granted \cup {id}
     IN  /\ granted' = [i \in ids |-> IF i = id THEN pendingClaim.amount
                                                ELSE granted[i]]
         /\ paid' = [i \in ids |-> IF i = id THEN 0 ELSE paid[i]]
  /\ UNCHANGED <<now, chainIssuesIds, lastIssuedId, idAssigned>>

Withdraw(sender, id) ==
  /\ ClaimTokens(sender, id, now)
  /\ Pay(id, claims[id].amount)
  /\ UNCHANGED <<now, chainIssuesIds, lastIssuedId, idAssigned, granted>>

ForceWithdraw(sender, id, amount) ==
  /\ ForceClaim(sender, id, amount)
  /\ Pay(id, amount)
  /\ UNCHANGED <<now, chainIssuesIds, lastIssuedId, idAssigned, granted>>

Tick ==
  /\ now < MaxTime
  /\ now' = now + 1
  /\ UNCHANGED <<claimsVars, chainIssuesIds, lastIssuedId, idAssigned, history>>

Next ==
  \/ \E owner \in Users, amount \in 1..MaxAmount, releaseAt \in now..MaxTime :
        Create(owner, amount, releaseAt)
  \/ \E id \in 0..MaxId : AssignIssuedId(id)
  \/ Commit
  \/ \E sender \in Users, id \in DOMAIN claims : Withdraw(sender, id)
  \/ \E sender \in Users, id \in DOMAIN claims, amount \in 0..MaxAmount :
        ForceWithdraw(sender, id, amount)
  \/ Tick

Spec == Init /\ [][Next]_vars

----------------------------------------------------------------------------
TypeOK ==
  /\ ClaimsTypeOK
  /\ now \in Nat
  /\ chainIssuesIds \in BOOLEAN
  /\ lastIssuedId \in Nat \cup {-1}
  /\ idAssigned \in BOOLEAN
  /\ DOMAIN granted \subseteq Nat
  /\ granted \in [DOMAIN granted -> Nat]
  /\ paid \in [DOMAIN granted -> Nat]

(* What is left of a claim.                                                *)
OpenAmount(id) == IF id \in DOMAIN claims THEN claims[id].amount ELSE 0

(* Every claim is paid out exactly once, whatever mix of partial forced    *)
(* withdrawals and a final withdrawal it goes through: what was paid and   *)
(* what is open always make up what was granted (force_claim and           *)
(* claim_tokens).                                                          *)
PaidPlusOpenIsGranted ==
  /\ DOMAIN claims \subseteq DOMAIN granted
  /\ \A id \in DOMAIN granted : paid[id] + OpenAmount(id) = granted[id]

(* The id a claim is committed with was never used before, not even by a   *)
(* claim that is long paid out, so commit_pending_claim ("the id MUST be   *)
(* unique") never fails and an id names one claim for ever.                *)
CommittedIdIsFresh ==
  ReadyToCommit => pendingClaim.id \notin DOMAIN granted

(* The terms of a claim never change while it is open: its owner and its   *)
(* release date are fixed, its amount only falls, and it never lingers     *)
(* with nothing left.                                                      *)
TermsKept ==
  \A id \in DOMAIN claims \cap DOMAIN claims' :
    /\ claims'[id].owner = claims[id].owner
    /\ claims'[id].releaseAt = claims[id].releaseAt
    /\ claims'[id].amount \in 1..claims[id].amount

TermsNeverChange == [][TermsKept]_vars

----------------------------------------------------------------------------
(* The inductive strengthening: every id in use is below the counter, and  *)
(* the counter is just past the last issued id when ids are issued.        *)
IdsBelowCounter ==
  /\ \A id \in DOMAIN granted : id < nextClaimId
  /\ \A id \in DOMAIN claims : claims[id].id = id
  /\ chainIssuesIds =>
       IF idAssigned /\ pendingClaim # NoClaim
       THEN pendingClaim.id = lastIssuedId /\ nextClaimId <= lastIssuedId
       ELSE nextClaimId <= lastIssuedId + 1
  /\ ~chainIssuesIds /\ pendingClaim # NoClaim => pendingClaim.id = nextClaimId

AmountsPositive ==
  /\ pendingClaim # NoClaim => pendingClaim.amount > 0
  /\ \A id \in DOMAIN claims : claims[id].amount > 0

Inv ==
  /\ TypeOK
  /\ IdsBelowCounter
  /\ AmountsPositive
  /\ PaidPlusOpenIsGranted
  /\ CommittedIdIsFresh
============================================================================
