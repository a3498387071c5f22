------------------------------- MODULE Claims -------------------------------
(***************************************************************************)
(* The claims store of a vault with a lockup: one operator per method of   *)
(* `Claims`.  A method that returns an error is a disabled action: the     *)
(* transaction that called it is aborted and its caller models that.       *)
(*                                                                         *)
(* A claim says that owner may take amount base tokens from the vault at   *)
(* releaseAt.  A new claim is pending until it is committed, so that the   *)
(* staking contract can give it the id of the unlocking position.          *)
(***************************************************************************)
EXTENDS Integers, Functions

CONSTANTS
  Users,      \* the accounts that may own claims
  NoClaim,    \* the pending_claim item is empty
  DefaultId   \* lock_id: None, the id is taken from the counter

VARIABLES
  claims,        \* Claims.claims, a map from claim id to claim
  pendingClaim,  \* Claims.pending_claim
  nextClaimId    \* Claims.next_claim_id, 0 while it is not set

claimsVars == <<claims, pendingClaim, nextClaimId>>

Claim == [owner : Users, id : Nat, releaseAt : Nat, amount : Nat]

ASSUME ClaimsAssumption == DefaultId \notin Nat /\ NoClaim \notin Claim

IsClaimMap(map) ==
  /\ DOMAIN map \subseteq Nat
  /\ map \in [DOMAIN map -> Claim]

ClaimsTypeOK ==
  /\ IsClaimMap(claims)
  /\ pendingClaim \in Claim \cup {NoClaim}
  /\ nextClaimId \in Nat

ClaimsInit ==
  /\ claims = [id \in {} |-> NoClaim]
  /\ pendingClaim = NoClaim
  /\ nextClaimId = 0

IsExpired(claim, now) == claim.releaseAt <= now

(* Defect: an id that is not given is not taken from the counter.          *)
CreatePendingClaimWithoutId(owner, amount, releaseAt, lockId) ==
  /\ pendingClaim = NoClaim
  /\ pendingClaim' = [owner |-> owner, amount |-> amount, releaseAt |-> releaseAt,
                      id |-> lockId]
  /\ UNCHANGED <<claims, nextClaimId>>

(* create_pending_claim; an error if there is a pending claim already.     *)
CreatePendingClaim(owner, amount, releaseAt, lockId) ==
  /\ pendingClaim = NoClaim
  /\ pendingClaim' = [owner |-> owner, amount |-> amount, releaseAt |-> releaseAt,
                      id |-> IF lockId = DefaultId THEN nextClaimId ELSE lockId]
  /\ UNCHANGED <<claims, nextClaimId>>

(* set_pending_claim, as the reply handler calls it: the pending claim is  *)
(* read, given an id and written back.                                     *)
SetPendingClaimId(id) ==
  /\ pendingClaim # NoClaim
  /\ pendingClaim' = [pendingClaim EXCEPT !.id = id]
  /\ UNCHANGED <<claims, nextClaimId>>

(* Defect: the counter stays where it is when its own number is committed. *)
CommitPendingClaimCountedLate ==
  /\ pendingClaim # NoClaim
  /\ pendingClaim.id \notin DOMAIN claims
  /\ nextClaimId' = IF pendingClaim.id > nextClaimId
                    THEN pendingClaim.id + 1
                    ELSE nextClaimId
  /\ claims' = [id \in DOMAIN claims \cup {pendingClaim.id} |->
                  IF id = pendingClaim.id THEN pendingClaim ELSE claims[id]]
  /\ pendingClaim' = NoClaim

(* commit_pending_claim; an error if the id is in use.                     *)
CommitPendingClaim ==
  /\ pendingClaim # NoClaim
  /\ pendingClaim.id \notin DOMAIN claims
  /\ nextClaimId' = IF pendingClaim.id >= nextClaimId
                    THEN pendingClaim.id + 1
                    ELSE nextClaimId
  /\ claims' = [id \in DOMAIN claims \cup {pendingClaim.id} |->
                  IF id = pendingClaim.id THEN pendingClaim ELSE claims[id]]
  /\ pendingClaim' = NoClaim

(* claim_tokens: the owner takes a matured claim as a whole.               *)
ClaimTokens(sender, id, now) ==
  /\ id \in DOMAIN claims
  /\ claims[id].owner = sender
  /\ IsExpired(claims[id], now)
  /\ claims' = Restrict(claims, DOMAIN claims \ {id})
  /\ UNCHANGED <<pendingClaim, nextClaimId>>

(* Defects: the whole claim goes with a part of it; what is left of a      *)
(* claim is kept even if it is nothing; the rest of a claim is saved for   *)
(* the sender, who was not compared with its owner.                        *)
ForceClaimRemovesAll(sender, id, amount) ==
  /\ id \in DOMAIN claims
  /\ claims[id].owner = sender
  /\ amount <= claims[id].amount
  /\ claims' = Restrict(claims, DOMAIN claims \ {id})
  /\ UNCHANGED <<pendingClaim, nextClaimId>>

ForceClaimKeepsNothing(sender, id, amount) ==
  /\ id \in DOMAIN claims
  /\ claims[id].owner = sender
  /\ amount <= claims[id].amount
  /\ claims' = [claims EXCEPT ![id].amount = @ - amount]
  /\ UNCHANGED <<pendingClaim, nextClaimId>>

ForceClaimAnyOwner(sender, id, amount) ==
  /\ id \in DOMAIN claims
  /\ amount <= claims[id].amount
  /\ claims' = IF amount < claims[id].amount
               THEN [claims EXCEPT ![id].amount = @ - amount, ![id].owner = sender]
               ELSE Restrict(claims, DOMAIN claims \ {id})
  /\ UNCHANGED <<pendingClaim, nextClaimId>>

(* force_claim: the owner takes amount of a claim, matured or not; the     *)
(* claim goes when nothing is left of it.                                  *)
ForceClaim(sender, id, amount) ==
  /\ id \in DOMAIN claims
  /\ claims[id].owner = sender
  /\ amount <= claims[id].amount
  /\ claims' = IF amount < claims[id].amount
               THEN [claims EXCEPT ![id].amount = @ - amount]
               ELSE Restrict(claims, DOMAIN claims \ {id})
  /\ UNCHANGED <<pendingClaim, nextClaimId>>
============================================================================
