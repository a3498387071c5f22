-------------------------- MODULE OsmosisVaultDocs --------------------------
(***************************************************************************)
(* Statements of the code's comments that the code does not keep.  Each is *)
(* checked by a run of its own, in which TLC finds a counterexample.       *)
(***************************************************************************)
EXTENDS OsmosisVault

(* execute_unlock.rs:87-91 and state.rs:207-209: the unlocking position    *)
(* has the id before the dummy lock's, and a claim has the id of its       *)
(* position, so that it can be force unlocked by id.  Not so when the whole*)
(* lock is unlocked: it keeps its old id, and the claim gets another.      *)
ClaimIdIsPositionId ==
  Idle => \A id \in DOMAIN claims \ MaturedClaims : id \in UnlockingLocks

(* execute_force_unlock.rs:112-113: if the lockup is expired, its tokens   *)
(* are already sent to this contract.  Not so in the block in which it     *)
(* expires, which returns the tokens only at its end.                      *)
ExpiredMeansReturned ==
  Idle => \A id \in MaturedClaims : id \notin UnlockingLocks

(* execute_unlock.rs:31-32: withdraw the base tokens from a position that  *)
(* has finished unlocking.  Without tokens of its own, the vault takes the *)
(* dummy lock's base token from such a position.                           *)
UnlockedIsWithdrawable == CanPayMaturedClaims

(* execute_staking.rs:25-27: the deposited tokens are staked and vault     *)
(* tokens are minted to the sender.  A first deposit that compounds        *)
(* pending rewards is worth zero vault tokens, and fails.                  *)
FirstDepositIsMinted ==
  Handles("Mint") /\ bank.supply = 0 => Head(queue).amount > 0

============================================================================
