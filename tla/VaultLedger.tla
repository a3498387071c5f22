---------------------------- MODULE VaultLedger ----------------------------
(***************************************************************************)
(* What a vault promises its share holders, with every message of a        *)
(* transaction folded into one step: a transaction changes the staked      *)
(* total and the share supply together or not at all.  The message-level   *)
(* model of a vault is shown to implement this specification.              *)
(***************************************************************************)
EXTENDS VaultMath

VARIABLES
  totalStaked,   \* base_vault.total_staked_base_tokens
  supply         \* the supply of the vault token

ledgerVars == <<totalStaked, supply>>

TypeOK ==
  /\ totalStaked \in Nat
  /\ supply \in Nat

Init ==
  /\ totalStaked = 0
  /\ supply = 0

(* A deposit of amount: the pending rewards are compounded into yield base *)
(* tokens first, both are staked, and shares are minted at the price the   *)
(* compounded vault has without the deposit.  A mint of nothing fails.     *)
Deposit(amount, yield) ==
  LET staked == totalStaked + yield
      shares == CalculateVaultTokens(amount, staked, supply)
  IN  /\ totalStaked' = staked + amount
      /\ shares > 0
      /\ Fits(staked + amount) /\ Fits(supply + shares)
      /\ supply' = supply + shares

(* Vault tokens burned for base tokens (Unlock, Redeem) after compounding, *)
(* or without compounding (ForceRedeem, yield = 0).  What leaves the vault *)
(* is the base tokens; a redemption of nothing fails.                      *)
Redeem(vaultTokens, yield) ==
  LET staked == totalStaked + yield
      baseTokens == CalculateBaseTokens(vaultTokens, staked, supply)
  IN  /\ vaultTokens \in 1..supply
      /\ supply' = supply - vaultTokens
      /\ baseTokens > 0
      /\ Fits(staked)
      /\ totalStaked' = staked - baseTokens

Next ==
  \/ \E amount \in 1..MaxUint128, yield \in 0..MaxUint128 : Deposit(amount, yield)
  \/ \E vaultTokens \in 1..supply, yield \in 0..MaxUint128 :
        Redeem(vaultTokens, yield)

Spec == Init /\ [][Next]_ledgerVars

----------------------------------------------------------------------------
(* Shares exist exactly while something is staked: a share is never left   *)
(* worthless, and staked tokens are never left without an owner, whatever  *)
(* the rounding of the redemptions.                                        *)
EmptyTogether == totalStaked = 0 <=> supply = 0

(* No transaction lowers the value of a share that existed before it and   *)
(* exists after it: deposits and redemptions round in favour of those who  *)
(* stay (calculate_vault_tokens, calculate_base_tokens).                   *)
PriceNeverFalls ==
  [][ supply > 0 /\ supply' > 0
        => totalStaked' * supply >= totalStaked * supply' ]_ledgerVars

LedgerInv == TypeOK /\ EmptyTogether

============================================================================
