----------------------------- MODULE VaultMath -----------------------------
(***************************************************************************)
(* The share arithmetic of the vaults: the conversions between base tokens *)
(* (the LP token that is deposited) and vault tokens (the shares), and the *)
(* performance fee.  CosmWasm's Uint128 is checked: a result that does not *)
(* fit aborts the transaction, so Fits is a guard wherever a result is     *)
(* stored or sent.                                                         *)
(***************************************************************************)
EXTENDS Integers, FiniteSetsExt

CONSTANTS
  VaultTokensPerBaseToken,  \* DEFAULT_VAULT_TOKENS_PER_STAKED_BASE_TOKEN, 10^6
  MaxUint128,               \* the largest Uint128, 2^128 - 1
  DecimalOne                \* Decimal::one() in units of Decimal, 10^18

ASSUME VaultMathAssumption ==
  /\ VaultTokensPerBaseToken \in Nat \ {0}
  /\ MaxUint128 \in Nat
  /\ DecimalOne \in Nat \ {0}

Fits(n) == n <= MaxUint128

(* The sum of f over a finite set: of balances over accounts, for example. *)
SumOver(f, S) == MapThenSumSet(LAMBDA x : f[x], S)

(* Uint128::multiply_ratio: a * b / c in 256 bits, rounded down.           *)
MultiplyRatio(a, b, c) == (a * b) \div c

(* Defect: shares are rounded up, so that a deposit is never worth none.   *)
CalculateVaultTokensRoundedUp(baseTokens, staked, supply) ==
  IF staked = 0
  THEN baseTokens * VaultTokensPerBaseToken
  ELSE (supply * baseTokens + staked - 1) \div staked

(* calculate_vault_tokens: the first depositor gets a fixed number of      *)
(* shares per base token, everyone else a share of the supply.             *)
CalculateVaultTokens(baseTokens, staked, supply) ==
  IF staked = 0
  THEN baseTokens * VaultTokensPerBaseToken
  ELSE MultiplyRatio(supply, baseTokens, staked)

(* Defect: the value of the shares is rounded up.                          *)
CalculateBaseTokensRoundedUp(vaultTokens, staked, supply) ==
  IF supply = 0
  THEN vaultTokens \div VaultTokensPerBaseToken
  ELSE (staked * vaultTokens + supply - 1) \div supply

(* calculate_base_tokens.                                                  *)
CalculateBaseTokens(vaultTokens, staked, supply) ==
  IF supply = 0
  THEN vaultTokens \div VaultTokensPerBaseToken
  ELSE MultiplyRatio(staked, vaultTokens, supply)

(* What is left of a reward balance after the performance fee; the fee is  *)
(* the rest, so rounding is in the treasury's favour.                      *)
BalanceAfterFee(balance, performanceFee) ==
  MultiplyRatio(balance, DecimalOne - performanceFee, DecimalOne)

============================================================================
