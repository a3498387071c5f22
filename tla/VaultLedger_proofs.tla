------------------------ MODULE VaultLedger_proofs ------------------------
(* The promises of VaultLedger, for every width of Uint128 and every share *)
(* scale.                                                                  *)
EXTENDS VaultLedger, VaultMath_proofs

(* A deposit keeps the totals natural numbers, and the vault is not empty  *)
(* after it (execute_deposit and its callbacks).                           *)
LEMMA DepositKeepsInv ==
  ASSUME LedgerInv,
         NEW amount \in Nat \ {0}, NEW yield \in Nat, Deposit(amount, yield)
  PROVE  LedgerInv'
<1> DEFINE staked == totalStaked + yield
           shares == CalculateVaultTokens(amount, staked, supply)
<1>1. /\ totalStaked \in Nat /\ supply \in Nat /\ staked \in Nat
      /\ VaultTokensPerBaseToken \in Nat \ {0}
  BY VaultMathAssumption DEF LedgerInv, TypeOK, VaultMathAssumption
<1>2. /\ shares > 0
      /\ totalStaked' = staked + amount
      /\ supply' = supply + shares
  BY DEF Deposit
<1>3. shares \in Nat
  <2>1. CASE staked = 0
    BY <1>1, <2>1, amount * VaultTokensPerBaseToken \in Nat
    DEF CalculateVaultTokens
  <2>2. CASE staked # 0
    BY <1>1, <2>2, DepositKeepsPrice, amount \in Nat, staked \in Nat \ {0}
  <2> QED
    BY <2>1, <2>2
<1> HIDE DEF shares
<1> QED
  BY <1>1, <1>2, <1>3 DEF LedgerInv, TypeOK, EmptyTogether

(* A redemption empties the vault exactly when it burns the last share     *)
(* (burn_vault_tokens_for_base_tokens).                                    *)
LEMMA RedeemKeepsInv ==
  ASSUME LedgerInv,
         NEW vaultTokens \in 1..supply, NEW yield \in Nat,
         Redeem(vaultTokens, yield)
  PROVE  LedgerInv'
<1> DEFINE staked == totalStaked + yield
           baseTokens == CalculateBaseTokens(vaultTokens, staked, supply)
<1>1. /\ totalStaked \in Nat \ {0} /\ supply \in Nat \ {0}
      /\ staked \in Nat \ {0}
      /\ vaultTokens \in Nat \ {0} /\ vaultTokens <= supply
  BY DEF LedgerInv, TypeOK, EmptyTogether
<1>2. /\ totalStaked' = staked - baseTokens
      /\ supply' = supply - vaultTokens
  BY DEF Redeem
<1>3. /\ baseTokens \in 0..staked
      /\ vaultTokens = supply => baseTokens = staked
      /\ staked > 0 /\ vaultTokens < supply => baseTokens < staked
  BY <1>1, RedeemKeepsPrice, vaultTokens \in 0..supply
<1> HIDE DEF baseTokens
<1> QED
  BY <1>1, <1>2, <1>3 DEF LedgerInv, TypeOK, EmptyTogether

(* The totals are natural numbers, and shares exist exactly while base     *)
(* tokens are staked.                                                      *)
THEOREM LedgerInvariant == Spec => []LedgerInv
<1>1. Init => LedgerInv
  BY DEF Init, LedgerInv, TypeOK, EmptyTogether
<1>2. LedgerInv /\ [Next]_ledgerVars => LedgerInv'
  <2> SUFFICES ASSUME LedgerInv, [Next]_ledgerVars PROVE LedgerInv'
    OBVIOUS
  <2>0. MaxUint128 \in Nat
    BY VaultMathAssumption DEF VaultMathAssumption
  <2>1. CASE \E amount \in 1..MaxUint128, yield \in 0..MaxUint128 :
               Deposit(amount, yield)
    BY <2>0, <2>1, DepositKeepsInv
  <2>2. CASE \E vaultTokens \in 1..supply, yield \in 0..MaxUint128 :
               Redeem(vaultTokens, yield)
    BY <2>0, <2>2, RedeemKeepsInv
  <2>3. CASE UNCHANGED ledgerVars
    BY <2>3 DEF ledgerVars, LedgerInv, TypeOK, EmptyTogether
  <2> QED
    BY <2>1, <2>2, <2>3 DEF Next
<1> QED
  BY <1>1, <1>2, PTL DEF Spec

(* A price that holds against the compounded total holds against the total *)
(* before compounding (compound only adds to the stake).                   *)
LEMMA CompoundingKeepsPrice ==
  ASSUME NEW before \in Nat, NEW yield \in Nat, NEW after \in Nat,
         NEW shares \in Nat, NEW sharesAfter \in Nat,
         after * shares >= (before + yield) * sharesAfter
  PROVE  after * shares >= before * sharesAfter
<1>1. before * sharesAfter <= (before + yield) * sharesAfter
  BY TimesMonotone, before + yield \in Nat, before <= before + yield
<1> QED
  BY <1>1, after * shares \in Nat, before * sharesAfter \in Nat,
     (before + yield) * sharesAfter \in Nat

(* The value of one share never falls: the action property PriceNeverFalls,*)
(* from the invariant and the rounding lemmas.                             *)
THEOREM SharePriceNeverFalls == Spec => PriceNeverFalls
<1> DEFINE Step == supply > 0 /\ supply' > 0
                     => totalStaked' * supply >= totalStaked * supply'
<1>1. LedgerInv /\ LedgerInv' /\ Next => Step
  <2> SUFFICES ASSUME LedgerInv, LedgerInv', Next, supply > 0, supply' > 0
               PROVE  totalStaked' * supply >= totalStaked * supply'
    OBVIOUS
  <2>1. /\ totalStaked \in Nat \ {0} /\ supply \in Nat \ {0}
        /\ totalStaked' \in Nat \ {0} /\ supply' \in Nat \ {0}
        /\ MaxUint128 \in Nat
    BY VaultMathAssumption DEF LedgerInv, TypeOK, EmptyTogether, VaultMathAssumption
  <2>2. ASSUME NEW amount \in 1..MaxUint128, NEW yield \in 0..MaxUint128,
               Deposit(amount, yield)
        PROVE  totalStaked' * supply >= totalStaked * supply'
    <3>1. totalStaked + yield \in Nat \ {0} /\ amount \in Nat /\ yield \in Nat
      BY <2>1
    <3>2. totalStaked' * supply >= (totalStaked + yield) * supply'
      BY <2>1, <2>2, <3>1, DepositKeepsPrice DEF Deposit
    <3> QED
      BY <2>1, <3>1, <3>2, CompoundingKeepsPrice
  <2>3. ASSUME NEW vaultTokens \in 1..supply, NEW yield \in 0..MaxUint128,
               Redeem(vaultTokens, yield)
        PROVE  totalStaked' * supply >= totalStaked * supply'
    <3>1. /\ totalStaked + yield \in Nat /\ yield \in Nat
          /\ vaultTokens \in 0..supply
      BY <2>1
    <3>2. totalStaked' * supply >= (totalStaked + yield) * supply'
      BY <2>1, <2>3, <3>1, RedeemKeepsPrice DEF Redeem
    <3> QED
      BY <2>1, <3>1, <3>2, CompoundingKeepsPrice
  <2> QED
    BY <2>2, <2>3 DEF Next
<1>2. LedgerInv /\ LedgerInv' /\ [Next]_ledgerVars => [Step]_ledgerVars
  BY <1>1
<1>3. Spec => []LedgerInv
  BY LedgerInvariant
<1> QED
  BY <1>2, <1>3, PTL DEF Spec, PriceNeverFalls
=============================================================================
