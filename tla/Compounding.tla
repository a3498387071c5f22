---------------------------- MODULE Compounding ----------------------------
(***************************************************************************)
(* Compounding with any number of assets: what the SellRewards and         *)
(* ProvideLiquidity callbacks take from the vault's balances, and what     *)
(* the messages they send do to them.  A reward asset may be a pool asset  *)
(* (it is not sold then) or even the base token, and may be listed twice.  *)
(* The order in which the messages run is the contract's.                  *)
(***************************************************************************)
EXTENDS VaultMath, Sequences

CONSTANTS
  BaseToken,    \* base_vault.base_token, the LP token
  PoolAssets,   \* pool.pool_assets()
  OtherAssets,  \* reward assets that are neither
  Configs       \* the configs the vault may have

Assets == {BaseToken} \cup PoolAssets \cup OtherAssets

(* The fields of the config that compounding reads.  The rewards are a Vec *)
(* that may name an asset twice, and the target may be any asset.          *)
Config ==
  [performanceFee : 0..DecimalOne, rewardAssets : Seq(Assets),
   rewardLiquidationTarget : Assets]

ASSUME CompoundingAssumption ==
  /\ BaseToken \notin PoolAssets /\ BaseToken \notin OtherAssets
  /\ PoolAssets \cap OtherAssets = {}
  /\ IsFiniteSet(PoolAssets) /\ IsFiniteSet(OtherAssets)
  /\ Configs \subseteq Config

VARIABLES
  config,    \* the stored config
  holds,     \* the vault's balance of every asset
  treasury,  \* the treasury's balance of every asset
  fresh,     \* history: the income in each asset since it was last charged
  due        \* history: the fee on the income in each asset until then

assetVars == <<holds, treasury, fresh, due>>
compoundingVars == <<config, assetVars>>

Amounts == [Assets -> Nat]
Nothing == [a \in Assets |-> 0]
Total(amounts) == SumOver(amounts, Assets)

CompoundingTypeOK ==
  /\ config \in Configs
  /\ {holds, treasury, fresh, due} \subseteq Amounts

(* Instantiation wants a target in the pool.                               *)
CompoundingInit(float) ==
  /\ config \in {c \in Configs : c.rewardLiquidationTarget \in PoolAssets}
  /\ holds = [Nothing EXCEPT ![BaseToken] = float]
  /\ treasury = Nothing
  /\ fresh = Nothing
  /\ due = Nothing

(* execute_update_config: any field may change, and the target need not be *)
(* in the pool any more; the checks that there are, are in Governance.     *)
UpdateConfig ==
  /\ config' \in Configs \ {config}
  /\ UNCHANGED assetVars

----------------------------------------------------------------------------
(* How often an asset is listed as a reward.                               *)
Listed(a) ==
  Cardinality({i \in DOMAIN config.rewardAssets : config.rewardAssets[i] = a})

IsSold(a) == a \notin PoolAssets /\ a # BaseToken

AfterFee(a) == BalanceAfterFee(holds[a], config.performanceFee)

(* execute_callback_sell_rewards: the fee on the whole balance of every    *)
(* reward asset goes to the treasury ...                                   *)
FeeToTreasury == [a \in Assets |-> Listed(a) * (holds[a] - AfterFee(a))]

(* Defects: the whole balance is sold, fee included; the fee is taken off  *)
(* what is sold a second time.                                             *)
WholeBalanceToSell ==
  [a \in Assets |-> IF IsSold(a) THEN Listed(a) * holds[a] ELSE 0]

ToSellFeeTwice ==
  [a \in Assets |->
     IF IsSold(a)
     THEN Listed(a) * BalanceAfterFee(AfterFee(a), config.performanceFee)
     ELSE 0]

(* ... and the rest of those that are not in the pool to the router.       *)
ToSell == [a \in Assets |-> IF IsSold(a) THEN Listed(a) * AfterFee(a) ELSE 0]

(* execute_callback_provide_liquidity: all there is of the pool's assets.  *)
ToProvide == [a \in Assets |-> IF a \in PoolAssets THEN holds[a] ELSE 0]

(* The fee on what was earned of an asset, rounded up.                     *)
FeeOn(amount) ==
  (amount * config.performanceFee + DecimalOne - 1) \div DecimalOne

RewardsCounted ==
  /\ due' = [a \in Assets |-> IF Listed(a) > 0 THEN due[a] + FeeOn(fresh[a])
                                               ELSE due[a]]
  /\ fresh' = [a \in Assets |-> IF Listed(a) > 0 THEN 0 ELSE fresh[a]]
  /\ UNCHANGED <<config, holds, treasury>>

----------------------------------------------------------------------------
(* The messages.                                                           *)
CanSpend(amounts) == \A a \in Assets : amounts[a] <= holds[a]

SpendAndGet(amounts, asset, out) ==
  /\ CanSpend(amounts)
  /\ holds' = [a \in Assets |-> holds[a] - amounts[a]
                                + (IF a = asset THEN out ELSE 0)]

PayTreasury(amounts) ==
  /\ SpendAndGet(amounts, BaseToken, 0)
  /\ treasury' = [a \in Assets |-> treasury[a] + amounts[a]]
  /\ UNCHANGED <<config, fresh, due>>

(* The router sells a basket for some of the target of the config, which   *)
(* does not change within a transaction.  If the target is an asset that   *)
(* would be sold itself, what it brings in is income in that asset.        *)
SwapBasket(amounts) ==
  LET target == config.rewardLiquidationTarget
  IN  /\ \E out \in 1..Total(amounts) :
           /\ SpendAndGet(amounts, target, out)
           /\ fresh' = IF IsSold(target) THEN [fresh EXCEPT ![target] = @ + out]
                                         ELSE fresh
      /\ UNCHANGED <<config, treasury, due>>

(* The liquidity helper takes all it is given but what does not fit the    *)
(* ratio of the pool, and returns some new base tokens.                    *)
JoinPool(amounts) ==
  /\ \E asset \in PoolAssets : \E left \in 0..amounts[asset] :
       \E out \in 1..(Total(amounts) - left) :
         SpendAndGet([amounts EXCEPT ![asset] = @ - left], BaseToken, out)
  /\ UNCHANGED <<config, treasury, fresh, due>>

(* The staking contract pays out rewards.                                  *)
RewardsArrive(amounts) ==
  /\ holds' = [a \in Assets |-> holds[a] + amounts[a]]
  /\ fresh' = [a \in Assets |-> fresh[a] + amounts[a]]
  /\ UNCHANGED <<config, treasury, due>>

MoveBaseTokens(amount) ==
  /\ holds' = [holds EXCEPT ![BaseToken] = @ + amount]
  /\ UNCHANGED <<config, treasury, fresh, due>>

============================================================================
