---------------------------- MODULE MCAstroport ----------------------------
(* A reward that is sold, one that is the pool's asset, and an asset that  *)
(* is neither and that only a sale can bring in.                           *)
EXTENDS AstroportVault, TLC

CONSTANTS lpToken, osmo, astro, ion

RewardConfig(fee, assets, target) ==
  [performanceFee |-> fee, rewardAssets |-> assets,
   rewardLiquidationTarget |-> target]

(* The fee, the list and the target change.  One list names an asset       *)
(* twice; one target is not in the pool, but a reward, which another       *)
(* config lists as well.                                                   *)
RewardConfigs ==
  {RewardConfig(1, <<astro, osmo, ion>>, osmo),
   RewardConfig(2, <<osmo, astro, astro>>, osmo),
   RewardConfig(0, <<ion, astro>>, ion)}

UserSymmetry == Permutations(Users)
============================================================================
