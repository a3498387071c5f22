------------------------- MODULE AstroportVaultDocs -------------------------
(***************************************************************************)
(* Statements of the code's comments that the code does not keep.          *)
(***************************************************************************)
EXTENDS MCAstroport

(* An admin adds the base token to the reward assets, which the code       *)
(* provides for (execute_compound.rs:106-107, "although that is unlikely") *)
(* or the pool's asset, for which the others are sold.                     *)
UnsoldRewardConfigs ==
  {RewardConfig(2, <<astro>>, osmo), RewardConfig(2, <<astro, lpToken>>, osmo),
   RewardConfig(1, <<astro, osmo>>, osmo)}

(* state.rs:22-23: the performance fee is a percentage of the profit.  It  *)
(* is taken from the whole balance of every reward asset, also of those    *)
(* that are not sold.  With the base token among them a deposit pays it;   *)
(* with a pool asset among them, what the pool did not take lies on the    *)
(* account like a new reward and pays it again.                            *)
OnlyProfitIsCharged ==
  Idle => \A a \in Assets : treasury[a] <= due[a]

============================================================================
