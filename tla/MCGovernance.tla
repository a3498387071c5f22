---------------------------- MODULE MCGovernance ----------------------------
(* Two pool assets and a reward asset outside of the pool; the first router*)
(* routes between all of them, the second only within the pool.            *)
EXTENDS Governance

CONSTANTS alice, bob, osmo, atom, ion, router1, router2

MCAccounts == {alice, bob}
MCAssets == {osmo, atom, ion}
MCPoolAssets == {osmo, atom}
MCRouters == {router1, router2}
MCRoutes == [r \in MCRouters |-> IF r = router1 THEN MCAssets \X MCAssets
                                 ELSE MCPoolAssets \X MCPoolAssets]
=============================================================================
