------------------------- MODULE Governance_proofs -------------------------
(* The administration of a vault keeps its invariant, for any accounts,    *)
(* assets and routers.                                                     *)
EXTENDS Governance, TLAPS

(* The lists that are proposed are lists of assets.                        *)
LEMMA ListsType == RewardLists \subseteq Seq(Assets)
<1> SUFFICES ASSUME NEW m \in 0..MaxRewards, NEW list \in [1..m -> Assets]
             PROVE  list \in Seq(Assets)
  BY DEF RewardLists, SeqOf
<1>1. m \in Nat
  BY GovernanceAssumption DEF GovernanceAssumption
<1> QED
  BY <1>1

(* A field has the value it is given, or keeps the one it has.             *)
LEMMA GivenType ==
  ASSUME NEW S, NEW option \in Option(S), NEW old \in S
  PROVE  Given(option, old) \in S
  BY DEF Option, Given

(* A merged config is a config again.                                      *)
LEMMA MergeType ==
  ASSUME NEW c \in Config, NEW updates \in ConfigUpdates
  PROVE  Merge(c, updates) \in Config
<1>1. Given(updates.performanceFee, c.performanceFee) \in Nat
  <2>1. /\ updates.performanceFee \in Option(Nat)
        /\ c.performanceFee \in Nat
    BY DEF ConfigUpdates, Config, Option
  <2> QED
    BY <2>1, GivenType
<1>2. Given(updates.router, c.router) \in Routers
  BY GivenType DEF ConfigUpdates, Config
<1>3. Given(updates.rewardAssets, c.rewardAssets) \in Seq(Assets)
  <2>1. /\ updates.rewardAssets \in Option(Seq(Assets))
        /\ c.rewardAssets \in Seq(Assets)
    BY ListsType DEF ConfigUpdates, Config, Option
  <2> QED
    BY <2>1, GivenType
<1>4. Given(updates.rewardLiquidationTarget, c.rewardLiquidationTarget) \in Assets
  BY GivenType DEF ConfigUpdates, Config
<1>5. Given(updates.whitelist, c.whitelist) \in SUBSET Accounts
  BY GivenType DEF ConfigUpdates, Config
<1> QED
  BY <1>1, <1>2, <1>3, <1>4, <1>5 DEF Merge, Config

(* The steps of the admin transfer.                                        *)
LEMMA TransferKeepsInv ==
  ASSUME GovernanceInv, NEW sender \in Accounts,
         \/ \E address \in Accounts : ExecuteUpdateAdmin(sender, address)
         \/ ExecuteAcceptAdminTransfer(sender)
         \/ ExecuteDropAdminTransfer(sender)
  PROVE  GovernanceInv'
<1>1. config' = config
  BY DEF ExecuteUpdateAdmin, ExecuteAcceptAdminTransfer, ExecuteDropAdminTransfer
<1>2. config' \in Config
  BY <1>1 DEF GovernanceInv, TypeOK
<1>3. /\ admin' \in Accounts /\ proposer' \in Accounts
      /\ adminTransfer' \in Accounts \cup {NoTransfer}
      /\ TransferIsCurrentAdmins'
  BY DEF GovernanceInv, TypeOK, TransferIsCurrentAdmins, ExecuteUpdateAdmin,
         ExecuteAcceptAdminTransfer, ExecuteDropAdminTransfer
<1>4. Config' = Config
  BY DEF Config
<1> QED
  BY <1>2, <1>3, <1>4 DEF GovernanceInv, TypeOK

(* The updates of the config.                                              *)
LEMMA UpdateKeepsInv ==
  ASSUME GovernanceInv, NEW sender \in Accounts,
         \/ \E updates \in ConfigUpdates : ExecuteUpdateConfig(sender, updates)
         \/ \E add, remove \in SUBSET Accounts :
               ExecuteUpdateForceWithdrawWhitelist(sender, add, remove)
  PROVE  GovernanceInv'
<1>1. UNCHANGED <<admin, adminTransfer, proposer>>
  BY DEF ExecuteUpdateConfig, ExecuteUpdateForceWithdrawWhitelist
<1>2. config' \in Config
  <2>1. ASSUME NEW updates \in ConfigUpdates, ExecuteUpdateConfig(sender, updates)
        PROVE  config' \in Config
    BY <2>1, MergeType DEF ExecuteUpdateConfig, GovernanceInv, TypeOK
  <2>2. ASSUME NEW add \in SUBSET Accounts, NEW remove \in SUBSET Accounts,
               ExecuteUpdateForceWithdrawWhitelist(sender, add, remove)
        PROVE  config' \in Config
    <3> DEFINE whitelist == (config.whitelist \ remove) \cup add
    <3>1. config \in Config /\ whitelist \in SUBSET Accounts
      BY DEF GovernanceInv, TypeOK, Config
    <3>2. config' = [config EXCEPT !.whitelist = whitelist]
      BY <2>2 DEF ExecuteUpdateForceWithdrawWhitelist
    <3> HIDE DEF whitelist
    <3> QED
      BY <3>1, <3>2 DEF Config
  <2> QED
    BY <2>1, <2>2
<1>3. Config' = Config
  BY DEF Config
<1> QED
  BY <1>1, <1>2, <1>3 DEF GovernanceInv, TypeOK, TransferIsCurrentAdmins

(* Only what the admin in office proposed can be accepted, and the config  *)
(* stays one.                                                              *)
THEOREM GovernanceIsSound == Spec => []GovernanceInv
<1>1. Init => GovernanceInv
  <2> SUFFICES ASSUME Init PROVE GovernanceInv
    OBVIOUS
  <2>1. config \in Config
    BY ListsType, GovernanceAssumption DEF Init, Config, GovernanceAssumption
  <2> QED
    BY <2>1 DEF Init, GovernanceInv, TypeOK, TransferIsCurrentAdmins
<1>2. GovernanceInv /\ [Next]_vars => GovernanceInv'
  <2>1. CASE UNCHANGED vars
    BY <2>1 DEF vars, GovernanceInv, TypeOK, Config, TransferIsCurrentAdmins
  <2> QED
    BY <2>1, TransferKeepsInv, UpdateKeepsInv DEF Next
<1> QED
  BY <1>1, <1>2, PTL DEF Spec

(* The admin, the proposed admin and the config are always of their types. *)
THEOREM TypesAreKept == Spec => []TypeOK
<1>1. GovernanceInv => TypeOK
  BY DEF GovernanceInv
<1> QED
  BY <1>1, GovernanceIsSound, PTL

(* What an earlier admin proposed is never open to be accepted             *)
(* (execute_accept_admin_transfer).                                        *)
THEOREM TransferStaysCurrent == Spec => []TransferIsCurrentAdmins
<1>1. GovernanceInv => TransferIsCurrentAdmins
  BY DEF GovernanceInv
<1> QED
  BY <1>1, GovernanceIsSound, PTL
============================================================================
