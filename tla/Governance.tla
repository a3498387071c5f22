----------------------------- MODULE Governance -----------------------------
(***************************************************************************)
(* The administration of a vault: the two-step transfer of the admin role, *)
(* the configuration and its partial updates, and the whitelist of the     *)
(* accounts that may force a withdrawal.  Handlers that are called by      *)
(* anybody but the admin return an error: they are disabled.               *)
(***************************************************************************)
EXTENDS Integers, SequencesExt

CONSTANTS
  Accounts,     \* the valid addresses
  NoTransfer,   \* the admin_transfer item is empty
  Assets,       \* the assets that may be rewards or the liquidation target
  PoolAssets,   \* the assets of the pool
  Routers,      \* the routers that may be configured
  Routes,       \* the pairs of assets that each router can route between
  DecimalOne,   \* Decimal::one()
  MaxFee,       \* bound on the fees that are proposed
  MaxRewards    \* bound on the length of the lists that are proposed

ASSUME GovernanceAssumption ==
  /\ NoTransfer \notin Accounts
  /\ PoolAssets \subseteq Assets
  /\ Routes \in [Routers -> SUBSET (Assets \X Assets)]
  /\ {DecimalOne, MaxFee, MaxRewards} \subseteq Nat

VARIABLES
  admin,          \* the admin in office
  adminTransfer,  \* admin_transfer: the account that is to be admin, if any
  proposer,       \* history: the admin who proposed the transfer
  config          \* the config without the accounts it only pays or calls

vars == <<admin, adminTransfer, proposer, config>>

(* The rewards are a Vec: an update may name an asset twice, and nothing   *)
(* removes it.  The whitelist is a Vec too that is only asked what it      *)
(* contains.                                                               *)
Config ==
  [performanceFee : Nat, router : Routers, rewardAssets : Seq(Assets),
   rewardLiquidationTarget : Assets, whitelist : SUBSET Accounts]

RewardLists == SeqOf(Assets, MaxRewards)

(* A field of ConfigUpdates is an Option: the empty set, or one value.     *)
Option(S) == {{}} \cup {{v} : v \in S}

ConfigUpdates ==
  [performanceFee : Option(0..MaxFee), router : Option(Routers),
   rewardAssets : Option(RewardLists), rewardLiquidationTarget : Option(Assets),
   whitelist : Option(SUBSET Accounts)]

(* ConfigUnchecked::check: the fee is at most everything, and the router   *)
(* has a path from every reward asset to the liquidation target.           *)
Routable(c) ==
  \A i \in DOMAIN c.rewardAssets :
    LET asset == c.rewardAssets[i]
    IN  asset # c.rewardLiquidationTarget
          => <<asset, c.rewardLiquidationTarget>> \in Routes[c.router]

Check(c) == c.performanceFee <= DecimalOne /\ Routable(c)

(* Config::update: the fields that are None keep their value, and the      *)
(* result is checked as a whole.                                           *)
Given(option, old) == IF option = {} THEN old ELSE CHOOSE v \in option : TRUE

Merge(c, updates) ==
  [performanceFee |-> Given(updates.performanceFee, c.performanceFee),
   router |-> Given(updates.router, c.router),
   rewardAssets |-> Given(updates.rewardAssets, c.rewardAssets),
   rewardLiquidationTarget |->
     Given(updates.rewardLiquidationTarget, c.rewardLiquidationTarget),
   whitelist |-> Given(updates.whitelist, c.whitelist)]

(* Instantiation checks the config, and that the target is in the pool.    *)
Init ==
  /\ admin \in Accounts
  /\ adminTransfer = NoTransfer
  /\ proposer = admin
  /\ config \in {c \in [performanceFee : 0..MaxFee, router : Routers,
                        rewardAssets : RewardLists,
                        rewardLiquidationTarget : PoolAssets,
                        whitelist : SUBSET Accounts] : Check(c)}

ExecuteUpdateAdmin(sender, address) ==
  /\ sender = admin
  /\ adminTransfer' = address
  /\ proposer' = sender
  /\ UNCHANGED <<admin, config>>

(* Defects: the item is read after it is removed; it is not removed.       *)
ExecuteAcceptAdminTransferReadLate(sender) ==
  /\ adminTransfer # NoTransfer
  /\ sender = adminTransfer
  /\ adminTransfer' = NoTransfer
  /\ admin' = adminTransfer'
  /\ UNCHANGED <<proposer, config>>

ExecuteAcceptAdminTransferAgain(sender) ==
  /\ adminTransfer # NoTransfer
  /\ sender = adminTransfer
  /\ admin' = adminTransfer
  /\ UNCHANGED <<adminTransfer, proposer, config>>

ExecuteAcceptAdminTransfer(sender) ==
  /\ adminTransfer # NoTransfer
  /\ sender = adminTransfer
  /\ adminTransfer' = NoTransfer
  /\ admin' = adminTransfer
  /\ UNCHANGED <<proposer, config>>

ExecuteDropAdminTransfer(sender) ==
  /\ sender = admin
  /\ adminTransfer' = NoTransfer
  /\ UNCHANGED <<admin, proposer, config>>

ExecuteUpdateConfig(sender, updates) ==
  /\ sender = admin
  /\ Check(Merge(config, updates))
  /\ config' = Merge(config, updates)
  /\ UNCHANGED <<admin, adminTransfer, proposer>>

ExecuteUpdateForceWithdrawWhitelist(sender, add, remove) ==
  /\ sender = admin
  /\ config' = [config EXCEPT !.whitelist = (@ \ remove) \cup add]
  /\ UNCHANGED <<admin, adminTransfer, proposer>>

Next ==
  \E sender \in Accounts :
    \/ \E address \in Accounts : ExecuteUpdateAdmin(sender, address)
    \/ ExecuteAcceptAdminTransfer(sender)
    \/ ExecuteDropAdminTransfer(sender)
    \/ \E updates \in ConfigUpdates : ExecuteUpdateConfig(sender, updates)
    \/ \E add, remove \in SUBSET Accounts :
          ExecuteUpdateForceWithdrawWhitelist(sender, add, remove)

Spec == Init /\ [][Next]_vars

----------------------------------------------------------------------------
TypeOK ==
  /\ admin \in Accounts
  /\ adminTransfer \in Accounts \cup {NoTransfer}
  /\ proposer \in Accounts
  /\ config \in Config

(* A transfer that can be accepted was proposed by the admin in office:    *)
(* what an earlier admin proposed can never be accepted later, and the     *)
(* admin who drops a transfer is the one who initiated it                  *)
(* (execute_drop_admin_transfer).                                          *)
TransferIsCurrentAdmins == adminTransfer # NoTransfer => proposer = admin

GovernanceInv == TypeOK /\ TransferIsCurrentAdmins

----------------------------------------------------------------------------
(* state.rs:32-34: the liquidation target should be one of the assets in   *)
(* the pool.  Instantiation refuses any other; a config update does not.   *)
TargetInPool == config.rewardLiquidationTarget \in PoolAssets
============================================================================
