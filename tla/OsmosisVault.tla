---------------------------- MODULE OsmosisVault ----------------------------
(***************************************************************************)
(* The Osmosis vault, message by message.  A user's transaction runs one   *)
(* entry handler; the handler changes the storage and returns messages; the*)
(* chain then handles the messages one at a time, first in first out, and  *)
(* the messages a callback returns before the ones that were already       *)
(* waiting.  A message that fails undoes the whole transaction.            *)
(*                                                                         *)
(* The configuration (fee, whitelist) does not change here, and there is   *)
(* one reward asset, one pool asset that it is sold for, and the base      *)
(* token.                                                                  *)
(***************************************************************************)
EXTENDS VaultMath, Claims, Lockup, Sequences, FiniteSetsExt

CONSTANTS
  Vault,           \* the contract's account
  Whitelist,       \* force_withdraw_whitelist
  Recipients,      \* accounts that may be named as the recipient
  PerformanceFee,  \* performance_fee, in units of Decimal
  LockupTime,      \* the lockup duration, in ticks of the block time
  NoLock,          \* staking.lock_id is None
  NoTx,            \* no transaction is being executed
  Float,           \* base tokens the vault is given when it is set up
  UserBase,        \* base tokens every user starts with
  Incentives,      \* reward tokens that are ever distributed
  MaxCounter,      \* the last value of DURATION_COUNTER that a lock accepts
  MaxTime,         \* bound on the block time
  MaxLockId        \* bound on the lock ids

Accounts == Users \cup {Vault}

ASSUME OsmosisAssumption ==
  /\ IsFiniteSet(Users) /\ Vault \notin Users
  /\ Whitelist \subseteq Users /\ Recipients \subseteq Accounts
  /\ PerformanceFee \in 0..DecimalOne
  /\ LockupTime \in Nat
  /\ NoLock \notin Nat
  /\ {Float, UserBase, Incentives, MaxCounter, MaxTime, MaxLockId} \subseteq Nat

VARIABLES
  storage,  \* [totalStaked, lockId, durationCounter]
  bank,     \* [base, shares : balances of the accounts, supply : of shares,
            \*  rewards, poolAsset : balances of the vault,
            \*  incentives : rewards that are still to be distributed]
  now,      \* the block time
  donated,  \* history: base tokens the vault got outside of deposits
  queue,    \* the messages of the transaction that are still to be handled
  saved     \* the state before the transaction, or NoTx

vars == <<storage, bank, lockupVars, claimsVars, now, donated, queue, saved>>

(* The instantiated vault: nothing is staked and no lock is known.         *)
Init ==
  /\ storage = [totalStaked |-> 0, lockId |-> NoLock, durationCounter |-> 0]
  /\ bank = [base |-> [a \in Accounts |-> IF a = Vault THEN Float ELSE UserBase],
             shares |-> [a \in Accounts |-> 0], supply |-> 0,
             rewards |-> 0, poolAsset |-> 0, incentives |-> Incentives]
  /\ LockupInit
  /\ ClaimsInit
  /\ now = 0
  /\ donated = Float
  /\ queue = <<>>
  /\ saved = NoTx

----------------------------------------------------------------------------
(* Messages.  VaultDuration stands for the lockup duration of the vault;   *)
(* the n-th dummy lock has a duration of n nanoseconds.                    *)
VaultDuration == 0

SellRewards == [type |-> "SellRewards"]
ProvideLiquidity == [type |-> "ProvideLiquidity"]
Stake(before) == [type |-> "Stake", before |-> before]
MintVaultToken(amount, recipient) ==
  [type |-> "MintVaultToken", amount |-> amount, recipient |-> recipient]
Unlock(owner, vaultTokens) ==
  [type |-> "Unlock", owner |-> owner, amount |-> vaultTokens]
SaveClaim == [type |-> "SaveClaim"]

PayTreasury(amount) == [type |-> "PayTreasury", amount |-> amount]
Swap(amount) == [type |-> "Swap", amount |-> amount]
JoinPool(amount) == [type |-> "JoinPool", amount |-> amount]
Mint(amount, recipient) ==
  [type |-> "Mint", amount |-> amount, recipient |-> recipient]
Burn(amount) == [type |-> "Burn", amount |-> amount]
Send(amount, recipient) ==
  [type |-> "Send", amount |-> amount, recipient |-> recipient]
LockMsg(duration, amount) ==
  [type |-> "LockTokens", duration |-> duration, amount |-> amount]
BeginUnlockMsg(id, amount) ==
  [type |-> "BeginUnlocking", id |-> id, amount |-> amount]
ForceUnlockMsg(id, amount) ==
  [type |-> "ForceUnlock", id |-> id, amount |-> amount]

Message ==
  [type : {"SellRewards", "ProvideLiquidity", "SaveClaim"}]
    \cup [type : {"Stake"}, before : Nat]
    \cup [type : {"MintVaultToken", "Mint", "Send"}, amount : Nat, recipient : Accounts]
    \cup [type : {"Unlock"}, owner : Users, amount : Nat]
    \cup [type : {"PayTreasury", "Swap", "JoinPool", "Burn"}, amount : Nat]
    \cup [type : {"LockTokens"}, duration : Nat, amount : Nat]
    \cup [type : {"BeginUnlocking", "ForceUnlock"}, id : Nat, amount : Nat]

----------------------------------------------------------------------------
(* Transactions.                                                           *)
Idle == queue = <<>>

Snapshot ==
  [storage |-> storage, bank |-> bank, locks |-> locks, lastLockId |-> lastLockId, claims |-> claims,
   pendingClaim |-> pendingClaim, nextClaimId |-> nextClaimId]

BeginTx(messages) ==
  /\ Idle
  /\ queue' = messages
  /\ saved' = Snapshot
  /\ UNCHANGED <<now, donated>>

(* Bound: there are ids for n more locks.                                  *)
RoomForLocks(n) == lastLockId + n <= MaxLockId

(* The head of the queue is a message of the given type.                   *)
Handles(type) == ~Idle /\ Head(queue).type = type

(* The head of the queue is done and has sent messages of its own.  The    *)
(* transaction is committed with its last message.                         *)
Continue(messages) ==
  /\ queue' = messages \o Tail(queue)
  /\ saved' = IF queue' = <<>> THEN NoTx ELSE saved
  /\ UNCHANGED <<now, donated>>

Revert ==
  /\ queue' = <<>>
  /\ saved' = NoTx
  /\ storage' = saved.storage
  /\ bank' = saved.bank
  /\ locks' = saved.locks
  /\ lastLockId' = saved.lastLockId
  /\ claims' = saved.claims
  /\ pendingClaim' = saved.pendingClaim
  /\ nextClaimId' = saved.nextClaimId
  /\ UNCHANGED <<now, donated>>

----------------------------------------------------------------------------
(* Entry handlers.                                                         *)

(* Defect: what is there is staked before the liquidity is provided.       *)
CompoundStakesTooEarly(before) == <<SellRewards, Stake(before), ProvideLiquidity>>

(* compound(): the rewards are already on the vault's account, and the     *)
(* stake callback is told the balance without the deposit.                 *)
Compound(before) == <<SellRewards, ProvideLiquidity, Stake(before)>>

(* Defect: the shares are minted before the deposit is staked.             *)
ExecuteDepositMintsFirst(user, amount, recipient) ==
  /\ RoomForLocks(1)
  /\ amount \in 1..bank.base[user]
  /\ BeginTx(<<MintVaultToken(amount, recipient)>> \o Compound(bank.base[Vault]))
  /\ bank' = [bank EXCEPT !.base[user] = @ - amount, !.base[Vault] = @ + amount]
  /\ UNCHANGED <<storage, lockupVars, claimsVars>>

(* execute_deposit: the deposited coins come with the message.             *)
ExecuteDeposit(user, amount, recipient) ==
  /\ RoomForLocks(1)
  /\ amount \in 1..bank.base[user]
  /\ BeginTx(Compound(bank.base[Vault]) \o <<MintVaultToken(amount, recipient)>>)
  /\ bank' = [bank EXCEPT !.base[user] = @ - amount, !.base[Vault] = @ + amount]
  /\ UNCHANGED <<storage, lockupVars, claimsVars>>

(* The vault tokens that come with a message.                              *)
ReceiveVaultTokens(user, amount) ==
  /\ amount \in 1..bank.shares[user]
  /\ bank' = [bank EXCEPT !.shares[user] = @ - amount,
                          !.shares[Vault] = @ + amount]

(* Defects: the claim is not saved; the counter is not saved; two base     *)
(* tokens go into every dummy lock.                                        *)
ExecuteUnlockUnsaved(user, vaultTokens) ==
  LET counter == storage.durationCounter + 1
  IN  /\ RoomForLocks(2) /\ now + LockupTime <= MaxTime
      /\ ReceiveVaultTokens(user, vaultTokens)
      /\ BeginTx(Compound(bank.base[Vault])
                   \o <<Unlock(user, vaultTokens), LockMsg(counter, 1)>>)
      /\ storage' = [storage EXCEPT !.durationCounter = counter]
      /\ UNCHANGED <<lockupVars, claimsVars>>

ExecuteUnlockForgetsCounter(user, vaultTokens) ==
  /\ RoomForLocks(2) /\ now + LockupTime <= MaxTime
  /\ ReceiveVaultTokens(user, vaultTokens)
  /\ BeginTx(Compound(bank.base[Vault])
               \o <<Unlock(user, vaultTokens),
                    LockMsg(storage.durationCounter + 1, 1), SaveClaim>>)
  /\ UNCHANGED <<storage, lockupVars, claimsVars>>

ExecuteUnlockLocksTwo(user, vaultTokens) ==
  LET counter == storage.durationCounter + 1
  IN  /\ RoomForLocks(2) /\ now + LockupTime <= MaxTime
      /\ ReceiveVaultTokens(user, vaultTokens)
      /\ BeginTx(Compound(bank.base[Vault])
                   \o <<Unlock(user, vaultTokens), LockMsg(counter, 2), SaveClaim>>)
      /\ storage' = [storage EXCEPT !.durationCounter = counter]
      /\ UNCHANGED <<lockupVars, claimsVars>>

(* execute_unlock.  The id of the unlocking position is not in the answer  *)
(* to MsgBeginUnlocking, so a lock of one base token and of a new duration *)
(* is made after it: the position should have the id before that lock's.   *)
(* MaxCounter is the last counter value with which that succeeds: a        *)
(* Duration on the chain has less than 10^9 nanoseconds, so the lock       *)
(* message is refused well before the i32 overflows.                       *)
ExecuteUnlock(user, vaultTokens) ==
  LET counter == storage.durationCounter + 1
  IN  /\ counter <= MaxCounter
      /\ RoomForLocks(2) /\ now + LockupTime <= MaxTime
      /\ ReceiveVaultTokens(user, vaultTokens)
      /\ BeginTx(Compound(bank.base[Vault])
                   \o <<Unlock(user, vaultTokens), LockMsg(counter, 1), SaveClaim>>)
      /\ storage' = [storage EXCEPT !.durationCounter = counter]
      /\ UNCHANGED <<lockupVars, claimsVars>>

(* execute_withdraw_unlocked.                                              *)
ExecuteWithdrawUnlocked(user, id, recipient) ==
  /\ ClaimTokens(user, id, now)
  /\ BeginTx(<<Send(claims[id].amount, recipient)>>)
  /\ UNCHANGED <<storage, bank, lockupVars>>

(* burn_vault_tokens_for_base_tokens: what the vault tokens are worth, at  *)
(* the totals of the moment; the burn itself is a message.                 *)
BurnValue(vaultTokens) ==
  CalculateBaseTokens(vaultTokens, storage.totalStaked, bank.supply)

(* Defect: the staked total is not updated.                                *)
BurnVaultTokensUncounted(vaultTokens) ==
  BurnValue(vaultTokens) <= storage.totalStaked /\ UNCHANGED storage

BurnVaultTokens(vaultTokens) ==
  /\ BurnValue(vaultTokens) <= storage.totalStaked
  /\ storage' = [storage EXCEPT !.totalStaked = @ - BurnValue(vaultTokens)]

(* execute_force_redeem: without compounding, and without a claim.         *)
ExecuteForceRedeem(user, vaultTokens, recipient) ==
  LET baseTokens == BurnValue(vaultTokens)
  IN  /\ RoomForLocks(1)
      /\ user \in Whitelist
      /\ storage.lockId # NoLock
      /\ ReceiveVaultTokens(user, vaultTokens)
      /\ BurnVaultTokens(vaultTokens)
      /\ BeginTx(<<Burn(vaultTokens), ForceUnlockMsg(storage.lockId, baseTokens),
                   Send(baseTokens, recipient)>>)
      /\ UNCHANGED <<lockupVars, claimsVars>>

(* execute_force_withdraw_unlocking: the tokens of a matured claim are     *)
(* taken to be on the vault's account already.                             *)
ExecuteForceWithdrawUnlocking(user, id, amount, recipient) ==
  /\ RoomForLocks(1)
  /\ user \in Whitelist
  /\ ForceClaim(user, id, amount)
  /\ BeginTx((IF IsExpired(claims[id], now)
              THEN <<>>
              ELSE <<ForceUnlockMsg(id, amount)>>)
             \o <<Send(amount, recipient)>>)
  /\ UNCHANGED <<storage, bank, lockupVars>>

----------------------------------------------------------------------------
(* Callbacks: messages of the vault to itself.                             *)

NonZero(amount, messages) == IF amount = 0 THEN <<>> ELSE messages

(* execute_callback_sell_rewards, for one reward asset that is neither in  *)
(* the pool nor the base token, with a liquidation target in the pool.     *)
(* Compounding has other lists and targets.                                *)
CallbackSellRewards ==
  LET toSell == BalanceAfterFee(bank.rewards, PerformanceFee)
      fee == bank.rewards - toSell
  IN  /\ Handles("SellRewards")
      /\ Continue(NonZero(fee, <<PayTreasury(fee)>>)
                    \o NonZero(toSell, <<Swap(toSell)>>))
      /\ UNCHANGED <<storage, bank, lockupVars, claimsVars>>

(* execute_callback_provide_liquidity.                                     *)
CallbackProvideLiquidity ==
  /\ Handles("ProvideLiquidity")
  /\ Continue(NonZero(bank.poolAsset, <<JoinPool(bank.poolAsset)>>))
  /\ UNCHANGED <<storage, bank, lockupVars, claimsVars>>

(* Defect: the balance before is taken to be the one at the beginning.     *)
AmountToStakeAboveFloat ==
  IF bank.base[Vault] >= Float THEN bank.base[Vault] - Float ELSE 0

(* execute_callback_stake: what came in since the handler ran, and nothing *)
(* if the balance has fallen.                                              *)
AmountToStake ==
  IF bank.base[Vault] >= Head(queue).before
  THEN bank.base[Vault] - Head(queue).before
  ELSE 0

CanStake == Fits(storage.totalStaked + AmountToStake)

CallbackStake ==
  LET amount == AmountToStake
  IN  /\ Handles("Stake")
      /\ CanStake
      /\ storage' = [storage EXCEPT !.totalStaked = @ + amount]
      /\ Continue(NonZero(amount, <<LockMsg(VaultDuration, amount)>>))
      /\ UNCHANGED <<bank, lockupVars, claimsVars>>

(* Defect: the price is taken from the total before the transaction.       *)
SharesToMintAtOldPrice ==
  CalculateVaultTokens(Head(queue).amount, saved.storage.totalStaked, bank.supply)

(* execute_callback_mint_vault_token: the deposit is part of the staked    *)
(* total by now and is taken off it again.                                 *)
SharesToMint ==
  CalculateVaultTokens(Head(queue).amount,
                       storage.totalStaked - Head(queue).amount, bank.supply)

CanMintVaultToken ==
  /\ Head(queue).amount <= storage.totalStaked
  /\ Fits(SharesToMint)

CallbackMintVaultToken ==
  /\ Handles("MintVaultToken")
  /\ CanMintVaultToken
  /\ Continue(<<Mint(SharesToMint, Head(queue).recipient)>>)
  /\ UNCHANGED <<storage, bank, lockupVars, claimsVars>>

(* execute_callback_unlock.                                                *)
CanUnlock ==
  /\ storage.lockId # NoLock
  /\ pendingClaim = NoClaim
  /\ BurnValue(Head(queue).amount) <= storage.totalStaked

CallbackUnlock ==
  LET vaultTokens == Head(queue).amount
      baseTokens == BurnValue(vaultTokens)
  IN  /\ Handles("Unlock")
      /\ storage.lockId # NoLock
      /\ BurnVaultTokens(vaultTokens)
      /\ CreatePendingClaim(Head(queue).owner, baseTokens, now + LockupTime,
                            DefaultId)
      /\ Continue(<<Burn(vaultTokens),
                    BeginUnlockMsg(storage.lockId, baseTokens)>>)
      /\ UNCHANGED <<bank, lockupVars>>

(* execute_callback_save_claim.                                            *)
CanSaveClaim ==
  pendingClaim # NoClaim /\ pendingClaim.id \notin DOMAIN claims

CallbackSaveClaim ==
  /\ Handles("SaveClaim")
  /\ CommitPendingClaim
  /\ Continue(<<>>)
  /\ UNCHANGED <<storage, bank, lockupVars>>

----------------------------------------------------------------------------
(* Messages to the chain and to other contracts, with the reply handlers   *)
(* that run right after them.                                              *)

CanSpendRewards == Head(queue).amount <= bank.rewards

HandlePayTreasury ==
  /\ Handles("PayTreasury")
  /\ CanSpendRewards
  /\ bank' = [bank EXCEPT !.rewards = @ - Head(queue).amount]
  /\ Continue(<<>>)
  /\ UNCHANGED <<storage, lockupVars, claimsVars>>

(* The router pays out some of the liquidation target.                     *)
HandleSwap ==
  /\ Handles("Swap")
  /\ CanSpendRewards
  /\ \E out \in 1..Head(queue).amount :
       bank' = [bank EXCEPT !.rewards = @ - Head(queue).amount,
                            !.poolAsset = @ + out]
  /\ Continue(<<>>)
  /\ UNCHANGED <<storage, lockupVars, claimsVars>>

(* The liquidity helper returns some newly minted base tokens.             *)
CanJoinPool == Head(queue).amount <= bank.poolAsset

HandleJoinPool ==
  /\ Handles("JoinPool")
  /\ CanJoinPool
  /\ \E out \in 1..Head(queue).amount :
       bank' = [bank EXCEPT !.poolAsset = @ - Head(queue).amount,
                            !.base[Vault] = @ + out]
  /\ Continue(<<>>)
  /\ UNCHANGED <<storage, lockupVars, claimsVars>>

(* MsgMint and the transfer to the recipient; nothing cannot be minted.    *)
CanMint == Head(queue).amount > 0 /\ Fits(bank.supply + Head(queue).amount)

HandleMint ==
  LET m == Head(queue)
  IN  /\ Handles("Mint")
      /\ CanMint
      /\ bank' = [bank EXCEPT !.shares[m.recipient] = @ + m.amount,
                              !.supply = @ + m.amount]
      /\ Continue(<<>>)
      /\ UNCHANGED <<storage, lockupVars, claimsVars>>

CanBurn ==
  /\ Head(queue).amount \in 1..bank.shares[Vault]
  /\ Head(queue).amount <= bank.supply

HandleBurn ==
  /\ Handles("Burn")
  /\ CanBurn
  /\ bank' = [bank EXCEPT !.shares[Vault] = @ - Head(queue).amount,
                          !.supply = @ - Head(queue).amount]
  /\ Continue(<<>>)
  /\ UNCHANGED <<storage, lockupVars, claimsVars>>

CanSend == Head(queue).amount \in 1..bank.base[Vault]

HandleSend ==
  LET m == Head(queue)
  IN  /\ Handles("Send") /\ m.recipient # Vault
      /\ CanSend
      /\ bank' = [bank EXCEPT !.base[Vault] = @ - m.amount,
                              !.base[m.recipient] = @ + m.amount]
      /\ Continue(<<>>)
      /\ UNCHANGED <<storage, lockupVars, claimsVars>>

(* The recipient may be the contract itself: the tokens stay on its        *)
(* account, where they are like any others it was given.                   *)
HandleSendToSelf ==
  LET m == Head(queue)
  IN  /\ Handles("Send") /\ m.recipient = Vault
      /\ CanSend
      /\ donated' = donated + m.amount
      /\ queue' = Tail(queue)
      /\ saved' = IF queue' = <<>> THEN NoTx ELSE saved
      /\ UNCHANGED <<storage, bank, lockupVars, claimsVars, now>>

CanLock ==
  /\ Head(queue).amount \in 1..bank.base[Vault]
  /\ Head(queue).duration # VaultDuration => pendingClaim # NoClaim

(* Defect: the first lock id is kept for ever.                             *)
ReplyLockTokensOnce(id) ==
  /\ storage' = [storage EXCEPT !.lockId = IF @ = NoLock THEN id ELSE @]
  /\ UNCHANGED claimsVars

(* reply: the id of the vault's own lock is stored ...                     *)
ReplyLockTokens(id) ==
  /\ storage' = [storage EXCEPT !.lockId = id]
  /\ UNCHANGED claimsVars

(* Defect: the id of the pending claim is left to the counter.             *)
ReplyTempWorkaroundIgnored(id) == UNCHANGED <<storage, claimsVars>>

(* ... and the id before the dummy lock's goes into the pending claim.     *)
ReplyTempWorkaroundLockTokens(id) ==
  /\ SetPendingClaimId(id - 1)
  /\ UNCHANGED storage

(* reply.  The dummy lock's submessage replies on success only, and so the *)
(* staking object's is taken to: a lock that is refused undoes the         *)
(* transaction.  The lockup answers with data.  So the branch of reply for *)
(* an error or missing data, which changes nothing, is not reached.        *)
HandleLockTokens ==
  LET m == Head(queue)
  IN  /\ Handles("LockTokens")
      /\ CanLock
      /\ bank' = [bank EXCEPT !.base[Vault] = @ - m.amount]
      /\ \E id \in 1..NewLockId :
           /\ LockTokens(m.duration, m.amount, id)
           /\ IF m.duration = VaultDuration
              THEN ReplyLockTokens(id)
              ELSE ReplyTempWorkaroundLockTokens(id)
      /\ Continue(<<>>)

HandleBeginUnlocking ==
  /\ Handles("BeginUnlocking")
  /\ BeginUnlocking(Head(queue).id, Head(queue).amount, now + LockupTime)
  /\ Continue(<<>>)
  /\ UNCHANGED <<storage, bank, claimsVars>>

HandleForceUnlock ==
  LET m == Head(queue)
  IN  /\ Handles("ForceUnlock")
      /\ ForceUnlock(m.id, m.amount)
      /\ bank' = [bank EXCEPT !.base[Vault] = @ + m.amount]
      /\ Continue(<<>>)
      /\ UNCHANGED <<storage, claimsVars>>

(* The head of the queue can be handled.                                   *)
CanHandle ==
  LET m == Head(queue)
  IN  /\ m.type = "Stake" => CanStake
      /\ m.type = "MintVaultToken" => CanMintVaultToken
      /\ m.type = "Unlock" => CanUnlock
      /\ m.type = "SaveClaim" => CanSaveClaim
      /\ m.type \in {"PayTreasury", "Swap"} => CanSpendRewards
      /\ m.type = "JoinPool" => CanJoinPool
      /\ m.type = "Mint" => CanMint
      /\ m.type = "Burn" => CanBurn
      /\ m.type = "Send" => CanSend
      /\ m.type = "LockTokens" => CanLock
      /\ m.type = "BeginUnlocking" => CanBeginUnlocking(m.id, m.amount)
      /\ m.type = "ForceUnlock" => CanForceUnlock(m.id, m.amount)

(* A message fails ...                                                     *)
FailedMessage == ~Idle /\ ~CanHandle /\ Revert

(* ... or the router or the liquidity helper refuses one.                  *)
ExternalFailure == (Handles("Swap") \/ Handles("JoinPool")) /\ Revert

----------------------------------------------------------------------------
(* The chain between transactions.                                         *)

NextBlock ==
  /\ Idle
  /\ now < MaxTime
  /\ \A id \in DOMAIN locks : ~IsMatured(id, now)
  /\ now' = now + 1
  /\ UNCHANGED <<storage, bank, lockupVars, claimsVars, donated, queue, saved>>

(* A matured lock is returned at the end of a block: the transactions of   *)
(* that block see the claim matured before the tokens are there.           *)
LockReturned(id) ==
  /\ Idle
  /\ ReturnLock(id, now)
  /\ bank' = [bank EXCEPT !.base[Vault] = @ + locks[id].amount]
  /\ UNCHANGED <<storage, claimsVars, now, donated, queue, saved>>

RewardsDistributed ==
  /\ Idle
  /\ bank.incentives > 0
  /\ bank' = [bank EXCEPT !.incentives = @ - 1, !.rewards = @ + 1]
  /\ UNCHANGED <<storage, lockupVars, claimsVars, now, donated, queue, saved>>

SomeoneElseLocks ==
  /\ Idle
  /\ RoomForLocks(1)
  /\ ForeignLock
  /\ UNCHANGED <<storage, bank, claimsVars, now, donated, queue, saved>>

(* A plain transfer of base tokens to the vault, which it never counts.    *)
Donate(user, amount) ==
  /\ Idle
  /\ amount \in 1..bank.base[user]
  /\ bank' = [bank EXCEPT !.base[user] = @ - amount, !.base[Vault] = @ + amount]
  /\ donated' = donated + amount
  /\ UNCHANGED <<storage, lockupVars, claimsVars, now, queue, saved>>

----------------------------------------------------------------------------
HandleMessage ==
  \/ CallbackSellRewards \/ CallbackProvideLiquidity \/ CallbackStake
  \/ CallbackMintVaultToken \/ CallbackUnlock \/ CallbackSaveClaim
  \/ HandlePayTreasury \/ HandleSwap \/ HandleJoinPool
  \/ HandleMint \/ HandleBurn \/ HandleSend \/ HandleSendToSelf
  \/ HandleLockTokens \/ HandleBeginUnlocking \/ HandleForceUnlock
  \/ FailedMessage

UserTx ==
  \/ \E user \in Users : \E recipient \in {user} \cup Recipients :
       \/ \E amount \in 1..bank.base[user] :
            ExecuteDeposit(user, amount, recipient)
       \/ \E id \in DOMAIN claims : ExecuteWithdrawUnlocked(user, id, recipient)
       \/ \E vaultTokens \in 1..bank.shares[user] :
            ExecuteForceRedeem(user, vaultTokens, recipient)
       \/ \E id \in DOMAIN claims : \E amount \in 0..claims[id].amount :
            ExecuteForceWithdrawUnlocking(user, id, amount, recipient)
  \/ \E user \in Users : \E vaultTokens \in 1..bank.shares[user] :
       ExecuteUnlock(user, vaultTokens)

Environment ==
  \/ NextBlock
  \/ \E id \in DOMAIN locks : LockReturned(id)
  \/ RewardsDistributed
  \/ SomeoneElseLocks
  \/ \E user \in Users : \E amount \in 1..bank.base[user] : Donate(user, amount)

Next == HandleMessage \/ ExternalFailure \/ UserTx \/ Environment

Spec == Init /\ [][Next]_vars

----------------------------------------------------------------------------
(* Type invariant.                                                         *)
StorageType ==
  [totalStaked : Nat, lockId : Nat \cup {NoLock}, durationCounter : Nat]

BankType ==
  [base : [Accounts -> Nat], shares : [Accounts -> Nat], supply : Nat,
   rewards : Nat, poolAsset : Nat, incentives : Nat]

(* The state that a failed transaction goes back to.                       *)
SavedTypeOK ==
  /\ saved.storage \in StorageType
  /\ saved.bank \in BankType
  /\ IsLockup(saved.locks, saved.lastLockId)
  /\ IsClaimMap(saved.claims)
  /\ saved.pendingClaim \in Claim \cup {NoClaim}
  /\ saved.nextClaimId \in Nat

(* The messages, and the state to go back to while there are any.          *)
TxTypeOK ==
  /\ now \in Nat
  /\ donated \in Nat
  /\ queue \in Seq(Message)
  /\ IF Idle THEN saved = NoTx ELSE SavedTypeOK

TypeOK ==
  /\ storage \in StorageType
  /\ bank \in BankType
  /\ LockupTypeOK
  /\ ClaimsTypeOK
  /\ TxTypeOK

----------------------------------------------------------------------------
(* Safety.                                                                 *)

OwnLocks == {id \in DOMAIN locks : locks[id].duration = VaultDuration}
DummyLocks == DOMAIN locks \ OwnLocks

LockedIn(ids) == SumOver([id \in DOMAIN locks |-> locks[id].amount], ids)
ClaimedIn(ids) == SumOver([id \in DOMAIN claims |-> claims[id].amount], ids)

(* Between transactions the staked total is exactly what is locked under   *)
(* the stored lock id; when it is zero, nothing is locked.  (The total is  *)
(* stored rather than queried, base_vault.rs:18-21, so it could drift.)    *)
StakeIsLocked ==
  Idle =>
    LET staked == OwnLocks \ UnlockingLocks
    IN  IF storage.totalStaked = 0
        THEN staked = {}
        ELSE /\ staked = {storage.lockId}
             /\ locks[storage.lockId].amount = storage.totalStaked

(* Between transactions every base token outside the stake is accounted    *)
(* for: what the vault holds, what is unlocking and what sits in dummy     *)
(* locks is what was given to the vault plus what is owed on claims.       *)
ClaimsAreBacked ==
  Idle => bank.base[Vault] + LockedIn(UnlockingLocks) + LockedIn(DummyLocks)
            = donated + ClaimedIn(DOMAIN claims)

(* Once the matured locks are returned, every matured claim can be paid    *)
(* from the vault's balance, provided the tokens given to the vault cover  *)
(* one base token per unlock (execute_unlock, execute_withdraw_unlocked).  *)
MaturedClaims == {id \in DOMAIN claims : IsExpired(claims[id], now)}

CanPayMaturedClaims ==
  (Idle /\ \A id \in DOMAIN locks : ~IsMatured(id, now))
    => bank.base[Vault] >= ClaimedIn(MaturedClaims)

MaturedClaimsPayable == storage.durationCounter <= donated => CanPayMaturedClaims

(* If the id of a claim that is not matured names an unlocking lock of the *)
(* vault at all, it is the lock made for this claim, with the same amount  *)
(* and the same date: force withdrawal by id (execute_force_withdraw_      *)
(* unlocking) never takes the tokens of another claim.                     *)
ClaimNamesOwnLock ==
  Idle => \A id \in (DOMAIN claims \ MaturedClaims) \cap UnlockingLocks :
            /\ locks[id].amount = claims[id].amount
            /\ locks[id].endTime = claims[id].releaseAt

(* A duration is never given to a second dummy lock, which would add to    *)
(* the first and answer with its old id: between transactions every dummy  *)
(* lock holds the one token of its own unlock, and the counter has passed  *)
(* its duration.  (A dummy lock may be gone: a claim of the whole stake    *)
(* can have its id, and its token is then taken by force for that claim.)  *)
DummyLocksAreNew ==
  Idle => \A id \in DummyLocks :
            /\ locks[id].amount = 1 /\ ~IsUnlocking(id)
            /\ locks[id].duration <= storage.durationCounter

(* No pending claim is left over by a transaction: it would block every    *)
(* later unlock (create_pending_claim, "Pending claim already exists").    *)
NoPendingClaimLeft == Idle => pendingClaim = NoClaim

(* Messages that depend only on the vault's own bookkeeping never fail:    *)
(* the claim id is unused, the shares to burn are there, the stored lock   *)
(* holds what is unlocked from it, and the deposit is part of the total.   *)
BookkeepingNeverFails ==
  ~Idle => LET m == Head(queue)
           IN  /\ m.type = "SaveClaim" => CanSaveClaim
               /\ m.type = "Burn" => CanBurn
               /\ m.type = "Unlock" => CanUnlock
               /\ m.type = "MintVaultToken" => m.amount <= storage.totalStaked
               /\ m.type = "BeginUnlocking" /\ m.amount > 0
                    => CanBeginUnlocking(m.id, m.amount)

----------------------------------------------------------------------------
(* The vault implements the ledger: seen from outside of transactions, the *)
(* staked total and the share supply change only as VaultLedger allows.    *)
CommittedStake == IF Idle THEN storage.totalStaked ELSE saved.storage.totalStaked
CommittedSupply == IF Idle THEN bank.supply ELSE saved.bank.supply

Ledger == INSTANCE VaultLedger WITH totalStaked <- CommittedStake,
                                    supply <- CommittedSupply

ImplementsLedger == Ledger!Spec

----------------------------------------------------------------------------
(* Liveness.  The chain handles the messages of a transaction without      *)
(* delay; it makes blocks, and returns matured locks at their end, however *)
(* many transactions come (strong fairness: a block is only made between   *)
(* transactions); and while claims can be withdrawn, their owners send     *)
(* withdrawals, which are included in the end.  Nobody need do anything    *)
(* else, and rewards need not come.                                        *)
ChainGoesOn == NextBlock \/ \E id \in DOMAIN locks : LockReturned(id)

OwnersWithdraw ==
  \E user \in Users : \E id \in DOMAIN claims : ExecuteWithdrawUnlocked(user, id, user)

Fairness ==
  /\ WF_vars(HandleMessage)
  /\ SF_vars(ChainGoesOn)
  /\ SF_vars(OwnersWithdraw)

FairSpec == Spec /\ Fairness

(* Every claim is paid in full in the end: its tokens are not staked, sent *)
(* to others or locked away in the meantime (execute_callback_stake takes  *)
(* only what is new on the account, execute_withdraw_unlocked).            *)
EveryClaimIsPaid ==
  \A id \in 0..MaxLockId :
    (Idle /\ id \in DOMAIN claims) ~> (Idle /\ id \notin DOMAIN claims)
============================================================================
