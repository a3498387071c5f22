------------------------ MODULE OsmosisVault_proofs ------------------------
(* Type correctness of the message-level vault, for every value of the     *)
(* constants.                                                              *)
EXTENDS OsmosisVault, VaultMath_proofs, SequenceTheorems

----------------------------------------------------------------------------
(* The constants.                                                          *)
LEMMA ConstantTypes ==
  /\ VaultTokensPerBaseToken \in Nat \ {0} /\ MaxUint128 \in Nat
  /\ DecimalOne \in Nat \ {0}
  /\ PerformanceFee \in 0..DecimalOne
  /\ LockupTime \in Nat /\ Float \in Nat /\ UserBase \in Nat
  /\ Incentives \in Nat
  /\ Vault \in Accounts /\ Users \subseteq Accounts /\ Recipients \subseteq Accounts
  /\ NoLock \notin Nat
  BY VaultMathAssumption, OsmosisAssumption
  DEF VaultMathAssumption, OsmosisAssumption, Accounts

----------------------------------------------------------------------------
(* The queue and the saved state, whatever the messages are.                *)
(* The head of the queue is a message, and the rest is a queue.            *)
LEMMA HeadAndTail ==
  ASSUME TypeOK, ~Idle
  PROVE  /\ Head(queue) \in Message
         /\ Head(queue) = queue[1]
         /\ Tail(queue) \in Seq(Message)
         /\ Len(queue) \in Nat \ {0}
         /\ Len(Tail(queue)) = Len(queue) - 1
         /\ \A i \in 1..Len(Tail(queue)) : Tail(queue)[i] = queue[i + 1]
<1>1. queue \in Seq(Message) /\ queue # <<>>
  BY DEF TypeOK, TxTypeOK, Idle
<1>2. Len(queue) \in Nat \ {0}
  BY <1>1, LenProperties, EmptySeq
<1> QED
  BY <1>1, <1>2, HeadTailProperties

LEMMA ContinueType ==
  ASSUME TypeOK, ~Idle, NEW messages \in Seq(Message), Continue(messages)
  PROVE  TxTypeOK'
<1>1. queue' \in Seq(Message)
  BY HeadAndTail, ConcatProperties DEF Continue
<1>2. SavedTypeOK
  BY DEF TypeOK, TxTypeOK
<1>3. IF Idle' THEN saved' = NoTx ELSE saved' = saved
  BY DEF Continue, Idle
<1>4. Idle' \/ SavedTypeOK'
  BY <1>2, <1>3 DEF SavedTypeOK
<1> QED
  BY <1>1, <1>3, <1>4 DEF TxTypeOK, TypeOK, Continue

LEMMA BeginTxType ==
  ASSUME TypeOK, NEW messages \in Seq(Message), messages # <<>>, BeginTx(messages)
  PROVE  TxTypeOK'
<1>1. queue' \in Seq(Message) /\ ~Idle'
  BY DEF BeginTx, Idle
<1>2. saved' = Snapshot
  BY DEF BeginTx
<1>3. SavedTypeOK'
  BY <1>2 DEF TypeOK, SavedTypeOK, Snapshot, LockupTypeOK, ClaimsTypeOK
<1> QED
  BY <1>1, <1>3 DEF TxTypeOK, TypeOK, BeginTx

LEMMA RevertType ==
  ASSUME TypeOK, ~Idle, Revert
  PROVE  TypeOK'
<1>1. SavedTypeOK
  BY DEF TypeOK, TxTypeOK
<1>2. TxTypeOK'
  BY EmptySeq DEF TypeOK, TxTypeOK, Revert, Idle
<1>3. /\ storage' \in StorageType /\ bank' \in BankType
      /\ IsLockup(locks', lastLockId') /\ IsClaimMap(claims')
      /\ pendingClaim' \in Claim \cup {NoClaim} /\ nextClaimId' \in Nat
  BY <1>1 DEF SavedTypeOK, Revert
<1>4. StorageType' = StorageType /\ BankType' = BankType
  BY DEF StorageType, BankType, Accounts
<1> QED
  BY <1>2, <1>3, <1>4 DEF LockupTypeOK, ClaimsTypeOK, TypeOK

(* A step of the environment between transactions.                         *)
LEMMA BetweenTxType ==
  ASSUME TypeOK, Idle, now' \in Nat, donated' \in Nat, UNCHANGED <<queue, saved>>
  PROVE  TxTypeOK'
  BY DEF TypeOK, TxTypeOK, Idle

----------------------------------------------------------------------------
(* What each kind of message carries.                                      *)
LEMMA MessageFields ==
  ASSUME NEW m \in Message
  PROVE  /\ m.type = "Stake" => m.before \in Nat
         /\ m.type \in {"MintVaultToken", "Mint", "Send"}
              => m.amount \in Nat /\ m.recipient \in Accounts
         /\ m.type = "Unlock" => m.owner \in Users /\ m.amount \in Nat
         /\ m.type \in {"PayTreasury", "Swap", "JoinPool", "Burn"} => m.amount \in Nat
         /\ m.type = "LockTokens" => m.duration \in Nat /\ m.amount \in Nat
         /\ m.type \in {"BeginUnlocking", "ForceUnlock"}
              => m.id \in Nat /\ m.amount \in Nat
  BY DEF Message

LEMMA MessageConstructors ==
  /\ SellRewards \in Message /\ ProvideLiquidity \in Message /\ SaveClaim \in Message
  /\ \A n \in Nat : /\ Stake(n) \in Message
                    /\ PayTreasury(n) \in Message /\ Swap(n) \in Message
                    /\ JoinPool(n) \in Message /\ Burn(n) \in Message
  /\ \A n \in Nat, u \in Accounts :
       /\ MintVaultToken(n, u) \in Message /\ Mint(n, u) \in Message
       /\ Send(n, u) \in Message
  /\ \A n \in Nat, u \in Users : Unlock(u, n) \in Message
  /\ \A n \in Nat, k \in Nat :
       /\ LockMsg(k, n) \in Message
       /\ BeginUnlockMsg(k, n) \in Message /\ ForceUnlockMsg(k, n) \in Message
  BY DEF Message, SellRewards, ProvideLiquidity, SaveClaim, Stake, PayTreasury,
         Swap, JoinPool, Burn, MintVaultToken, Mint, Send, Unlock, LockMsg,
         BeginUnlockMsg, ForceUnlockMsg

(* The messages of a handler that may send one or none.                    *)
LEMMA NonZeroType ==
  ASSUME NEW n \in Nat, NEW m \in Message
  PROVE  NonZero(n, <<m>>) \in Seq(Message)
  BY <<m>> \in Seq(Message), <<>> \in Seq(Message) DEF NonZero

LEMMA CompoundType ==
  ASSUME NEW n \in Nat
  PROVE  Compound(n) \in Seq(Message) /\ Compound(n) # <<>> /\ Len(Compound(n)) = 3
<1>1. SellRewards \in Message /\ ProvideLiquidity \in Message /\ Stake(n) \in Message
  BY MessageConstructors
<1> QED
  BY <1>1 DEF Compound

----------------------------------------------------------------------------
(* The lockup keeps its type.                                              *)
LEMMA WithLockType ==
  ASSUME LockupTypeOK, NEW lock \in Lock
  PROVE  /\ IsLockup(WithLock(NewLockId, lock), NewLockId)
         /\ DOMAIN WithLock(NewLockId, lock) = DOMAIN locks \cup {NewLockId}
         /\ \A id \in DOMAIN locks : WithLock(NewLockId, lock)[id] = locks[id]
  BY DEF LockupTypeOK, IsLockup, WithLock, NewLockId

LEMMA LockAmountType ==
  ASSUME NEW map, NEW lastId, IsLockup(map, lastId),
         NEW id \in DOMAIN map, NEW amount \in Nat
  PROVE  IsLockup([map EXCEPT ![id].amount = amount], lastId)
<1>1. [map[id] EXCEPT !.amount = amount] \in Lock
  BY DEF IsLockup, Lock
<1> QED
  BY <1>1 DEF IsLockup

LEMMA LockTokensType ==
  ASSUME LockupTypeOK, NEW duration \in Nat, NEW amount \in Nat, NEW id,
         LockTokens(duration, amount, id)
  PROVE  LockupTypeOK' /\ id \in Nat \ {0}
<1>1. CASE id \in LocksToAddTo(duration) /\ lastLockId' = lastLockId
             /\ locks' = [locks EXCEPT ![id].amount = @ + amount]
  <2>1. id \in DOMAIN locks /\ id \in 1..lastLockId /\ lastLockId \in Nat
    BY <1>1 DEF LocksToAddTo, LockupTypeOK, IsLockup
  <2>2. locks[id].amount + amount \in Nat
    BY <2>1 DEF LockupTypeOK, IsLockup, Lock
  <2> DEFINE total == locks[id].amount + amount
  <2>3. locks' = [locks EXCEPT ![id].amount = total]
    BY <1>1
  <2>4. total \in Nat
    BY <2>2
  <2> HIDE DEF total
  <2>5. IsLockup(locks', lastLockId)
    BY <2>1, <2>3, <2>4, LockAmountType DEF LockupTypeOK
  <2> QED
    BY <1>1, <2>1, <2>5 DEF LockupTypeOK
<1>2. CASE id = NewLockId /\ lastLockId' = id
             /\ locks' = WithLock(id, [amount |-> amount, duration |-> duration,
                                       endTime |-> NotUnlocking])
  <2>1. [amount |-> amount, duration |-> duration, endTime |-> NotUnlocking] \in Lock
    BY DEF Lock
  <2>2. NewLockId \in Nat \ {0}
    BY DEF LockupTypeOK, IsLockup, NewLockId
  <2> QED
    BY <1>2, <2>1, <2>2, WithLockType DEF LockupTypeOK
<1> QED
  BY <1>1, <1>2 DEF LockTokens

LEMMA BeginUnlockingType ==
  ASSUME LockupTypeOK, NEW id, NEW amount, NEW endTime \in Nat,
         BeginUnlocking(id, amount, endTime)
  PROVE  LockupTypeOK'
<1>1. /\ id \in DOMAIN locks /\ amount \in Nat
      /\ locks[id] \in Lock /\ amount <= locks[id].amount
  BY DEF BeginUnlocking, CanBeginUnlocking, LockupTypeOK, IsLockup, Lock
<1>2. CASE /\ lastLockId' = NewLockId
           /\ locks' = [WithLock(NewLockId, [amount |-> amount,
                                             duration |-> locks[id].duration,
                                             endTime |-> endTime])
                          EXCEPT ![id].amount = @ - amount]
  <2> DEFINE part == [amount |-> amount, duration |-> locks[id].duration,
                      endTime |-> endTime]
  <2>1. part \in Lock
    BY <1>1 DEF Lock
  <2>2. /\ IsLockup(WithLock(NewLockId, part), NewLockId)
        /\ id \in DOMAIN WithLock(NewLockId, part)
        /\ WithLock(NewLockId, part)[id] = locks[id]
    BY <1>1, <2>1, WithLockType
  <2>3. locks[id].amount - amount \in Nat
    BY <1>1 DEF Lock
  <2> HIDE DEF part
  <2> DEFINE map == WithLock(NewLockId, part)
             rest == locks[id].amount - amount
  <2>4. locks' = [map EXCEPT ![id].amount = rest]
    BY <1>2, <2>2 DEF part
  <2>5. rest \in Nat /\ IsLockup(map, NewLockId) /\ id \in DOMAIN map
    BY <2>2, <2>3
  <2> HIDE DEF map, rest
  <2>6. IsLockup(locks', NewLockId)
    BY <2>4, <2>5, LockAmountType
  <2> QED
    BY <1>2, <2>6 DEF LockupTypeOK
<1>3. CASE locks' = [locks EXCEPT ![id].endTime = endTime] /\ lastLockId' = lastLockId
  <2>1. [locks[id] EXCEPT !.endTime = endTime] \in Lock
    BY <1>1 DEF Lock
  <2> QED
    BY <1>1, <1>3, <2>1 DEF LockupTypeOK, IsLockup
<1> QED
  BY <1>2, <1>3 DEF BeginUnlocking

LEMMA WithoutLockType ==
  ASSUME LockupTypeOK, NEW id
  PROVE  IsLockup(WithoutLock(id), lastLockId)
  BY DEF LockupTypeOK, IsLockup, WithoutLock, Restrict

LEMMA ForceUnlockType ==
  ASSUME LockupTypeOK, NEW id, NEW amount, ForceUnlock(id, amount)
  PROVE  LockupTypeOK'
<1>1. /\ id \in DOMAIN locks /\ amount \in Nat
      /\ locks[id] \in Lock /\ amount <= locks[id].amount
      /\ locks[id].amount - amount \in Nat
  BY DEF ForceUnlock, CanForceUnlock, LockupTypeOK, IsLockup, Lock
<1>2. CASE /\ locks' = [locks EXCEPT ![id].amount = @ - amount]
           /\ lastLockId' = NewLockId
  <2>1. IsLockup(locks', lastLockId)
    BY <1>1, <1>2, LockAmountType DEF LockupTypeOK
  <2> QED
    BY <1>2, <2>1 DEF LockupTypeOK, IsLockup, NewLockId
<1>3. CASE locks' = WithoutLock(id) /\ lastLockId' = lastLockId
  BY <1>3, WithoutLockType DEF LockupTypeOK
<1> QED
  BY <1>2, <1>3 DEF ForceUnlock

----------------------------------------------------------------------------
(* The claims store keeps its type.                                        *)
LEMMA CreatePendingClaimType ==
  ASSUME ClaimsTypeOK, NEW owner \in Users, NEW amount \in Nat,
         NEW releaseAt \in Nat,
         CreatePendingClaim(owner, amount, releaseAt, DefaultId)
  PROVE  ClaimsTypeOK'
  BY DEF ClaimsTypeOK, CreatePendingClaim, Claim

LEMMA SetPendingClaimIdType ==
  ASSUME ClaimsTypeOK, NEW id \in Nat, SetPendingClaimId(id)
  PROVE  ClaimsTypeOK'
  BY DEF ClaimsTypeOK, SetPendingClaimId, Claim

LEMMA CommitPendingClaimType ==
  ASSUME ClaimsTypeOK, CommitPendingClaim
  PROVE  ClaimsTypeOK'
<1>1. pendingClaim \in Claim /\ pendingClaim.id \in Nat
  BY DEF ClaimsTypeOK, CommitPendingClaim, Claim
<1>2. IsClaimMap(claims')
  BY <1>1 DEF ClaimsTypeOK, IsClaimMap, CommitPendingClaim
<1>3. nextClaimId' \in Nat /\ pendingClaim' = NoClaim
  BY <1>1 DEF ClaimsTypeOK, CommitPendingClaim
<1> QED
  BY <1>2, <1>3 DEF ClaimsTypeOK

LEMMA ClaimTokensType ==
  ASSUME ClaimsTypeOK, NEW sender, NEW id, ClaimTokens(sender, id, now)
  PROVE  ClaimsTypeOK' /\ claims[id].amount \in Nat
  BY DEF ClaimsTypeOK, IsClaimMap, ClaimTokens, Restrict, Claim

LEMMA ForceClaimType ==
  ASSUME ClaimsTypeOK, NEW sender, NEW id, NEW amount \in Nat,
         ForceClaim(sender, id, amount)
  PROVE  ClaimsTypeOK' /\ id \in Nat
<1>1. /\ id \in DOMAIN claims /\ id \in Nat
      /\ claims[id] \in Claim /\ claims[id].amount \in Nat
  BY DEF ForceClaim, ClaimsTypeOK, IsClaimMap, Claim
<1>2. CASE amount < claims[id].amount
  <2>1. [claims[id] EXCEPT !.amount = claims[id].amount - amount] \in Claim
    BY <1>1, <1>2 DEF Claim
  <2>2. claims' = [claims EXCEPT ![id] =
                     [claims[id] EXCEPT !.amount = claims[id].amount - amount]]
    BY <1>1, <1>2 DEF ForceClaim
  <2>3. IsClaimMap(claims')
    BY <1>1, <2>1, <2>2 DEF ClaimsTypeOK, IsClaimMap
  <2> QED
    BY <1>1, <2>3 DEF ForceClaim, ClaimsTypeOK
<1>3. CASE ~(amount < claims[id].amount)
  <2>1. IsClaimMap(claims')
    BY <1>1, <1>3 DEF ForceClaim, ClaimsTypeOK, IsClaimMap, Restrict
  <2> QED
    BY <1>1, <2>1 DEF ForceClaim, ClaimsTypeOK
<1> QED
  BY <1>2, <1>3

----------------------------------------------------------------------------
(* Transfers between accounts keep the bank's type.                        *)
LEMMA TransferType ==
  ASSUME NEW balances \in [Accounts -> Nat], NEW from \in Accounts,
         NEW to \in Accounts, NEW amount \in 0..balances[from], from # to
  PROVE  [balances EXCEPT ![from] = @ - amount, ![to] = @ + amount]
           \in [Accounts -> Nat]
  OBVIOUS

LEMMA BaseMovedType ==
  ASSUME bank \in BankType, NEW from \in Accounts, NEW to \in Accounts,
         NEW amount \in 0..bank.base[from], from # to
  PROVE  [bank EXCEPT !.base[from] = @ - amount, !.base[to] = @ + amount] \in BankType
<1> DEFINE base == [bank.base EXCEPT ![from] = @ - amount, ![to] = @ + amount]
<1>1. bank.base \in [Accounts -> Nat]
  BY DEF BankType
<1>2. base \in [Accounts -> Nat]
  BY <1>1, TransferType
<1>3. [bank EXCEPT !.base[from] = @ - amount, !.base[to] = @ + amount]
        = [bank EXCEPT !.base = base]
  BY <1>1 DEF BankType
<1> HIDE DEF base
<1>4. [bank EXCEPT !.base = base] \in BankType
  BY <1>2 DEF BankType
<1> QED
  BY <1>3, <1>4

LEMMA SharesMovedType ==
  ASSUME bank \in BankType, NEW from \in Accounts, NEW to \in Accounts,
         NEW amount \in 0..bank.shares[from], from # to
  PROVE  [bank EXCEPT !.shares[from] = @ - amount, !.shares[to] = @ + amount]
           \in BankType
<1> DEFINE shares == [bank.shares EXCEPT ![from] = @ - amount, ![to] = @ + amount]
<1>1. bank.shares \in [Accounts -> Nat]
  BY DEF BankType
<1>2. shares \in [Accounts -> Nat]
  BY <1>1, TransferType
<1>3. [bank EXCEPT !.shares[from] = @ - amount, !.shares[to] = @ + amount]
        = [bank EXCEPT !.shares = shares]
  BY <1>1 DEF BankType
<1> HIDE DEF shares
<1>4. [bank EXCEPT !.shares = shares] \in BankType
  BY <1>2 DEF BankType
<1> QED
  BY <1>3, <1>4

LEMMA BankTypeIsFixed == BankType' = BankType /\ StorageType' = StorageType
  BY DEF BankType, StorageType, Accounts

LEMMA BurnValueType ==
  ASSUME TypeOK, NEW shares \in Nat
  PROVE  BurnValue(shares) \in Nat
<1>1. storage.totalStaked \in Nat /\ bank.supply \in Nat
  BY DEF TypeOK, StorageType, BankType
<1> QED
  BY <1>1, CalculateBaseTokensType DEF BurnValue

LEMMA BurnVaultTokensType ==
  ASSUME TypeOK, NEW shares \in Nat, BurnVaultTokens(shares)
  PROVE  storage' \in StorageType
<1>1. /\ BurnValue(shares) \in Nat /\ storage \in StorageType
      /\ storage.totalStaked \in Nat
      /\ BurnValue(shares) <= storage.totalStaked
  BY BurnValueType DEF TypeOK, StorageType, BurnVaultTokens
<1> QED
  BY <1>1 DEF BurnVaultTokens, StorageType

----------------------------------------------------------------------------
(* The parts of TypeOK that a step leaves alone stay.                      *)
LEMMA UnchangedParts ==
  ASSUME TypeOK
  PROVE  /\ storage' = storage => storage' \in StorageType
         /\ bank' = bank => bank' \in BankType
         /\ UNCHANGED lockupVars => LockupTypeOK'
         /\ UNCHANGED claimsVars => ClaimsTypeOK'
  BY DEF TypeOK, lockupVars, claimsVars, LockupTypeOK, ClaimsTypeOK

LEMMA NewParts ==
  ASSUME storage' \in StorageType, bank' \in BankType,
         LockupTypeOK', ClaimsTypeOK', TxTypeOK'
  PROVE  TypeOK'
  BY BankTypeIsFixed DEF TypeOK

(* Entry handlers.                                                         *)
LEMMA ExecuteDepositType ==
  ASSUME TypeOK, NEW user \in Users, NEW amount \in Nat, NEW recipient \in Accounts,
         ExecuteDeposit(user, amount, recipient)
  PROVE  TypeOK'
<1>1. /\ bank \in BankType /\ bank.base[Vault] \in Nat
      /\ user \in Accounts /\ Vault \in Accounts /\ user # Vault
  BY ConstantTypes, OsmosisAssumption DEF TypeOK, BankType, OsmosisAssumption
<1>2. bank' \in BankType
  <2>1. amount \in 0..bank.base[user]
    BY <1>1 DEF ExecuteDeposit, BankType
  <2> QED
    BY <1>1, <2>1, BaseMovedType DEF ExecuteDeposit
<1>3. TxTypeOK'
  <2> DEFINE msgs == Compound(bank.base[Vault]) \o <<MintVaultToken(amount, recipient)>>
  <2>1. MintVaultToken(amount, recipient) \in Message
    BY MessageConstructors
  <2>2. msgs \in Seq(Message) /\ msgs # <<>>
    BY <1>1, <2>1, CompoundType, ConcatProperties, ConcatEqualIffEmpty,
       <<MintVaultToken(amount, recipient)>> \in Seq(Message)
  <2> QED
    BY <2>2, BeginTxType DEF ExecuteDeposit
<1> QED
  BY <1>2, <1>3, UnchangedParts, NewParts DEF ExecuteDeposit

(* Shares that come with a message.                                        *)
LEMMA ReceiveVaultTokensType ==
  ASSUME TypeOK, NEW user \in Users, NEW amount \in Nat,
         ReceiveVaultTokens(user, amount)
  PROVE  bank' \in BankType
<1>1. bank \in BankType /\ user \in Accounts /\ Vault \in Accounts /\ user # Vault
  BY ConstantTypes, OsmosisAssumption DEF TypeOK, OsmosisAssumption
<1>2. amount \in 0..bank.shares[user]
  BY <1>1 DEF ReceiveVaultTokens, BankType
<1> QED
  BY <1>1, <1>2, SharesMovedType DEF ReceiveVaultTokens

LEMMA ExecuteUnlockType ==
  ASSUME TypeOK, NEW user \in Users, NEW vaultTokens \in Nat,
         ExecuteUnlock(user, vaultTokens)
  PROVE  TypeOK'
<1> DEFINE counter == storage.durationCounter + 1
           rest == <<Unlock(user, vaultTokens), LockMsg(counter, 1), SaveClaim>>
           msgs == Compound(bank.base[Vault]) \o rest
<1>1. /\ storage \in StorageType /\ counter \in Nat
      /\ bank.base[Vault] \in Nat
  BY ConstantTypes DEF TypeOK, StorageType, BankType
<1>2. storage' \in StorageType
  BY <1>1 DEF ExecuteUnlock, StorageType
<1>3. bank' \in BankType
  BY ReceiveVaultTokensType DEF ExecuteUnlock
<1>4. TxTypeOK'
  <2>1. /\ Unlock(user, vaultTokens) \in Message /\ LockMsg(counter, 1) \in Message
        /\ SaveClaim \in Message
    BY <1>1, MessageConstructors
  <2>2. rest \in Seq(Message)
    BY <2>1
  <2>3. msgs \in Seq(Message) /\ msgs # <<>>
    BY <1>1, <2>2, CompoundType, ConcatProperties, ConcatEqualIffEmpty
  <2>4. BeginTx(msgs)
    BY DEF ExecuteUnlock
  <2> HIDE DEF msgs
  <2> QED
    BY <2>3, <2>4, BeginTxType
<1> QED
  BY <1>2, <1>3, <1>4, UnchangedParts, NewParts DEF ExecuteUnlock

LEMMA ExecuteWithdrawUnlockedType ==
  ASSUME TypeOK, NEW user \in Users, NEW id, NEW recipient \in Accounts,
         ExecuteWithdrawUnlocked(user, id, recipient)
  PROVE  TypeOK'
<1>1. ClaimsTypeOK' /\ claims[id].amount \in Nat
  BY ClaimTokensType DEF ExecuteWithdrawUnlocked, TypeOK
<1>2. TxTypeOK'
  <2>1. Send(claims[id].amount, recipient) \in Message
    BY <1>1, MessageConstructors
  <2>2. /\ <<Send(claims[id].amount, recipient)>> \in Seq(Message)
        /\ <<Send(claims[id].amount, recipient)>> # <<>>
    BY <2>1
  <2> QED
    BY <2>2, BeginTxType DEF ExecuteWithdrawUnlocked
<1> QED
  BY <1>1, <1>2, UnchangedParts, NewParts DEF ExecuteWithdrawUnlocked

LEMMA ExecuteForceRedeemType ==
  ASSUME TypeOK, NEW user \in Users, NEW vaultTokens \in Nat,
         NEW recipient \in Accounts, ExecuteForceRedeem(user, vaultTokens, recipient)
  PROVE  TypeOK'
<1> DEFINE base == BurnValue(vaultTokens)
<1>1. base \in Nat /\ storage.lockId \in Nat
  BY BurnValueType DEF ExecuteForceRedeem, TypeOK, StorageType
<1>2. bank' \in BankType /\ storage' \in StorageType
  BY ReceiveVaultTokensType, BurnVaultTokensType DEF ExecuteForceRedeem
<1>3. TxTypeOK'
  <2> DEFINE msgs == <<Burn(vaultTokens), ForceUnlockMsg(storage.lockId, base),
                       Send(base, recipient)>>
  <2>1. /\ Burn(vaultTokens) \in Message /\ Send(base, recipient) \in Message
        /\ ForceUnlockMsg(storage.lockId, base) \in Message
    BY <1>1, MessageConstructors
  <2>2. msgs \in Seq(Message) /\ msgs # <<>>
    BY <2>1
  <2>3. BeginTx(msgs)
    BY DEF ExecuteForceRedeem
  <2> HIDE DEF msgs
  <2> QED
    BY <2>2, <2>3, BeginTxType
<1> QED
  BY <1>2, <1>3, UnchangedParts, NewParts DEF ExecuteForceRedeem

LEMMA ExecuteForceWithdrawUnlockingType ==
  ASSUME TypeOK, NEW user \in Users, NEW id, NEW amount \in Nat,
         NEW recipient \in Accounts,
         ExecuteForceWithdrawUnlocking(user, id, amount, recipient)
  PROVE  TypeOK'
<1>1. ClaimsTypeOK' /\ id \in Nat
  BY ForceClaimType DEF ExecuteForceWithdrawUnlocking, TypeOK
<1>2. TxTypeOK'
  <2> DEFINE unlock == IF IsExpired(claims[id], now)
                       THEN <<>> ELSE <<ForceUnlockMsg(id, amount)>>
             msgs == unlock \o <<Send(amount, recipient)>>
  <2>1. ForceUnlockMsg(id, amount) \in Message /\ Send(amount, recipient) \in Message
    BY <1>1, MessageConstructors
  <2>2. unlock \in Seq(Message) /\ <<Send(amount, recipient)>> \in Seq(Message)
    BY <2>1
  <2>3. msgs \in Seq(Message) /\ msgs # <<>>
    BY <2>2, ConcatProperties, ConcatEqualIffEmpty
  <2>4. BeginTx(msgs)
    BY DEF ExecuteForceWithdrawUnlocking
  <2> HIDE DEF msgs
  <2> QED
    BY <2>3, <2>4, BeginTxType
<1> QED
  BY <1>1, <1>2, UnchangedParts, NewParts DEF ExecuteForceWithdrawUnlocking

----------------------------------------------------------------------------
(* Callbacks.                                                              *)
LEMMA BalanceAfterFeeType ==
  ASSUME NEW balance \in Nat
  PROVE  LET toSell == BalanceAfterFee(balance, PerformanceFee)
         IN  toSell \in Nat /\ balance - toSell \in Nat
<1>1. BalanceAfterFee(balance, PerformanceFee) \in 0..balance
  BY ConstantTypes, FeeWithinBalance
<1> QED
  BY <1>1

LEMMA CallbackSellRewardsType ==
  ASSUME TypeOK, CallbackSellRewards
  PROVE  TypeOK'
<1> DEFINE toSell == BalanceAfterFee(bank.rewards, PerformanceFee)
           fee == bank.rewards - toSell
           msgs == NonZero(fee, <<PayTreasury(fee)>>) \o NonZero(toSell, <<Swap(toSell)>>)
<1>1. bank.rewards \in Nat
  BY DEF TypeOK, BankType
<1>2. toSell \in Nat /\ fee \in Nat
  BY <1>1, BalanceAfterFeeType
<1>3. ~Idle /\ Continue(msgs)
  BY DEF CallbackSellRewards, Handles
<1> HIDE DEF toSell, fee
<1>4. PayTreasury(fee) \in Message /\ Swap(toSell) \in Message
  BY <1>2, MessageConstructors
<1>5. msgs \in Seq(Message)
  BY <1>2, <1>4, NonZeroType, ConcatProperties
<1> HIDE DEF msgs
<1>6. TxTypeOK'
  BY <1>3, <1>5, ContinueType
<1> QED
  BY <1>6, UnchangedParts, NewParts DEF CallbackSellRewards

LEMMA CallbackProvideLiquidityType ==
  ASSUME TypeOK, CallbackProvideLiquidity
  PROVE  TypeOK'
<1>1. bank.poolAsset \in Nat
  BY DEF TypeOK, BankType
<1>2. JoinPool(bank.poolAsset) \in Message
  BY <1>1, MessageConstructors
<1>3. NonZero(bank.poolAsset, <<JoinPool(bank.poolAsset)>>) \in Seq(Message)
  BY <1>1, <1>2, NonZeroType
<1>4. TxTypeOK'
  BY <1>3, ContinueType DEF CallbackProvideLiquidity, Handles
<1> QED
  BY <1>4, UnchangedParts, NewParts DEF CallbackProvideLiquidity

LEMMA CallbackStakeType ==
  ASSUME TypeOK, CallbackStake
  PROVE  TypeOK'
<1> DEFINE amount == AmountToStake
<1>1. ~Idle /\ Head(queue).before \in Nat
  BY HeadAndTail, MessageFields DEF CallbackStake, Handles
<1>2. bank.base[Vault] \in Nat
  BY ConstantTypes DEF TypeOK, BankType
<1>3. amount \in Nat
  BY <1>1, <1>2 DEF AmountToStake
<1>4. /\ storage' = [storage EXCEPT !.totalStaked = @ + amount]
      /\ Continue(NonZero(amount, <<LockMsg(VaultDuration, amount)>>))
  BY DEF CallbackStake
<1> HIDE DEF amount
<1>5. storage' \in StorageType
  BY <1>3, <1>4 DEF TypeOK, StorageType
<1>6. LockMsg(VaultDuration, amount) \in Message
  BY <1>3, MessageConstructors DEF VaultDuration
<1>7. NonZero(amount, <<LockMsg(VaultDuration, amount)>>) \in Seq(Message)
  BY <1>3, <1>6, NonZeroType
<1>8. TxTypeOK'
  BY <1>1, <1>4, <1>7, ContinueType
<1> QED
  BY <1>5, <1>8, UnchangedParts, NewParts DEF CallbackStake

LEMMA CallbackMintVaultTokenType ==
  ASSUME TypeOK, CallbackMintVaultToken
  PROVE  TypeOK'
<1>1. ~Idle /\ Head(queue).amount \in Nat /\ Head(queue).recipient \in Accounts
  BY HeadAndTail, MessageFields DEF CallbackMintVaultToken, Handles
<1>2. /\ storage.totalStaked - Head(queue).amount \in Nat
      /\ bank.supply \in Nat
  BY <1>1 DEF TypeOK, StorageType, BankType, CallbackMintVaultToken, CanMintVaultToken
<1>3. SharesToMint \in Nat
  BY <1>1, <1>2, CalculateVaultTokensType DEF SharesToMint
<1>4. Mint(SharesToMint, Head(queue).recipient) \in Message
  BY <1>1, <1>3, MessageConstructors
<1>5. <<Mint(SharesToMint, Head(queue).recipient)>> \in Seq(Message)
  BY <1>4
<1>6. TxTypeOK'
  BY <1>1, <1>5, ContinueType DEF CallbackMintVaultToken
<1> QED
  BY <1>6, UnchangedParts, NewParts DEF CallbackMintVaultToken

LEMMA CallbackUnlockType ==
  ASSUME TypeOK, CallbackUnlock
  PROVE  TypeOK'
<1> DEFINE shares == Head(queue).amount
           base == BurnValue(shares)
           msgs == <<Burn(shares), BeginUnlockMsg(storage.lockId, base)>>
<1>1. ~Idle /\ shares \in Nat /\ Head(queue).owner \in Users
  BY HeadAndTail, MessageFields DEF CallbackUnlock, Handles
<1>2. base \in Nat /\ storage.lockId \in Nat /\ now + LockupTime \in Nat
  <2>1. base \in Nat
    BY <1>1, BurnValueType
  <2>2. storage.lockId \in Nat
    BY DEF CallbackUnlock, TypeOK, StorageType
  <2>3. now + LockupTime \in Nat
    BY ConstantTypes DEF TypeOK, TxTypeOK
  <2> QED
    BY <2>1, <2>2, <2>3
<1>3. storage' \in StorageType
  BY <1>1, BurnVaultTokensType DEF CallbackUnlock
<1>4. ClaimsTypeOK'
  BY <1>1, <1>2, CreatePendingClaimType DEF CallbackUnlock, TypeOK
<1>5. Burn(shares) \in Message /\ BeginUnlockMsg(storage.lockId, base) \in Message
  BY <1>1, <1>2, MessageConstructors
<1>6. Continue(msgs)
  BY DEF CallbackUnlock
<1>7. msgs \in Seq(Message)
  BY <1>5
<1> HIDE DEF msgs
<1>8. TxTypeOK'
  BY <1>1, <1>6, <1>7, ContinueType
<1> QED
  BY <1>3, <1>4, <1>8, UnchangedParts, NewParts DEF CallbackUnlock

LEMMA CallbackSaveClaimType ==
  ASSUME TypeOK, CallbackSaveClaim
  PROVE  TypeOK'
<1>1. ClaimsTypeOK'
  BY CommitPendingClaimType DEF CallbackSaveClaim, TypeOK
<1>2. ~Idle /\ Continue(<<>>) /\ <<>> \in Seq(Message)
  BY DEF CallbackSaveClaim, Handles
<1>3. TxTypeOK'
  BY <1>2, ContinueType
<1> QED
  BY <1>1, <1>3, UnchangedParts, NewParts DEF CallbackSaveClaim

----------------------------------------------------------------------------
(* Messages to the chain and to other contracts.                           *)
LEMMA DoneType ==
  ASSUME TypeOK, ~Idle, Continue(<<>>)
  PROVE  TxTypeOK'
  BY ContinueType, <<>> \in Seq(Message)

LEMMA HandlePayTreasuryType ==
  ASSUME TypeOK, HandlePayTreasury
  PROVE  TypeOK'
<1>1. ~Idle /\ Head(queue).amount \in Nat
  BY HeadAndTail, MessageFields DEF HandlePayTreasury, Handles
<1>2. bank' \in BankType
  <2> DEFINE rest == bank.rewards - Head(queue).amount
  <2>1. rest \in Nat
    BY <1>1 DEF HandlePayTreasury, CanSpendRewards, TypeOK, BankType
  <2>2. bank' = [bank EXCEPT !.rewards = rest]
    BY DEF HandlePayTreasury
  <2> HIDE DEF rest
  <2> QED
    BY <2>1, <2>2 DEF TypeOK, BankType
<1>3. TxTypeOK'
  BY <1>1, DoneType DEF HandlePayTreasury
<1> QED
  BY <1>2, <1>3, UnchangedParts, NewParts DEF HandlePayTreasury

LEMMA HandleSwapType ==
  ASSUME TypeOK, HandleSwap
  PROVE  TypeOK'
<1>1. ~Idle /\ Head(queue).amount \in Nat
  BY HeadAndTail, MessageFields DEF HandleSwap, Handles
<1>2. bank' \in BankType
  <2>1. PICK out \in 1..Head(queue).amount :
           bank' = [bank EXCEPT !.rewards = @ - Head(queue).amount,
                                !.poolAsset = @ + out]
    BY DEF HandleSwap
  <2>2. bank.rewards - Head(queue).amount \in Nat /\ bank.poolAsset + out \in Nat
    BY <1>1 DEF HandleSwap, CanSpendRewards, TypeOK, BankType
  <2> QED
    BY <2>1, <2>2 DEF TypeOK, BankType
<1>3. TxTypeOK'
  BY <1>1, DoneType DEF HandleSwap
<1> QED
  BY <1>2, <1>3, UnchangedParts, NewParts DEF HandleSwap

LEMMA BalanceType ==
  ASSUME NEW balances \in [Accounts -> Nat], NEW account, NEW n \in Nat
  PROVE  [balances EXCEPT ![account] = n] \in [Accounts -> Nat]
  OBVIOUS

(* What the vault's balance of base tokens may change by.                  *)
LEMMA VaultBaseType ==
  ASSUME bank \in BankType, NEW amount \in Nat
  PROVE  [bank EXCEPT !.base[Vault] = amount] \in BankType
<1> DEFINE base == [bank.base EXCEPT ![Vault] = amount]
<1>1. base \in [Accounts -> Nat]
  BY DEF BankType
<1>2. [bank EXCEPT !.base[Vault] = amount] = [bank EXCEPT !.base = base]
  BY DEF BankType
<1> HIDE DEF base
<1> QED
  BY <1>1, <1>2 DEF BankType

LEMMA HandleJoinPoolType ==
  ASSUME TypeOK, HandleJoinPool
  PROVE  TypeOK'
<1>1. ~Idle /\ Head(queue).amount \in Nat /\ bank.base[Vault] \in Nat
  BY HeadAndTail, MessageFields, ConstantTypes
  DEF HandleJoinPool, Handles, TypeOK, BankType
<1>2. bank' \in BankType
  <2>1. PICK out \in 1..Head(queue).amount :
           bank' = [bank EXCEPT !.poolAsset = @ - Head(queue).amount,
                                !.base[Vault] = @ + out]
    BY DEF HandleJoinPool
  <2> DEFINE total == bank.base[Vault] + out
             base == [bank.base EXCEPT ![Vault] = total]
             rest == bank.poolAsset - Head(queue).amount
  <2>2. total \in Nat
    BY <1>1
  <2>4. rest \in Nat
    BY <1>1 DEF HandleJoinPool, CanJoinPool, TypeOK, BankType
  <2>3. bank' = [bank EXCEPT !.poolAsset = rest, !.base = base]
    BY <2>1 DEF TypeOK, BankType
  <2> HIDE DEF total, rest
  <2>5. base \in [Accounts -> Nat]
    BY <2>2, BalanceType DEF TypeOK, BankType
  <2> HIDE DEF base
  <2> QED
    BY <2>5, <2>3, <2>4 DEF TypeOK, BankType
<1>3. TxTypeOK'
  BY <1>1, DoneType DEF HandleJoinPool
<1> QED
  BY <1>2, <1>3, UnchangedParts, NewParts DEF HandleJoinPool

LEMMA HandleMintType ==
  ASSUME TypeOK, HandleMint
  PROVE  TypeOK'
<1> DEFINE m == Head(queue)
           shares == [bank.shares EXCEPT ![m.recipient] = @ + m.amount]
<1>1. ~Idle /\ m.amount \in Nat /\ m.recipient \in Accounts
  BY HeadAndTail, MessageFields, ConstantTypes DEF HandleMint, Handles
<1>2. bank' \in BankType
  <2>1. shares \in [Accounts -> Nat] /\ bank.supply + m.amount \in Nat
    BY <1>1 DEF TypeOK, BankType
  <2>2. bank' = [bank EXCEPT !.shares = shares, !.supply = @ + m.amount]
    BY DEF HandleMint, TypeOK, BankType
  <2> HIDE DEF shares
  <2> QED
    BY <2>1, <2>2 DEF TypeOK, BankType
<1>3. TxTypeOK'
  BY <1>1, DoneType DEF HandleMint
<1> QED
  BY <1>2, <1>3, UnchangedParts, NewParts DEF HandleMint

LEMMA HandleBurnType ==
  ASSUME TypeOK, HandleBurn
  PROVE  TypeOK'
<1> DEFINE amount == Head(queue).amount
           sharesLeft == bank.shares[Vault] - amount
           supplyLeft == bank.supply - amount
           shares == [bank.shares EXCEPT ![Vault] = sharesLeft]
<1>1. ~Idle /\ amount \in Nat
  BY HeadAndTail, MessageFields DEF HandleBurn, Handles
<1>2. bank' \in BankType
  <2>1. /\ amount <= bank.shares[Vault] /\ amount <= bank.supply
        /\ bank.shares \in [Accounts -> Nat] /\ bank.supply \in Nat
        /\ bank.shares[Vault] \in Nat
    BY ConstantTypes DEF HandleBurn, CanBurn, TypeOK, BankType
  <2>2. bank' = [bank EXCEPT !.shares = shares, !.supply = supplyLeft]
    BY DEF HandleBurn, TypeOK, BankType
  <2> HIDE DEF amount
  <2>3. sharesLeft \in Nat /\ supplyLeft \in Nat
    BY <1>1, <2>1
  <2> HIDE DEF sharesLeft, supplyLeft
  <2>4. shares \in [Accounts -> Nat]
    BY <2>1, <2>3, BalanceType
  <2> HIDE DEF shares
  <2> QED
    BY <2>2, <2>3, <2>4 DEF TypeOK, BankType
<1>3. TxTypeOK'
  BY <1>1, DoneType DEF HandleBurn
<1> QED
  BY <1>2, <1>3, UnchangedParts, NewParts DEF HandleBurn

LEMMA HandleSendType ==
  ASSUME TypeOK, HandleSend
  PROVE  TypeOK'
<1> DEFINE m == Head(queue)
<1>1. ~Idle /\ m.amount \in Nat /\ m.recipient \in Accounts /\ m.recipient # Vault
  BY HeadAndTail, MessageFields, ConstantTypes, OsmosisAssumption
  DEF HandleSend, Handles, OsmosisAssumption
<1>2. bank' \in BankType
  <2>1. m.amount \in 0..bank.base[Vault] /\ Vault \in Accounts
    BY <1>1, ConstantTypes DEF HandleSend, CanSend, TypeOK, BankType
  <2> QED
    BY <1>1, <2>1, BaseMovedType DEF HandleSend, TypeOK
<1>3. TxTypeOK'
  BY <1>1, DoneType DEF HandleSend
<1> QED
  BY <1>2, <1>3, UnchangedParts, NewParts DEF HandleSend

(* A payment to the contract itself changes only what it was given.        *)
LEMMA SelfIsDone ==
  ASSUME TypeOK, HandleSendToSelf
  PROVE  /\ ~Idle /\ queue' = <<>> \o Tail(queue)
         /\ saved' = IF Idle' THEN NoTx ELSE saved
         /\ Head(queue).amount \in Nat /\ Head(queue).amount <= bank.base[Vault]
         /\ donated' = donated + Head(queue).amount /\ donated' \in Nat
<1>1. ~Idle /\ Head(queue).amount \in Nat /\ bank.base[Vault] \in Nat
  BY HeadAndTail, MessageFields, ConstantTypes
  DEF HandleSendToSelf, Handles, TypeOK, BankType
<1>2. /\ Head(queue).amount <= bank.base[Vault]
      /\ donated' = donated + Head(queue).amount
  BY <1>1 DEF HandleSendToSelf, CanSend
<1>3. Tail(queue) \in Seq(Message)
  BY <1>1, HeadAndTail
<1>4. queue' = <<>> \o Tail(queue)
  BY <1>3, ConcatEmptySeq DEF HandleSendToSelf
<1>5. donated' \in Nat
  BY <1>1, <1>2 DEF TypeOK, TxTypeOK
<1> QED
  BY <1>1, <1>2, <1>4, <1>5 DEF HandleSendToSelf, Idle

LEMMA HandleSendToSelfType ==
  ASSUME TypeOK, HandleSendToSelf
  PROVE  TypeOK'
<1>1. queue' \in Seq(Message) /\ donated' \in Nat /\ now' \in Nat
  BY SelfIsDone, HeadAndTail DEF TypeOK, TxTypeOK, HandleSendToSelf
<1>2. IF Idle' THEN saved' = NoTx ELSE saved' = saved
  BY SelfIsDone
<1>3. SavedTypeOK
  BY SelfIsDone DEF TypeOK, TxTypeOK
<1>4. Idle' \/ SavedTypeOK'
  BY <1>2, <1>3 DEF SavedTypeOK
<1>5. TxTypeOK'
  BY <1>1, <1>2, <1>4 DEF TxTypeOK
<1> QED
  BY <1>5, UnchangedParts, NewParts DEF HandleSendToSelf

LEMMA HandleLockTokensType ==
  ASSUME TypeOK, HandleLockTokens
  PROVE  TypeOK'
<1> DEFINE amount == Head(queue).amount
           duration == Head(queue).duration
<1>1. ~Idle /\ amount \in Nat /\ duration \in Nat
  BY HeadAndTail, MessageFields DEF HandleLockTokens, Handles
<1>2. bank' \in BankType
  <2> DEFINE rest == bank.base[Vault] - amount
  <2>1. rest \in Nat
    <3>1. amount \in 1..bank.base[Vault]
      BY DEF HandleLockTokens, CanLock
    <3>2. bank.base[Vault] \in Nat
      BY ConstantTypes DEF TypeOK, BankType
    <3> QED
      BY <3>1, <3>2
  <2>2. bank' = [bank EXCEPT !.base[Vault] = rest]
    BY DEF HandleLockTokens
  <2> HIDE DEF rest
  <2> QED
    BY <2>1, <2>2, VaultBaseType DEF TypeOK
<1>3. LockupTypeOK' /\ storage' \in StorageType /\ ClaimsTypeOK'
  <2>1. PICK id \in 1..NewLockId :
          /\ LockTokens(duration, amount, id)
          /\ IF duration = VaultDuration
             THEN ReplyLockTokens(id)
             ELSE ReplyTempWorkaroundLockTokens(id)
    BY DEF HandleLockTokens
  <2>2. LockupTypeOK' /\ id \in Nat \ {0}
    BY <1>1, <2>1, LockTokensType DEF TypeOK
  <2>3. CASE ReplyLockTokens(id)
    BY <2>2, <2>3, UnchangedParts DEF ReplyLockTokens, TypeOK, StorageType
  <2>4. CASE ReplyTempWorkaroundLockTokens(id)
    <3>1. id - 1 \in Nat
      BY <2>2
    <3> QED
      BY <2>2, <2>4, <3>1, SetPendingClaimIdType, UnchangedParts
      DEF ReplyTempWorkaroundLockTokens, TypeOK
  <2> QED
    BY <2>1, <2>3, <2>4
<1>4. TxTypeOK'
  BY <1>1, DoneType DEF HandleLockTokens
<1> QED
  BY <1>2, <1>3, <1>4, NewParts

LEMMA HandleBeginUnlockingType ==
  ASSUME TypeOK, HandleBeginUnlocking
  PROVE  TypeOK'
<1>1. ~Idle /\ now + LockupTime \in Nat
  BY ConstantTypes DEF HandleBeginUnlocking, Handles, TypeOK, TxTypeOK
<1>2. LockupTypeOK'
  BY <1>1, BeginUnlockingType DEF HandleBeginUnlocking, TypeOK
<1>3. TxTypeOK'
  BY <1>1, DoneType DEF HandleBeginUnlocking
<1> QED
  BY <1>2, <1>3, UnchangedParts, NewParts DEF HandleBeginUnlocking

LEMMA HandleForceUnlockType ==
  ASSUME TypeOK, HandleForceUnlock
  PROVE  TypeOK'
<1> DEFINE m == Head(queue)
<1>1. ~Idle /\ m.amount \in Nat
  BY HeadAndTail, MessageFields DEF HandleForceUnlock, Handles
<1>2. LockupTypeOK'
  BY ForceUnlockType DEF HandleForceUnlock, TypeOK
<1>3. bank' \in BankType
  <2> DEFINE total == bank.base[Vault] + m.amount
  <2>1. total \in Nat
    BY <1>1, ConstantTypes DEF TypeOK, BankType
  <2>2. bank' = [bank EXCEPT !.base[Vault] = total]
    BY DEF HandleForceUnlock
  <2> HIDE DEF total
  <2> QED
    BY <2>1, <2>2, VaultBaseType DEF TypeOK
<1>4. TxTypeOK'
  BY <1>1, DoneType DEF HandleForceUnlock
<1> QED
  BY <1>2, <1>3, <1>4, UnchangedParts, NewParts DEF HandleForceUnlock

(* All messages.                                                           *)
LEMMA HandleMessageType ==
  ASSUME TypeOK, HandleMessage
  PROVE  TypeOK'
<1>1. CASE FailedMessage
  BY <1>1, RevertType DEF FailedMessage
<1>2. CASE ~FailedMessage
  BY <1>2, CallbackSellRewardsType, CallbackProvideLiquidityType,
     CallbackStakeType, CallbackMintVaultTokenType, CallbackUnlockType,
     CallbackSaveClaimType, HandlePayTreasuryType, HandleSwapType,
     HandleJoinPoolType, HandleMintType, HandleBurnType, HandleSendType,
     HandleSendToSelfType, HandleLockTokensType,
     HandleBeginUnlockingType, HandleForceUnlockType
  DEF HandleMessage
<1> QED
  BY <1>1, <1>2

(* All transactions of the users.                                          *)
LEMMA UserTxType ==
  ASSUME TypeOK, UserTx
  PROVE  TypeOK'
<1>1. \A user \in Users : bank.base[user] \in Nat /\ bank.shares[user] \in Nat
  BY ConstantTypes DEF TypeOK, BankType
<1>2. \A id \in DOMAIN claims : claims[id].amount \in Nat
  BY DEF TypeOK, ClaimsTypeOK, IsClaimMap, Claim
<1>3. \A user \in Users : \A vaultTokens \in 1..bank.shares[user] :
        ExecuteUnlock(user, vaultTokens) => TypeOK'
  BY <1>1, ExecuteUnlockType
<1>4. ASSUME NEW user \in Users, NEW recipient \in {user} \cup Recipients
      PROVE  /\ \A amount \in 1..bank.base[user] :
                  ExecuteDeposit(user, amount, recipient) => TypeOK'
             /\ \A id \in DOMAIN claims :
                  ExecuteWithdrawUnlocked(user, id, recipient) => TypeOK'
             /\ \A vaultTokens \in 1..bank.shares[user] :
                  ExecuteForceRedeem(user, vaultTokens, recipient) => TypeOK'
             /\ \A id \in DOMAIN claims : \A amount \in 0..claims[id].amount :
                  ExecuteForceWithdrawUnlocking(user, id, amount, recipient) => TypeOK'
  <2>1. recipient \in Accounts
    BY ConstantTypes
  <2>2. \A amount \in 1..bank.base[user] :
          ExecuteDeposit(user, amount, recipient) => TypeOK'
    BY <1>1, <2>1, ExecuteDepositType
  <2>3. \A id \in DOMAIN claims :
          ExecuteWithdrawUnlocked(user, id, recipient) => TypeOK'
    BY <2>1, ExecuteWithdrawUnlockedType
  <2>4. \A vaultTokens \in 1..bank.shares[user] :
          ExecuteForceRedeem(user, vaultTokens, recipient) => TypeOK'
    BY <1>1, <2>1, ExecuteForceRedeemType
  <2>5. \A id \in DOMAIN claims : \A amount \in 0..claims[id].amount :
          ExecuteForceWithdrawUnlocking(user, id, amount, recipient) => TypeOK'
    BY <1>2, <2>1, ExecuteForceWithdrawUnlockingType
  <2> QED
    BY <2>2, <2>3, <2>4, <2>5
<1> QED
  BY <1>3, <1>4 DEF UserTx

(* The chain between transactions.                                         *)
LEMMA EnvironmentType ==
  ASSUME TypeOK, Environment
  PROVE  TypeOK'
<1>1. bank \in BankType /\ now \in Nat /\ donated \in Nat /\ bank.base[Vault] \in Nat
  BY ConstantTypes DEF TypeOK, TxTypeOK, BankType
<1>2. CASE NextBlock
  BY <1>1, <1>2, BetweenTxType, UnchangedParts, NewParts DEF NextBlock
<1>3. ASSUME NEW id \in DOMAIN locks, LockReturned(id)
      PROVE  TypeOK'
  <2> DEFINE total == bank.base[Vault] + locks[id].amount
  <2>1. total \in Nat
    BY <1>1 DEF TypeOK, LockupTypeOK, IsLockup, Lock
  <2>2. bank' = [bank EXCEPT !.base[Vault] = total]
    BY <1>3 DEF LockReturned
  <2> HIDE DEF total
  <2>3. bank' \in BankType
    BY <1>1, <2>1, <2>2, VaultBaseType
  <2>4. LockupTypeOK'
    BY <1>3, WithoutLockType DEF LockReturned, ReturnLock, TypeOK, LockupTypeOK
  <2>5. TxTypeOK'
    BY <1>1, <1>3, BetweenTxType DEF LockReturned
  <2> QED
    BY <1>3, <2>3, <2>4, <2>5, UnchangedParts, NewParts DEF LockReturned
<1>4. CASE RewardsDistributed
  <2>1. bank' \in BankType
    <3>1. bank.incentives - 1 \in Nat /\ bank.rewards + 1 \in Nat
      BY <1>1, <1>4 DEF RewardsDistributed, BankType
    <3> QED
      BY <1>1, <1>4, <3>1 DEF RewardsDistributed, BankType
  <2>2. TxTypeOK'
    BY <1>1, <1>4, BetweenTxType DEF RewardsDistributed
  <2> QED
    BY <1>4, <2>1, <2>2, UnchangedParts, NewParts DEF RewardsDistributed
<1>5. CASE SomeoneElseLocks
  <2>1. LockupTypeOK'
    BY <1>5 DEF SomeoneElseLocks, ForeignLock, TypeOK, LockupTypeOK, IsLockup,
                NewLockId
  <2>2. TxTypeOK'
    BY <1>1, <1>5, BetweenTxType DEF SomeoneElseLocks
  <2> QED
    BY <1>5, <2>1, <2>2, UnchangedParts, NewParts DEF SomeoneElseLocks
<1>6. ASSUME NEW user \in Users, NEW amount \in 1..bank.base[user],
             Donate(user, amount)
      PROVE  TypeOK'
  <2>1. user \in Accounts /\ Vault \in Accounts /\ user # Vault
    BY ConstantTypes, OsmosisAssumption DEF OsmosisAssumption
  <2>2. bank.base[user] \in Nat /\ amount \in 0..bank.base[user]
    BY <1>1, <2>1 DEF BankType
  <2>3. bank' \in BankType
    BY <1>1, <1>6, <2>1, <2>2, BaseMovedType DEF Donate
  <2>4. TxTypeOK'
    BY <1>1, <1>6, <2>2, BetweenTxType DEF Donate
  <2> QED
    BY <1>6, <2>3, <2>4, UnchangedParts, NewParts DEF Donate
<1> QED
  BY <1>2, <1>3, <1>4, <1>5, <1>6 DEF Environment

LEMMA InitType == Init => TypeOK
<1> SUFFICES ASSUME Init PROVE TypeOK
  OBVIOUS
<1>1. storage \in StorageType
  BY DEF Init, StorageType
<1>2. bank \in BankType
  BY ConstantTypes DEF Init, BankType
<1>3. LockupTypeOK
  BY DEF Init, LockupInit, LockupTypeOK, IsLockup
<1>4. ClaimsTypeOK
  BY DEF Init, ClaimsInit, ClaimsTypeOK, IsClaimMap
<1>5. TxTypeOK
  BY ConstantTypes, EmptySeq DEF Init, TxTypeOK, Idle
<1> QED
  BY <1>1, <1>2, <1>3, <1>4, <1>5 DEF TypeOK

LEMMA NextType ==
  ASSUME TypeOK, [Next]_vars
  PROVE  TypeOK'
<1>1. CASE Next
  <2>1. CASE ExternalFailure
    BY <2>1, RevertType DEF ExternalFailure, Handles
  <2> QED
    BY <1>1, <2>1, HandleMessageType, UserTxType, EnvironmentType DEF Next
<1>2. CASE UNCHANGED vars
  <2>1. TxTypeOK'
    BY <1>2 DEF TypeOK, TxTypeOK, vars, Idle, SavedTypeOK
  <2> QED
    BY <1>2, <2>1, UnchangedParts, NewParts DEF vars
<1> QED
  BY <1>1, <1>2

(* Balances never go negative, ids and messages are what their readers     *)
(* expect, and there is a state to go back to while a transaction is being *)
(* executed.                                                               *)
THEOREM TypeCorrect == Spec => []TypeOK
<1>1. Init => TypeOK
  BY InitType
<1>2. TypeOK /\ [Next]_vars => TypeOK'
  BY NextType
<1> QED
  BY <1>1, <1>2, PTL DEF Spec
============================================================================
