----------------------- MODULE OsmosisLedger_proofs ------------------------
(* The accounts of the Osmosis vault, for every value of the constants.    *)
(* First the shares and the staked total: the bookkeeping never fails, and *)
(* the vault implements the ledger (TotalInv).  Then the base tokens: what *)
(* is not staked was given to the vault or is owed on claims, and matured  *)
(* claims can be paid (BackedInv).                                         *)
EXTENDS OsmosisLocks_proofs

----------------------------------------------------------------------------
(* The invariants.                                                         *)
BeforeStake ==
  {"SellRewards", "PayTreasury", "Swap", "ProvideLiquidity", "JoinPool", "Stake"}
AfterStake == {"LockTokens", "MintVaultToken", "Unlock"}
AfterBurn == {"BeginUnlocking", "LockDummy", "SaveClaim"}

(* The supply is what the accounts hold, and the shares that a transaction *)
(* will burn lie on the contract's account.                                *)
UnlocksUpTo(n) == {m \in Message : m.type = "Unlock" => m.amount \in 1..n}

SharesInv ==
  /\ bank.supply = SumOver(bank.shares, Accounts)
  /\ Doing \in BeforeStake \cup AfterStake => queue \in Seq(UnlocksUpTo(bank.shares[Vault]))
  /\ Doing = "Burn" => queue[1].amount \in 1..bank.shares[Vault]

(* Between transactions.                                                   *)
Even(staked, bk) ==
  /\ staked = 0 <=> bk.supply = 0
  /\ Fits(staked)
  /\ bk.supply = SumOver(bk.shares, Accounts)

EvenInv == IF Idle THEN Even(storage.totalStaked, bank)
                   ELSE Even(saved.storage.totalStaked, saved.bank)

(* What the transaction deposits, and what it redeems.                     *)
Deposited == IF Ends("MintVaultToken") THEN LastOf(queue).amount ELSE 0
Redeemed == IF Ends("Send") THEN LastOf(queue).amount ELSE pendingClaim.amount

Untouched ==
  storage.totalStaked = saved.storage.totalStaked /\ bank.supply = saved.bank.supply

(* The shares are worth what is redeemed for them, after compounding.      *)
TakenFor(vaultTokens, yield) ==
  /\ yield \in 0..MaxUint128
  /\ Fits(saved.storage.totalStaked + yield)
  /\ Redeemed = CalculateBaseTokens(vaultTokens, saved.storage.totalStaked + yield,
                                    saved.bank.supply)
  /\ storage.totalStaked = (saved.storage.totalStaked + yield) - Redeemed

IsRedeemed ==
  \E vaultTokens \in 1..saved.bank.supply :
    /\ \E yield \in Nat : TakenFor(vaultTokens, yield)
    /\ bank.supply = saved.bank.supply - vaultTokens

(* The new shares are worth what was deposited.                            *)
IsDeposited ==
  \E amount \in 1..storage.totalStaked :
    /\ saved.storage.totalStaked + amount <= storage.totalStaked
    /\ queue[1].amount = CalculateVaultTokens(amount, storage.totalStaked - amount,
                                              bank.supply)

WhenBefore == Untouched /\ bank.base[Vault] >= saved.bank.base[Vault] + Deposited

WhenAfter ==
  /\ storage.totalStaked >= saved.storage.totalStaked + Deposited
  /\ bank.supply = saved.bank.supply
  /\ Fits(storage.totalStaked)

WhenMint == bank.supply = saved.bank.supply /\ Fits(storage.totalStaked) /\ IsDeposited

WhenBurn ==
  /\ queue[2].amount = Redeemed
  /\ bank.supply = saved.bank.supply
  /\ \E yield \in Nat : TakenFor(queue[1].amount, yield)

TotalNow ==
  /\ Ends("MintVaultToken") => Deposited > 0
  /\ Doing \in BeforeStake => WhenBefore
  /\ Doing \in AfterStake => WhenAfter
  /\ Doing = "Mint" => WhenMint
  /\ Doing = "Burn" => WhenBurn
  /\ Doing \in AfterBurn => IsRedeemed
  /\ Doing = "BeginUnlocking" => queue[1].amount = Redeemed
  /\ Doing \in {"LockDummy", "SaveClaim"} => Redeemed > 0
  /\ Doing \in {"ForceUnlock", "Send"} => Untouched \/ IsRedeemed

TotalInv == EvenInv /\ SharesInv /\ TotalNow

----------------------------------------------------------------------------
(* Types and sums.                                                         *)
LEMMA FiniteAccounts == IsFiniteSet(Accounts)
<1>1. IsFiniteSet({Vault}) /\ IsFiniteSet(Users)
  BY FS_Singleton, OsmosisAssumption DEF OsmosisAssumption
<1> QED
  BY <1>1, FS_Union DEF Accounts

LEMMA TotalTypes ==
  ASSUME TypeOK
  PROVE  /\ storage \in StorageType /\ storage.totalStaked \in Nat
         /\ bank \in BankType /\ bank.supply \in Nat /\ bank.shares \in [Accounts -> Nat]
         /\ bank.base[Vault] \in Nat /\ bank.shares[Vault] \in Nat
         /\ ~Idle => /\ saved.storage.totalStaked \in Nat /\ saved.bank.supply \in Nat
                     /\ saved.bank.base[Vault] \in Nat
         /\ Vault \in Accounts /\ MaxUint128 \in Nat
<1>1. Vault \in Accounts /\ MaxUint128 \in Nat
  BY ConstantTypes
<1> QED
  BY <1>1, QueueType DEF StorageType, BankType, SavedTypeOK

LEMMA DepositedType ==
  ASSUME TypeOK
  PROVE  Deposited \in Nat
<1>1. CASE Ends("MintVaultToken")
  BY <1>1, QueueType, MessageFields DEF Ends, Deposited
<1> QED
  BY <1>1 DEF Deposited

LEMMA RedeemedType ==
  ASSUME TypeOK, Ends("Send") \/ pendingClaim # NoClaim
  PROVE  Redeemed \in Nat
<1>1. CASE Ends("Send")
  BY <1>1, QueueType, MessageFields DEF Ends, Redeemed
<1>2. CASE ~Ends("Send")
  BY <1>2, QueueType DEF Redeemed, Claim
<1> QED
  BY <1>1, <1>2

LEMMA SumsAreFixed ==
  /\ SumOver(bank.shares, Accounts)' = SumOver(bank'.shares, Accounts)
  /\ SumOver(saved.bank.shares, Accounts)' = SumOver(saved'.bank.shares, Accounts)
  /\ \A n : UnlocksUpTo(bank.shares[Vault])' = UnlocksUpTo(bank'.shares[Vault])
<1>1. Accounts' = Accounts
  BY DEF Accounts
<1> QED
  BY <1>1 DEF SumOver, MapThenSumSet, MapThenFoldSet, UnlocksUpTo, Message

(* One balance changes, and the sum of the balances with it.               *)
LEMMA BalanceChanges ==
  ASSUME NEW balance \in [Accounts -> Nat], NEW account \in Accounts, NEW n \in Nat
  PROVE  /\ SumOver([balance EXCEPT ![account] = n], Accounts)
              = (SumOver(balance, Accounts) + n) - balance[account]
         /\ SumOver(balance, Accounts) \in Nat
         /\ \A a \in Accounts : balance[a] <= SumOver(balance, Accounts)
<1> DEFINE new == [balance EXCEPT ![account] = n]
<1>1. /\ \A a \in Accounts : balance[a] \in Nat /\ new[a] \in Nat
      /\ \A a \in Accounts \ {account} : balance[a] = new[a]
      /\ new[account] = n
  OBVIOUS
<1> HIDE DEF new
<1>2. SumOver(new, Accounts) = SumOver(balance, Accounts) + new[account] - balance[account]
  BY <1>1, FiniteAccounts, SumChanges
<1>3. SumOver(balance, Accounts) \in Nat
      /\ \A a \in Accounts : balance[a] <= SumOver(balance, Accounts)
  BY <1>1, FiniteAccounts, SumType, SumBounds
<1> QED
  BY <1>1, <1>2, <1>3 DEF new

LEMMA SharesCovered ==
  ASSUME TypeOK, SharesInv
  PROVE  bank.shares[Vault] <= bank.supply
  BY TotalTypes, BalanceChanges DEF SharesInv

(* Shares that come with a message lie on the contract's account.          *)
LEMMA SharesReceived ==
  ASSUME TypeOK, SharesInv, NEW user \in Users, NEW amount,
         ReceiveVaultTokens(user, amount)
  PROVE  /\ bank'.supply = bank.supply /\ bank'.base = bank.base
         /\ bank'.shares[Vault] = bank.shares[Vault] + amount
         /\ bank'.supply = SumOver(bank'.shares, Accounts)
         /\ amount \in Nat \ {0} /\ amount \in 1..bank'.shares[Vault]
         /\ amount \in 1..bank.supply
<1> DEFINE rest == bank.shares[user] - amount
           total == bank.shares[Vault] + amount
           sent == [bank.shares EXCEPT ![user] = rest]
<1>1. /\ bank \in BankType /\ bank.shares \in [Accounts -> Nat] /\ user \in Accounts
      /\ Vault \in Accounts /\ user # Vault /\ bank.shares[user] \in Nat
      /\ bank.shares[Vault] \in Nat
  BY TotalTypes, OsmosisAssumption DEF OsmosisAssumption, Accounts
<1>2. amount \in Nat \ {0} /\ rest \in Nat /\ total \in Nat /\ rest + amount = bank.shares[user]
  BY <1>1 DEF ReceiveVaultTokens
<1>3. bank' = [bank EXCEPT !.shares = [sent EXCEPT ![Vault] = total]]
  BY <1>1 DEF ReceiveVaultTokens, BankType
<1>4. total = bank.shares[Vault] + amount
  OBVIOUS
<1> HIDE DEF rest, total
<1>5. sent \in [Accounts -> Nat] /\ sent[Vault] = bank.shares[Vault]
  BY <1>1, <1>2
<1>6. /\ SumOver(sent, Accounts) = (SumOver(bank.shares, Accounts) + rest) - bank.shares[user]
      /\ SumOver(bank.shares, Accounts) \in Nat
      /\ bank.shares[user] <= SumOver(bank.shares, Accounts)
  BY <1>1, <1>2, BalanceChanges
<1> HIDE DEF sent
<1>7. SumOver([sent EXCEPT ![Vault] = total], Accounts)
        = (SumOver(sent, Accounts) + total) - sent[Vault]
      /\ SumOver(sent, Accounts) \in Nat
  BY <1>1, <1>2, <1>5, BalanceChanges
<1>8. /\ bank'.supply = bank.supply /\ bank'.base = bank.base
      /\ bank'.shares = [sent EXCEPT ![Vault] = total]
      /\ bank'.shares[Vault] = total
  BY <1>1, <1>3, <1>5 DEF BankType
<1>9. bank.supply = SumOver(bank.shares, Accounts)
  BY DEF SharesInv
<1> QED
  BY <1>1, <1>2, <1>4, <1>5, <1>6, <1>7, <1>8, <1>9

----------------------------------------------------------------------------
(* What stays while a transaction goes on.                                 *)
LEMMA EvenKept ==
  ASSUME EvenInv, ~Idle, ~Idle', saved' = saved
  PROVE  EvenInv'
  BY SumsAreFixed DEF EvenInv, Even, Fits

LEMMA BegunEven ==
  ASSUME EvenInv, Idle, ~Idle', saved' = Snapshot
  PROVE  EvenInv'
<1>1. saved'.storage.totalStaked = storage.totalStaked /\ saved'.bank = bank
  BY DEF Snapshot
<1> QED
  BY <1>1, SumsAreFixed DEF EvenInv, Even, Fits

LEMMA LastKept ==
  ASSUME ~Idle, ~Idle', LastOf(queue') = LastOf(queue)
  PROVE  /\ Deposited' = Deposited
         /\ Ends("MintVaultToken")' <=> Ends("MintVaultToken")
         /\ Ends("Send")' <=> Ends("Send")
         /\ Ends("Send") \/ pendingClaim'.amount = pendingClaim.amount
              => Redeemed' = Redeemed
  BY DEF Ends, Deposited, Redeemed, LastOf

Others == {m \in Message : m.type # "Unlock"}

LEMMA UnlocksKept ==
  ASSUME ~Idle, NEW n, queue \in Seq(UnlocksUpTo(n)),
         NEW messages \in Seq(Others), Continue(messages)
  PROVE  queue' \in Seq(UnlocksUpTo(n))
<1>1. Others \subseteq UnlocksUpTo(n)
  BY DEF Others, UnlocksUpTo
<1> HIDE DEF Others, UnlocksUpTo
<1>2. messages \in Seq(UnlocksUpTo(n))
  BY <1>1, SeqMonotonic
<1> QED
  BY <1>2, ContinueIn

LEMMA KindsApart ==
  /\ \A kind \in BeforeStake :
       kind \notin AfterStake /\ kind \notin AfterBurn
       /\ kind \notin {"Mint", "Burn", "ForceUnlock", "Send", "None"}
  /\ \A kind \in AfterStake :
       kind \notin BeforeStake /\ kind \notin AfterBurn
       /\ kind \notin {"Mint", "Burn", "ForceUnlock", "Send", "None"}
  /\ \A kind \in BeforeStake \cup AfterStake :
       kind \notin {"BeginUnlocking", "LockDummy", "SaveClaim"}
  /\ \A kind \in AfterBurn :
       kind \notin BeforeStake /\ kind \notin AfterStake
       /\ kind \notin {"Mint", "Burn", "ForceUnlock", "Send", "None"}
  /\ \A kind \in {"Mint", "Burn", "ForceUnlock", "Send", "None"} :
       kind \notin BeforeStake /\ kind \notin AfterStake /\ kind \notin AfterBurn
  BY DEF BeforeStake, AfterStake, AfterBurn

(* Rewards are sold and pooled: the total and the shares stay, and base    *)
(* tokens come in.                                                         *)
LEMMA BeforeStep ==
  ASSUME TypeOK, TypeOK', TotalInv, ~Idle, ~Idle', saved' = saved,
         LastOf(queue') = LastOf(queue),
         Doing \in BeforeStake, Doing' \in BeforeStake,
         NEW messages \in Seq(Others), Continue(messages),
         storage'.totalStaked = storage.totalStaked,
         bank'.supply = bank.supply, bank'.shares = bank.shares,
         bank'.base[Vault] >= bank.base[Vault]
  PROVE  TotalInv'
<1>1. EvenInv'
  BY EvenKept DEF TotalInv
<1>2. SharesInv'
  <2>1. queue \in Seq(UnlocksUpTo(bank.shares[Vault])) /\ bank.supply = SumOver(bank.shares, Accounts)
    BY DEF TotalInv, SharesInv
  <2>2. queue' \in Seq(UnlocksUpTo(bank.shares[Vault]))
    BY <2>1, UnlocksKept
  <2> QED
    BY <2>1, <2>2, SumsAreFixed, KindsApart DEF SharesInv
<1>3. /\ Deposited' = Deposited /\ Deposited \in Nat
      /\ Ends("MintVaultToken")' <=> Ends("MintVaultToken")
  BY LastKept, DepositedType
<1>4. WhenBefore /\ (Ends("MintVaultToken") => Deposited > 0)
  BY DEF TotalInv, TotalNow
<1>5. /\ bank.base[Vault] \in Nat /\ bank'.base[Vault] \in Nat /\ saved.bank.base[Vault] \in Nat
  <2>1. bank' \in BankType /\ Vault \in Accounts
    BY BankTypeIsFixed, ConstantTypes DEF TypeOK
  <2>2. bank'.base[Vault] \in Nat
    BY <2>1 DEF BankType
  <2> QED
    BY <2>2, TotalTypes
<1>6. WhenBefore'
  BY <1>3, <1>4, <1>5 DEF WhenBefore, Untouched
<1>7. TotalNow'
  BY <1>3, <1>4, <1>6, KindsApart DEF TotalNow
<1> QED
  BY <1>1, <1>2, <1>7 DEF TotalInv

LEMMA NoMessages == <<>> \in Seq(Others)
  OBVIOUS

LEMMA OtherMessages ==
  ASSUME NEW m \in Message, m.type # "Unlock"
  PROVE  <<m>> \in Seq(Others) /\ \A n : NonZero(n, <<m>>) \in Seq(Others)
<1>1. m \in Others
  BY DEF Others
<1> HIDE DEF Others
<1> QED
  BY <1>1 DEF NonZero

LEMMA SellRewardsTotal ==
  ASSUME TypeOK, TypeOK', OrderInv, PlanInv, TotalInv, CallbackSellRewards
  PROVE  TotalInv'
<1> DEFINE toSell == BalanceAfterFee(bank.rewards, PerformanceFee)
           fee == bank.rewards - toSell
           pay == PayTreasury(fee)
           swap == Swap(toSell)
           messages == NonZero(fee, <<pay>>) \o NonZero(toSell, <<swap>>)
<1>1. toSell \in Nat /\ fee \in Nat
  BY TotalTypes, BalanceAfterFeeType DEF BankType
<1>2. Continue(messages) /\ UNCHANGED <<storage, bank>>
  BY DEF CallbackSellRewards
<1>3. /\ ~Idle /\ ~Idle' /\ saved' = saved /\ LastOf(queue') = LastOf(queue)
      /\ Doing = "SellRewards" /\ Doing' \in {"PayTreasury", "Swap", "ProvideLiquidity"}
  BY SaleFlow
<1> HIDE DEF toSell, fee
<1>4. pay \in Message /\ swap \in Message /\ pay.type # "Unlock" /\ swap.type # "Unlock"
  BY <1>1, MessageConstructors DEF PayTreasury, Swap
<1> HIDE DEF pay, swap
<1>5. messages \in Seq(Others)
  BY <1>4, OtherMessages, ConcatProperties
<1> HIDE DEF messages
<1>6. Doing \in BeforeStake /\ Doing' \in BeforeStake
  BY <1>3 DEF BeforeStake
<1>7. bank.base[Vault] \in Nat
  BY TotalTypes
<1> QED
  BY <1>2, <1>3, <1>5, <1>6, <1>7, BeforeStep

LEMMA ProvideLiquidityTotal ==
  ASSUME TypeOK, TypeOK', OrderInv, PlanInv, TotalInv, CallbackProvideLiquidity
  PROVE  TotalInv'
<1> DEFINE m == JoinPool(bank.poolAsset)
           messages == NonZero(bank.poolAsset, <<m>>)
<1>1. Continue(messages) /\ UNCHANGED <<storage, bank>>
  BY DEF CallbackProvideLiquidity
<1>2. /\ ~Idle /\ ~Idle' /\ saved' = saved /\ LastOf(queue') = LastOf(queue)
      /\ Doing = "ProvideLiquidity" /\ Doing' \in {"JoinPool", "Stake"}
  BY ProvideFlow
<1>3. m \in Message /\ m.type # "Unlock"
  BY TotalTypes, MessageConstructors DEF JoinPool, BankType
<1> HIDE DEF m
<1>4. messages \in Seq(Others)
  BY <1>3, OtherMessages
<1> HIDE DEF messages
<1>5. Doing \in BeforeStake /\ Doing' \in BeforeStake
  BY <1>2 DEF BeforeStake
<1>6. bank.base[Vault] \in Nat
  BY TotalTypes
<1> QED
  BY <1>1, <1>2, <1>4, <1>5, <1>6, BeforeStep

(* The messages to the treasury, the router and the liquidity helper.      *)
LEMMA RewardsMoved ==
  ASSUME TypeOK, HandlePayTreasury \/ HandleSwap \/ HandleJoinPool
  PROVE  /\ bank'.supply = bank.supply /\ bank'.shares = bank.shares
         /\ bank'.base[Vault] >= bank.base[Vault]
<1>1. bank \in BankType /\ bank.base[Vault] \in Nat /\ Vault \in Accounts
  BY TotalTypes
<1>2. CASE HandlePayTreasury
  BY <1>1, <1>2 DEF HandlePayTreasury, BankType
<1>3. CASE HandleSwap
  <2>1. PICK out \in 1..Head(queue).amount :
           bank' = [bank EXCEPT !.rewards = @ - Head(queue).amount, !.poolAsset = @ + out]
    BY <1>3 DEF HandleSwap
  <2> QED
    BY <1>1, <2>1 DEF BankType
<1>4. CASE HandleJoinPool
  <2>0. ~Idle /\ Head(queue).type = "JoinPool"
    BY <1>4 DEF HandleJoinPool, Handles
  <2>3. Head(queue).amount \in Nat
    BY <2>0, HeadAndTail, MessageFields
  <2>1. PICK out \in 1..Head(queue).amount :
           bank' = [bank EXCEPT !.poolAsset = @ - Head(queue).amount,
                                !.base[Vault] = @ + out]
    BY <1>4 DEF HandleJoinPool
  <2>2. out \in Nat
    BY <2>3
  <2> QED
    BY <1>1, <2>1, <2>2 DEF BankType
<1> QED
  BY <1>2, <1>3, <1>4

LEMMA RewardsTotal ==
  ASSUME TypeOK, TypeOK', OrderInv, PlanInv, TotalInv,
         HandlePayTreasury \/ HandleSwap \/ HandleJoinPool
  PROVE  TotalInv'
<1>1. /\ ~Idle /\ Continue(<<>>) /\ UNCHANGED storage
      /\ Head(queue).type \in {"PayTreasury", "Swap", "JoinPool"}
  BY DEF HandlePayTreasury, HandleSwap, HandleJoinPool, Handles
<1>2. Doing = Head(queue).type /\ Doing \notin LastKinds
  BY <1>1, DoingIs DEF LastKinds
<1>3. /\ ~Idle' /\ saved' = saved /\ <<Doing, Doing'>> \in Follows
      /\ LastOf(queue') = LastOf(queue)
  BY <1>1, <1>2, DoneFlow
<1>4. Doing' \in {"Swap", "ProvideLiquidity", "Stake"}
  BY <1>1, <1>2, <1>3, FollowsIs
<1>5. Doing \in BeforeStake /\ Doing' \in BeforeStake
  BY <1>1, <1>2, <1>4 DEF BeforeStake
<1> QED
  BY <1>1, <1>3, <1>5, NoMessages, RewardsMoved, BeforeStep

----------------------------------------------------------------------------
(* A transaction begins.                                                   *)
LEMMA UnlocksAreOthers == \A n : Others \subseteq UnlocksUpTo(n)
  BY DEF Others, UnlocksUpTo

LEMMA BeginBefore ==
  ASSUME TypeOK, TotalInv, Idle, ~Idle', saved' = Snapshot, Doing' \in BeforeStake,
         storage'.totalStaked = storage.totalStaked,
         bank'.supply = bank.supply, bank'.supply = SumOver(bank'.shares, Accounts),
         queue' \in Seq(UnlocksUpTo(bank'.shares[Vault])),
         bank'.base[Vault] >= bank.base[Vault] + Deposited',
         Ends("MintVaultToken")' => Deposited' > 0
  PROVE  TotalInv'
<1>1. EvenInv'
  BY BegunEven DEF TotalInv
<1>2. SharesInv'
  BY SumsAreFixed, KindsApart DEF SharesInv
<1>3. saved'.storage = storage /\ saved'.bank = bank
  BY DEF Snapshot
<1>4. WhenBefore'
  BY <1>3 DEF WhenBefore, Untouched
<1>5. TotalNow'
  BY <1>4, KindsApart DEF TotalNow
<1> QED
  BY <1>1, <1>2, <1>5 DEF TotalInv

LEMMA SellRewardsIsBefore == "SellRewards" \in BeforeStake
  BY DEF BeforeStake

LEMMA DepositTotal ==
  ASSUME TypeOK, TotalInv, NEW user \in Users, NEW recipient \in Accounts, NEW amount \in Nat,
         ExecuteDeposit(user, amount, recipient)
  PROVE  TotalInv'
<1>1. /\ Idle /\ ~Idle' /\ saved' = Snapshot /\ Doing' = "SellRewards"
      /\ LastOf(queue') = MintVaultToken(amount, recipient)
      /\ queue' \in Seq(Others)
  BY DepositFlow DEF Others
<1>2. Ends("MintVaultToken")' /\ Deposited' = amount
  BY <1>1 DEF Ends, Deposited, MintVaultToken, LastOf
<1>3. /\ user \in Accounts /\ Vault \in Accounts /\ user # Vault
      /\ bank \in BankType /\ bank.base[Vault] \in Nat
  BY TotalTypes, OsmosisAssumption DEF OsmosisAssumption, Accounts
<1>4. /\ bank' = [bank EXCEPT !.base[user] = @ - amount, !.base[Vault] = @ + amount]
      /\ storage' = storage /\ amount \in 1..bank.base[user]
  BY DEF ExecuteDeposit
<1>5. /\ bank'.supply = bank.supply /\ bank'.shares = bank.shares
      /\ bank'.base[Vault] = bank.base[Vault] + amount /\ amount > 0
  BY <1>3, <1>4 DEF BankType
<1>6. queue' \in Seq(UnlocksUpTo(bank'.shares[Vault]))
  BY <1>1, UnlocksAreOthers, SeqMonotonic
<1>7. bank'.supply = SumOver(bank'.shares, Accounts)
  BY <1>5 DEF TotalInv, SharesInv
<1> QED
  BY <1>1, <1>2, <1>3, <1>4, <1>5, <1>6, <1>7, SellRewardsIsBefore, BeginBefore

LEMMA ExecuteUnlockTotal ==
  ASSUME TypeOK, TotalInv, NEW user \in Users, NEW vaultTokens \in Nat,
         ExecuteUnlock(user, vaultTokens)
  PROVE  TotalInv'
<1>1. /\ Idle /\ ~Idle' /\ saved' = Snapshot /\ Doing' = "SellRewards"
      /\ LastOf(queue') = SaveClaim
      /\ queue' \in Seq({m \in Message : m.type = "Unlock" => m.amount = vaultTokens})
  BY UnlockBeginFlow
<1>2. ~Ends("MintVaultToken")' /\ Deposited' = 0
  BY <1>1 DEF Ends, Deposited, SaveClaim, LastOf
<1>3. /\ bank'.supply = bank.supply /\ bank'.base = bank.base
      /\ bank'.supply = SumOver(bank'.shares, Accounts)
      /\ vaultTokens \in 1..bank'.shares[Vault]
  <2>1. ReceiveVaultTokens(user, vaultTokens) /\ SharesInv
    BY DEF ExecuteUnlock, TotalInv
  <2> QED
    BY <2>1, SharesReceived
<1>4. storage'.totalStaked = storage.totalStaked /\ bank.base[Vault] \in Nat
  BY TotalTypes DEF ExecuteUnlock, StorageType
<1>5. {m \in Message : m.type = "Unlock" => m.amount = vaultTokens}
        \subseteq UnlocksUpTo(bank'.shares[Vault])
  BY <1>3 DEF UnlocksUpTo
<1>6. queue' \in Seq(UnlocksUpTo(bank'.shares[Vault]))
  BY <1>1, <1>5, SeqMonotonic
<1> QED
  BY <1>1, <1>2, <1>3, <1>4, <1>6, SellRewardsIsBefore, BeginBefore

(* A withdrawal does not touch the total or the shares.                    *)
LEMMA QuietBegin ==
  ASSUME TotalInv, Idle, ~Idle', saved' = Snapshot, Doing' \in {"ForceUnlock", "Send"},
         LastOf(queue').type = "Send", UNCHANGED <<storage, bank>>
  PROVE  TotalInv'
<1>1. EvenInv'
  BY BegunEven DEF TotalInv
<1>2. SharesInv'
  <2>1. bank.supply = SumOver(bank.shares, Accounts)
    BY DEF TotalInv, SharesInv
  <2> QED
    BY <2>1, SumsAreFixed, KindsApart DEF SharesInv
<1>3. saved'.storage = storage /\ saved'.bank = bank
  BY DEF Snapshot
<1>4. Untouched' /\ ~Ends("MintVaultToken")'
  BY <1>3 DEF Untouched, Ends, LastOf
<1>5. TotalNow'
  BY <1>4, KindsApart DEF TotalNow
<1> QED
  BY <1>1, <1>2, <1>5 DEF TotalInv

LEMMA WithdrawTotal ==
  ASSUME TypeOK, TotalInv, NEW user \in Users, NEW id, NEW recipient \in Accounts,
         ExecuteWithdrawUnlocked(user, id, recipient)
  PROVE  TotalInv'
<1>1. /\ Idle /\ ~Idle' /\ saved' = Snapshot /\ Doing' = "Send"
      /\ LastOf(queue') = Send(claims[id].amount, recipient)
  BY WithdrawFlow
<1>2. LastOf(queue').type = "Send" /\ UNCHANGED <<storage, bank>>
  BY <1>1 DEF Send, ExecuteWithdrawUnlocked
<1> QED
  BY <1>1, <1>2, QuietBegin

LEMMA ForceWithdrawTotal ==
  ASSUME TypeOK, TotalInv, NEW user \in Users, NEW id, NEW amount \in Nat,
         NEW recipient \in Accounts, ExecuteForceWithdrawUnlocking(user, id, amount, recipient)
  PROVE  TotalInv'
<1>1. /\ Idle /\ ~Idle' /\ saved' = Snapshot /\ Doing' \in {"Send", "ForceUnlock"}
      /\ LastOf(queue') = Send(amount, recipient)
  BY ForceWithdrawFlow
<1>2. LastOf(queue').type = "Send" /\ UNCHANGED <<storage, bank>>
  BY <1>1 DEF Send, ExecuteForceWithdrawUnlocking
<1> QED
  BY <1>1, <1>2, QuietBegin

(* A burn that the total and the supply of before the transaction allow.   *)
LEMMA BurnNext ==
  ASSUME ~Idle', Doing' = "Burn", EvenInv',
         NEW total \in Nat, NEW supply \in Nat, NEW vaultTokens, NEW base, NEW yield \in 0..MaxUint128,
         saved'.bank.supply = supply, total = saved'.storage.totalStaked + yield,
         Fits(total), base = CalculateBaseTokens(vaultTokens, total, supply),
         storage'.totalStaked = total - base,
         bank'.supply = supply, supply = SumOver(bank'.shares, Accounts),
         queue'[1].amount = vaultTokens, queue'[2].amount = base, Redeemed' = base,
         vaultTokens \in 1..bank'.shares[Vault], ~Ends("MintVaultToken")'
  PROVE  TotalInv'
<1>1. SharesInv'
  BY SumsAreFixed, KindsApart DEF SharesInv
<1>2. TakenFor(queue[1].amount, yield)'
  BY DEF TakenFor, Fits
<1>3. WhenBurn'
  <2>1. yield \in Nat
    BY ConstantTypes
  <2>2. \E y \in Nat : TakenFor(queue[1].amount, y)'
    BY <1>2, <2>1
  <2> QED
    BY <2>2 DEF WhenBurn
<1>4. TotalNow'
  BY <1>3, KindsApart DEF TotalNow
<1> QED
  BY <1>1, <1>4 DEF TotalInv

LEMMA ForceRedeemTotal ==
  ASSUME TypeOK, TotalInv, NEW user \in Users, NEW vaultTokens \in Nat, NEW recipient \in Accounts,
         ExecuteForceRedeem(user, vaultTokens, recipient)
  PROVE  TotalInv'
<1> DEFINE base == BurnValue(vaultTokens)
<1>1. /\ Idle /\ ~Idle' /\ saved' = Snapshot /\ Doing' = "Burn" /\ base \in Nat
      /\ queue'[1] = Burn(vaultTokens) /\ queue'[2] = ForceUnlockMsg(storage.lockId, base)
      /\ LastOf(queue') = Send(base, recipient)
  BY ForceRedeemFlow
<1>2. EvenInv'
  BY <1>1, BegunEven DEF TotalInv
<1>3. saved'.storage = storage /\ saved'.bank = bank
  BY <1>1 DEF Snapshot
<1>4. /\ queue'[1].amount = vaultTokens /\ queue'[2].amount = base /\ Redeemed' = base
      /\ ~Ends("MintVaultToken")'
  BY <1>1 DEF Burn, ForceUnlockMsg, Send, Redeemed, Ends, LastOf
<1>5. /\ bank'.supply = bank.supply /\ bank'.supply = SumOver(bank'.shares, Accounts)
      /\ vaultTokens \in 1..bank'.shares[Vault]
  <2>1. ReceiveVaultTokens(user, vaultTokens) /\ SharesInv
    BY DEF ExecuteForceRedeem, TotalInv
  <2> QED
    BY <2>1, SharesReceived
<1>6. /\ storage.totalStaked \in Nat /\ bank.supply \in Nat /\ storage \in StorageType
      /\ MaxUint128 \in Nat
  BY TotalTypes
<1>7. /\ storage'.totalStaked = storage.totalStaked - base
      /\ base = CalculateBaseTokens(vaultTokens, storage.totalStaked, bank.supply)
  BY <1>6 DEF ExecuteForceRedeem, BurnVaultTokens, BurnValue, StorageType
<1>8. Fits(storage.totalStaked)
  BY <1>1 DEF TotalInv, EvenInv, Even
<1>9. 0 \in 0..MaxUint128 /\ storage.totalStaked = saved'.storage.totalStaked + 0
  BY <1>3, <1>6
<1> HIDE DEF base
<1> QED
  BY <1>1, <1>2, <1>3, <1>4, <1>5, <1>6, <1>7, <1>8, <1>9, BurnNext

----------------------------------------------------------------------------
(* The stake callback counts all that came in.                             *)
LEMMA AfterStep ==
  ASSUME TypeOK, TotalInv, ~Idle, ~Idle', saved' = saved, LastOf(queue') = LastOf(queue),
         Doing \in BeforeStake \cup AfterStake, Doing' \in AfterStake,
         NEW messages \in Seq(Others), Continue(messages),
         bank'.supply = saved.bank.supply, bank'.supply = bank.supply,
         bank'.shares = bank.shares,
         Fits(storage'.totalStaked),
         storage'.totalStaked >= saved.storage.totalStaked + Deposited
  PROVE  TotalInv'
<1>1. EvenInv'
  BY EvenKept DEF TotalInv
<1>2. SharesInv'
  <2>1. queue \in Seq(UnlocksUpTo(bank.shares[Vault])) /\ bank.supply = SumOver(bank.shares, Accounts)
    BY DEF TotalInv, SharesInv
  <2>2. queue' \in Seq(UnlocksUpTo(bank.shares[Vault]))
    BY <2>1, UnlocksKept
  <2> QED
    BY <2>1, <2>2, SumsAreFixed, KindsApart DEF SharesInv
<1>3. Deposited' = Deposited /\ (Ends("MintVaultToken")' <=> Ends("MintVaultToken"))
  BY LastKept
<1>4. Ends("MintVaultToken") => Deposited > 0
  BY DEF TotalInv, TotalNow
<1>5. WhenAfter'
  BY <1>3 DEF WhenAfter, Fits
<1>6. TotalNow'
  BY <1>3, <1>4, <1>5, KindsApart DEF TotalNow
<1> QED
  BY <1>1, <1>2, <1>6 DEF TotalInv

(* What is staked is what came in since the transaction began.             *)
LEMMA StakeIs ==
  ASSUME TypeOK, OrderInv, PlanInv, TotalInv, CallbackStake
  PROVE  /\ AmountToStake \in Nat
         /\ AmountToStake = bank.base[Vault] - saved.bank.base[Vault]
         /\ storage'.totalStaked = storage.totalStaked + AmountToStake
         /\ storage'.durationCounter = storage.durationCounter
<1>1. ~Idle /\ Doing = "Stake" /\ AmountToStake \in Nat /\ Head(queue) = queue[1]
  BY StakeFlow
<1>2. /\ storage \in StorageType /\ bank.base[Vault] \in Nat /\ saved.bank.base[Vault] \in Nat
  BY <1>1, TotalTypes
<1>3. storage' = [storage EXCEPT !.totalStaked = @ + AmountToStake]
  BY DEF CallbackStake
<1>4. Head(queue).before = saved.bank.base[Vault]
  <2>1. queue \in Seq(Planned(saved.bank.base[Vault], storage.durationCounter))
    BY <1>1 DEF PlanInv
  <2>2. queue[1] \in Planned(saved.bank.base[Vault], storage.durationCounter)
    BY <1>1, <2>1, QueueParts
  <2>3. queue[1].type = "Stake"
    BY <1>1, DoingIs
  <2> QED
    BY <1>1, <2>2, <2>3 DEF Planned
<1>5. WhenBefore /\ Deposited \in Nat
  BY <1>1, DepositedType DEF TotalInv, TotalNow, BeforeStake
<1>6. AmountToStake = bank.base[Vault] - saved.bank.base[Vault]
  BY <1>2, <1>4, <1>5 DEF AmountToStake, WhenBefore
<1> HIDE DEF AmountToStake
<1> QED
  BY <1>1, <1>2, <1>3, <1>6 DEF StorageType

LEMMA StakeTotal ==
  ASSUME TypeOK, OrderInv, PlanInv, TotalInv, CallbackStake
  PROVE  TotalInv'
<1> DEFINE amount == AmountToStake
           lock == LockMsg(VaultDuration, amount)
           messages == NonZero(amount, <<lock>>)
<1>1. /\ ~Idle /\ ~Idle' /\ saved' = saved /\ LastOf(queue') = LastOf(queue)
      /\ Doing = "Stake" /\ Doing' \in {"LockTokens", "MintVaultToken", "Unlock"}
      /\ amount \in Nat /\ Head(queue) = queue[1]
  BY StakeFlow
<1>2. /\ storage \in StorageType /\ storage.totalStaked \in Nat /\ bank.base[Vault] \in Nat
      /\ saved.bank.base[Vault] \in Nat /\ saved.storage.totalStaked \in Nat
  BY <1>1, TotalTypes
<1>3. /\ storage' = [storage EXCEPT !.totalStaked = @ + amount] /\ bank' = bank
      /\ Fits(storage.totalStaked + amount) /\ Continue(messages)
  BY DEF CallbackStake, CanStake
<1>4. WhenBefore /\ Deposited \in Nat
  BY <1>1, DepositedType DEF TotalInv, TotalNow, BeforeStake
<1>5. amount = bank.base[Vault] - saved.bank.base[Vault]
  BY StakeIs
<1>6. VaultDuration \in Nat
  BY DEF VaultDuration
<1>7. lock \in Message /\ lock.type # "Unlock"
  BY <1>1, <1>6, MessageConstructors DEF LockMsg
<1> HIDE DEF lock
<1>8. messages \in Seq(Others)
  BY <1>7, OtherMessages
<1>9. storage'.totalStaked = storage.totalStaked + amount
  BY <1>2, <1>3 DEF StorageType
<1> HIDE DEF messages, amount
<1>10. storage'.totalStaked >= saved.storage.totalStaked + Deposited /\ Fits(storage'.totalStaked)
  BY <1>2, <1>3, <1>4, <1>5, <1>9 DEF WhenBefore, Untouched
<1>11. bank'.supply = bank.supply /\ bank'.shares = bank.shares
       /\ bank'.supply = saved.bank.supply
  BY <1>3, <1>4 DEF WhenBefore, Untouched
<1>12. Doing \in BeforeStake \cup AfterStake /\ Doing' \in AfterStake
  BY <1>1 DEF BeforeStake, AfterStake
<1> QED
  BY <1>1, <1>3, <1>8, <1>10, <1>11, <1>12, AfterStep

(* The tokens are locked, as the stake or in a dummy lock.                 *)
LEMMA LockIs ==
  ASSUME TypeOK, OrderInv, PlanInv, HandleLockTokens
  PROVE  /\ ~Idle /\ ~Idle' /\ saved' = saved /\ LastOf(queue') = LastOf(queue)
         /\ Continue(<<>>) /\ <<Doing, Doing'>> \in Follows
         /\ Doing \in {"LockTokens", "LockDummy"}
         /\ storage'.totalStaked = storage.totalStaked
         /\ bank'.supply = bank.supply /\ bank'.shares = bank.shares
         /\ pendingClaim'.amount = pendingClaim.amount
<1>1. /\ ~Idle /\ Head(queue).type = "LockTokens" /\ Continue(<<>>)
      /\ bank' = [bank EXCEPT !.base[Vault] = @ - Head(queue).amount]
  BY DEF HandleLockTokens, Handles
<1>2. storage \in StorageType /\ bank \in BankType /\ pendingClaim \in Claim \cup {NoClaim}
  BY QueueType
<1>3. \/ \E id : storage' = [storage EXCEPT !.lockId = id] /\ UNCHANGED claimsVars
      \/ \E id : SetPendingClaimId(id) /\ UNCHANGED storage
  BY DEF HandleLockTokens, ReplyLockTokens, ReplyTempWorkaroundLockTokens
<1>4. /\ storage'.totalStaked = storage.totalStaked
      /\ storage'.durationCounter = storage.durationCounter
      /\ pendingClaim'.amount = pendingClaim.amount
  BY <1>2, <1>3 DEF SetPendingClaimId, StorageType, claimsVars, Claim
<1>5. Doing \in {"LockTokens", "LockDummy"} /\ Doing \notin LastKinds
  <2>1. Doing = Kind(queue[1]) /\ queue[1] \in Message /\ queue[1].type = "LockTokens"
    BY <1>1, DoingIs
  <2> QED
    BY <2>1, KindIs DEF LastKinds
<1>6. /\ ~Idle' /\ saved' = saved /\ LastOf(queue') = LastOf(queue)
      /\ <<Doing, Doing'>> \in Follows
  BY <1>1, <1>4, <1>5, DoneFlow
<1>7. bank'.supply = bank.supply /\ bank'.shares = bank.shares
  BY <1>1, <1>2 DEF BankType
<1> QED
  BY <1>1, <1>4, <1>5, <1>6, <1>7

LEMMA LockStakeTotal ==
  ASSUME TypeOK, OrderInv, PlanInv, TotalInv, HandleLockTokens, Doing = "LockTokens"
  PROVE  TotalInv'
<1>1. /\ ~Idle /\ ~Idle' /\ saved' = saved /\ LastOf(queue') = LastOf(queue)
      /\ Continue(<<>>) /\ <<Doing, Doing'>> \in Follows
      /\ storage'.totalStaked = storage.totalStaked
      /\ bank'.supply = bank.supply /\ bank'.shares = bank.shares
  BY LockIs
<1>2. Doing' \in {"MintVaultToken", "Unlock"}
  BY <1>1, FollowsIs
<1>3. Doing \in AfterStake /\ Doing' \in AfterStake /\ Doing \in BeforeStake \cup AfterStake
  BY <1>2 DEF AfterStake
<1>4. WhenAfter
  BY <1>3 DEF TotalInv, TotalNow
<1>5. /\ storage'.totalStaked >= saved.storage.totalStaked + Deposited
      /\ Fits(storage'.totalStaked) /\ bank'.supply = saved.bank.supply
  BY <1>1, <1>4 DEF WhenAfter
<1> QED
  BY <1>1, <1>3, <1>5, NoMessages, AfterStep

(* After the burn nothing happens to the total and the supply any more.    *)
LEMMA RedeemedKept ==
  ASSUME TypeOK, ~Idle, ~Idle', saved' = saved, LastOf(queue') = LastOf(queue),
         pendingClaim'.amount = pendingClaim.amount,
         storage'.totalStaked = storage.totalStaked, bank'.supply = bank.supply
  PROVE  /\ Redeemed' = Redeemed
         /\ IsRedeemed => IsRedeemed'
         /\ Untouched => Untouched'
         /\ Ends("MintVaultToken") => Ends("MintVaultToken")'
         /\ Ends("MintVaultToken")' => Ends("MintVaultToken")
         /\ Deposited' = Deposited
<1>1. Redeemed' = Redeemed /\ Deposited' = Deposited
      /\ (Ends("MintVaultToken")' <=> Ends("MintVaultToken"))
  BY LastKept
<1>2. Untouched => Untouched'
  BY DEF Untouched
<1>3. ASSUME IsRedeemed PROVE IsRedeemed'
  BY <1>1, <1>3 DEF IsRedeemed, TakenFor, Fits
<1> QED
  BY <1>1, <1>2, <1>3

LEMMA LateStep ==
  ASSUME TypeOK, TotalInv, ~Idle, ~Idle', saved' = saved, LastOf(queue') = LastOf(queue),
         pendingClaim'.amount = pendingClaim.amount,
         storage'.totalStaked = storage.totalStaked,
         bank'.supply = bank.supply, bank'.shares = bank.shares,
         \/ Doing \in AfterBurn /\ Doing' \in {"LockDummy", "SaveClaim"} /\ Redeemed > 0
         \/ Doing = "ForceUnlock" /\ Doing' = "Send"
  PROVE  TotalInv'
<1>1. EvenInv'
  BY EvenKept DEF TotalInv
<1>2. SharesInv'
  <2>1. bank.supply = SumOver(bank.shares, Accounts)
    BY DEF TotalInv, SharesInv
  <2> QED
    BY <2>1, SumsAreFixed, KindsApart DEF SharesInv, AfterBurn
<1>3. /\ Redeemed' = Redeemed /\ Deposited' = Deposited
      /\ IsRedeemed => IsRedeemed'
      /\ Untouched => Untouched'
      /\ Ends("MintVaultToken")' => Ends("MintVaultToken")
  BY RedeemedKept
<1>4. TotalNow
  BY DEF TotalInv
<1>5. CASE Doing \in AfterBurn /\ Doing' \in {"LockDummy", "SaveClaim"} /\ Redeemed > 0
  <2>1. Doing' \in AfterBurn /\ Doing' # "BeginUnlocking"
    BY <1>5 DEF AfterBurn
  <2> QED
    BY <1>1, <1>2, <1>3, <1>4, <1>5, <2>1, KindsApart DEF TotalInv, TotalNow
<1>6. CASE Doing = "ForceUnlock" /\ Doing' = "Send"
  BY <1>1, <1>2, <1>3, <1>4, <1>6, KindsApart DEF TotalInv, TotalNow
<1> QED
  BY <1>5, <1>6

LEMMA LockDummyTotal ==
  ASSUME TypeOK, OrderInv, PlanInv, TotalInv, HandleLockTokens, Doing = "LockDummy"
  PROVE  TotalInv'
<1>1. /\ ~Idle /\ ~Idle' /\ saved' = saved /\ LastOf(queue') = LastOf(queue)
      /\ <<Doing, Doing'>> \in Follows
      /\ storage'.totalStaked = storage.totalStaked
      /\ bank'.supply = bank.supply /\ bank'.shares = bank.shares
      /\ pendingClaim'.amount = pendingClaim.amount
  BY LockIs
<1>2. Doing' = "SaveClaim" /\ Doing \in AfterBurn
  BY <1>1, FollowsIs DEF AfterBurn
<1>3. Redeemed > 0
  BY DEF TotalInv, TotalNow
<1> QED
  BY <1>1, <1>2, <1>3, LateStep

LEMMA BeginUnlockingTotal ==
  ASSUME TypeOK, OrderInv, PlanInv, TotalInv, HandleBeginUnlocking
  PROVE  TotalInv'
<1>1. /\ ~Idle /\ Head(queue).type = "BeginUnlocking" /\ Continue(<<>>)
      /\ UNCHANGED <<storage, bank, claimsVars>> /\ Head(queue).amount > 0
  <2>1. CanBeginUnlocking(Head(queue).id, Head(queue).amount) /\ Handles("BeginUnlocking")
    BY DEF HandleBeginUnlocking, BeginUnlocking
  <2>2. IsLockup(locks, lastLockId) /\ Head(queue).id \in DOMAIN locks
        /\ Head(queue).amount \in 1..locks[Head(queue).id].amount
    BY <2>1, QueueType DEF CanBeginUnlocking
  <2>3. locks[Head(queue).id].amount \in Nat
    BY <2>2, LockTypes
  <2>4. Head(queue).amount > 0
    BY <2>2, <2>3
  <2> QED
    BY <2>1, <2>4 DEF HandleBeginUnlocking, Handles
<1>2. Doing = "BeginUnlocking" /\ Doing \notin LastKinds /\ Head(queue) = queue[1]
  BY <1>1, DoingIs DEF LastKinds
<1>3. /\ ~Idle' /\ saved' = saved /\ <<Doing, Doing'>> \in Follows
      /\ LastOf(queue') = LastOf(queue)
  BY <1>1, <1>2, DoneFlow
<1>4. Doing' = "LockDummy" /\ Doing \in AfterBurn
  BY <1>2, <1>3, FollowsIs DEF AfterBurn
<1>5. Redeemed > 0
  BY <1>1, <1>2 DEF TotalInv, TotalNow
<1> QED
  BY <1>1, <1>3, <1>4, <1>5, LateStep DEF claimsVars

LEMMA ForceUnlockTotal ==
  ASSUME TypeOK, OrderInv, PlanInv, TotalInv, HandleForceUnlock
  PROVE  TotalInv'
<1>1. /\ ~Idle /\ Head(queue).type = "ForceUnlock" /\ Continue(<<>>)
      /\ UNCHANGED <<storage, claimsVars>>
      /\ bank' = [bank EXCEPT !.base[Vault] = @ + Head(queue).amount]
  BY DEF HandleForceUnlock, Handles
<1>2. Doing = "ForceUnlock" /\ Doing \notin LastKinds
  BY <1>1, DoingIs DEF LastKinds
<1>3. /\ ~Idle' /\ saved' = saved /\ <<Doing, Doing'>> \in Follows
      /\ LastOf(queue') = LastOf(queue)
  BY <1>1, <1>2, DoneFlow
<1>4. Doing' = "Send"
  BY <1>2, <1>3, FollowsIs
<1>5. bank'.supply = bank.supply /\ bank'.shares = bank.shares
  BY <1>1, TotalTypes DEF BankType
<1> QED
  BY <1>1, <1>2, <1>3, <1>4, <1>5, LateStep DEF claimsVars

----------------------------------------------------------------------------
(* Shares are minted.                                                      *)
LEMMA MintCallbackTotal ==
  ASSUME TypeOK, OrderInv, PlanInv, TotalInv, CallbackMintVaultToken
  PROVE  TotalInv'
<1> DEFINE amount == queue[1].amount
<1>1. /\ Doing = "MintVaultToken" /\ Head(queue) = queue[1] /\ LastOf(queue) = queue[1]
      /\ ~Idle /\ ~Idle' /\ saved' = saved
      /\ Doing' = "Mint" /\ queue'[1].amount = SharesToMint
      /\ LastOf(queue') = queue'[1]
  BY MintFlow
<1>2. UNCHANGED <<storage, bank>>
  BY DEF CallbackMintVaultToken
<1>3. EvenInv'
  BY <1>1, EvenKept DEF TotalInv
<1>4. SharesInv'
  <2>1. bank.supply = SumOver(bank.shares, Accounts)
    BY DEF TotalInv, SharesInv
  <2> QED
    BY <1>1, <1>2, <2>1, SumsAreFixed, KindsApart DEF SharesInv
<1>5. queue[1].type = "MintVaultToken"
  BY <1>1, DoingIs
<1>6. Ends("MintVaultToken") /\ Deposited = amount
  BY <1>1, <1>5 DEF Ends, Deposited
<1>7. /\ amount > 0 /\ WhenAfter /\ amount \in Nat
  BY <1>1, <1>6, DepositedType DEF TotalInv, TotalNow, AfterStake
<1>8. /\ storage.totalStaked \in Nat /\ saved.storage.totalStaked \in Nat
  BY <1>1, TotalTypes
<1>9. /\ amount \in 1..storage.totalStaked
      /\ saved.storage.totalStaked + amount <= storage.totalStaked
  BY <1>6, <1>7, <1>8 DEF WhenAfter
<1>10. SharesToMint = CalculateVaultTokens(amount, storage.totalStaked - amount, bank.supply)
  BY <1>1 DEF SharesToMint
<1>11. ~Ends("MintVaultToken")'
  <2>1. queue' # <<>> /\ Kind(queue'[1]) = "Mint"
    BY <1>1 DEF Doing, Idle
  <2> QED
    BY <1>1, <2>1 DEF Ends, Kind, LastOf
<1>12. WhenMint'
  BY <1>1, <1>2, <1>7, <1>9, <1>10 DEF WhenMint, WhenAfter, IsDeposited, Fits
<1>13. TotalNow'
  BY <1>1, <1>11, <1>12, KindsApart DEF TotalNow
<1> QED
  BY <1>3, <1>4, <1>13 DEF TotalInv

(* The end of a transaction.                                               *)
LEMMA EndTotal ==
  ASSUME Idle', Even(storage.totalStaked, bank)'
  PROVE  TotalInv'
<1>1. Doing' = "None" /\ ~Ends("MintVaultToken")'
  BY DEF Doing, Ends
<1>2. EvenInv'
  BY DEF EvenInv, Even, Fits
<1>3. SharesInv'
  BY <1>1, KindsApart DEF SharesInv, Even
<1>4. TotalNow'
  BY <1>1, KindsApart DEF TotalNow
<1> QED
  BY <1>2, <1>3, <1>4 DEF TotalInv

LEMMA MintIs ==
  ASSUME TypeOK, OrderInv, PlanInv, HandleMint
  PROVE  /\ ~Idle /\ Idle' /\ Doing = "Mint" /\ Head(queue) = queue[1]
         /\ UNCHANGED storage /\ queue[1].amount \in Nat /\ queue[1].recipient \in Accounts
         /\ queue[1].amount > 0 /\ Fits(bank.supply + queue[1].amount)
         /\ bank' = [bank EXCEPT !.shares[queue[1].recipient] = @ + queue[1].amount,
                                 !.supply = @ + queue[1].amount]
         /\ bank'.supply = bank.supply + queue[1].amount
<1>1. /\ ~Idle /\ Head(queue).type = "Mint" /\ Continue(<<>>) /\ CanMint
      /\ UNCHANGED storage
      /\ bank' = [bank EXCEPT !.shares[Head(queue).recipient] = @ + Head(queue).amount,
                              !.supply = @ + Head(queue).amount]
  BY DEF HandleMint, Handles
<1>2. Doing = "Mint" /\ Head(queue) = queue[1] /\ Doing \in LastKinds
  BY <1>1, DoingIs DEF LastKinds
<1>3. Idle'
  BY <1>1, <1>2, DoneFlow
<1>4. queue[1].amount \in Nat /\ queue[1].recipient \in Accounts
  BY <1>1, <1>2, HeadAndTail, MessageFields, ConstantTypes
<1>5. bank'.supply = bank.supply + queue[1].amount
  BY <1>1, <1>2, QueueType DEF BankType
<1> QED
  BY <1>1, <1>2, <1>3, <1>4, <1>5 DEF CanMint

LEMMA MintTotal ==
  ASSUME TypeOK, OrderInv, PlanInv, TotalInv, HandleMint
  PROVE  TotalInv'
<1> DEFINE n == queue[1].amount
           account == queue[1].recipient
           more == bank.shares[account] + n
<1>1. /\ ~Idle /\ Idle' /\ Doing = "Mint" /\ storage' = storage
      /\ n \in Nat /\ account \in Accounts /\ n > 0
      /\ bank' = [bank EXCEPT !.shares[account] = @ + n, !.supply = @ + n]
      /\ bank'.supply = bank.supply + n
  BY MintIs
<1>2. /\ bank \in BankType /\ bank.shares \in [Accounts -> Nat] /\ bank.supply \in Nat
      /\ storage.totalStaked \in Nat
  BY TotalTypes
<1>3. bank.supply = SumOver(bank.shares, Accounts)
  BY DEF TotalInv, SharesInv
<1>4. WhenMint
  BY <1>1 DEF TotalInv, TotalNow
<1>5. storage.totalStaked > 0 /\ Fits(storage.totalStaked)
  BY <1>2, <1>4 DEF WhenMint, IsDeposited
<1> HIDE DEF n, account
<1>6. more \in Nat /\ more = bank.shares[account] + n
  BY <1>1, <1>2
<1>7. bank'.shares = [bank.shares EXCEPT ![account] = more]
  BY <1>1, <1>2 DEF BankType
<1> HIDE DEF more
<1>8. SumOver(bank'.shares, Accounts)
        = (SumOver(bank.shares, Accounts) + more) - bank.shares[account]
  BY <1>1, <1>2, <1>6, <1>7, BalanceChanges
<1>9. bank'.supply = SumOver(bank'.shares, Accounts)
  <2>1. bank.shares[account] \in Nat
    BY <1>1, <1>2
  <2> QED
    BY <1>1, <1>2, <1>3, <1>6, <1>8, <2>1
<1>10. Even(storage.totalStaked, bank)'
  BY <1>1, <1>2, <1>5, <1>9, SumsAreFixed DEF Even, Fits
<1> QED
  BY <1>1, <1>10, EndTotal

----------------------------------------------------------------------------
(* Shares are burned.                                                      *)

(* An unlock ends with the claim.                                          *)
LEMMA UnlockEnds ==
  ASSUME TypeOK, OrderInv, Doing = "Unlock"
  PROVE  Ends("SaveClaim")
<1> DEFINE len == Len(queue)
           kind(i) == Kind(queue[i])
<1>1. queue \in Seq(Message) /\ ~Idle
  BY QueueType DEF Doing
<1>2. len \in Nat \ {0} /\ LastOf(queue) = queue[len]
      /\ \A i \in 1..len : queue[i] \in Message
  BY <1>1, EmptySeq, ElementOfSeq, LenProperties DEF Idle, LastOf
<1>3. /\ \A i \in 1..len : i < len => <<kind(i), kind(i + 1)>> \in Follows
      /\ kind(len) \in LastKinds /\ kind(1) = "Unlock"
  BY <1>1 DEF OrderInv, InOrder, Doing, LastOf
<1> HIDE DEF len, kind
<1>4. len # 1
  BY <1>3 DEF LastKinds
<1>5. kind(2) = "LockDummy"
  <2>1. <<kind(1), kind(1 + 1)>> \in Follows
    BY <1>2, <1>3, <1>4
  <2> QED
    BY <1>3, <2>1, FollowsIs
<1>6. len # 2
  BY <1>3, <1>5 DEF LastKinds
<1>7. kind(3) = "SaveClaim"
  <2>1. <<kind(2), kind(2 + 1)>> \in Follows
    BY <1>2, <1>3, <1>4, <1>6
  <2> QED
    BY <1>5, <2>1, FollowsIs
<1>8. len = 3
  <2>1. ASSUME len # 3 PROVE FALSE
    <3>1. <<kind(3), kind(3 + 1)>> \in Follows
      BY <1>2, <1>3, <1>4, <1>6, <2>1
    <3> QED
      BY <1>7, <3>1, FollowsIs DEF LastKinds
  <2> QED
    BY <2>1
<1>9. queue[3].type = "SaveClaim"
  BY <1>2, <1>7, <1>8, KindIs DEF kind
<1> QED
  BY <1>1, <1>2, <1>8, <1>9 DEF Ends

LEMMA UnlockTotal ==
  ASSUME TypeOK, OrderInv, PlanInv, TotalInv, CallbackUnlock
  PROVE  TotalInv'
<1> DEFINE vaultTokens == queue[1].amount
           base == BurnValue(vaultTokens)
           yield == storage.totalStaked - saved.storage.totalStaked
<1>1. /\ Doing = "Unlock" /\ Head(queue) = queue[1] /\ vaultTokens \in Nat /\ base \in Nat
      /\ ~Idle /\ ~Idle' /\ saved' = saved
      /\ Doing' = "Burn" /\ queue'[1] = Burn(vaultTokens)
      /\ queue'[2] = BeginUnlockMsg(storage.lockId, base)
      /\ LastOf(queue') = LastOf(queue)
  BY UnlockFlow
<1>2. EvenInv'
  BY <1>1, EvenKept DEF TotalInv
<1>3. /\ storage'.totalStaked = storage.totalStaked - base /\ bank' = bank
      /\ pendingClaim'.amount = base
      /\ base = CalculateBaseTokens(vaultTokens, storage.totalStaked, bank.supply)
  BY <1>1, QueueType
  DEF CallbackUnlock, BurnVaultTokens, CreatePendingClaim, StorageType, BurnValue
<1>4. Ends("SaveClaim")
  BY <1>1, UnlockEnds
<1>5. /\ queue'[1].amount = vaultTokens /\ queue'[2].amount = base /\ Redeemed' = base
      /\ ~Ends("MintVaultToken")'
  BY <1>1, <1>3, <1>4 DEF Burn, BeginUnlockMsg, Redeemed, Ends, LastOf
<1>6. WhenAfter /\ Deposited \in Nat
  BY <1>1, DepositedType DEF TotalInv, TotalNow, AfterStake
<1>7. /\ storage.totalStaked \in Nat /\ bank.supply \in Nat /\ bank.shares[Vault] \in Nat
      /\ saved.storage.totalStaked \in Nat /\ MaxUint128 \in Nat
  BY <1>1, TotalTypes
<1>8. vaultTokens \in 1..bank.shares[Vault]
  <2>1. queue \in Seq(UnlocksUpTo(bank.shares[Vault]))
    BY <1>1 DEF TotalInv, SharesInv, AfterStake
  <2>2. queue[1] \in UnlocksUpTo(bank.shares[Vault]) /\ queue[1].type = "Unlock"
    BY <1>1, <2>1, QueueParts, DoingIs
  <2> QED
    BY <2>2 DEF UnlocksUpTo
<1>9. /\ yield \in 0..MaxUint128 /\ storage.totalStaked = saved'.storage.totalStaked + yield
      /\ Fits(storage.totalStaked)
  BY <1>1, <1>6, <1>7 DEF WhenAfter, Fits
<1>10. saved'.bank.supply = bank.supply /\ bank.supply = SumOver(bank'.shares, Accounts)
       /\ bank'.supply = bank.supply
  BY <1>1, <1>3, <1>6 DEF WhenAfter, TotalInv, SharesInv
<1> HIDE DEF vaultTokens, base, yield
<1> QED
  BY <1>1, <1>2, <1>3, <1>5, <1>7, <1>8, <1>9, <1>10, BurnNext

LEMMA BurnTotal ==
  ASSUME TypeOK, OrderInv, PlanInv, TotalInv, HandleBurn
  PROVE  TotalInv'
<1> DEFINE n == queue[1].amount
           less == bank.shares[Vault] - n
<1>1. /\ ~Idle /\ Head(queue).type = "Burn" /\ Continue(<<>>) /\ CanBurn
      /\ UNCHANGED <<storage, claimsVars>>
      /\ bank' = [bank EXCEPT !.shares[Vault] = @ - Head(queue).amount,
                              !.supply = @ - Head(queue).amount]
  BY DEF HandleBurn, Handles
<1>2. Doing = "Burn" /\ Doing \notin LastKinds /\ Head(queue) = queue[1]
  BY <1>1, DoingIs DEF LastKinds
<1>3. /\ ~Idle' /\ saved' = saved /\ <<Doing, Doing'>> \in Follows
      /\ queue'[1] = queue[2] /\ LastOf(queue') = LastOf(queue)
  BY <1>1, <1>2, DoneFlow
<1>4. Doing' \in {"BeginUnlocking", "ForceUnlock"}
  BY <1>2, <1>3, FollowsIs
<1>5. EvenInv'
  BY <1>1, <1>3, EvenKept DEF TotalInv
<1>6. /\ bank \in BankType /\ bank.shares \in [Accounts -> Nat] /\ bank.supply \in Nat
      /\ Vault \in Accounts /\ bank.shares[Vault] \in Nat
  BY TotalTypes
<1>7. bank.supply = SumOver(bank.shares, Accounts) /\ n \in 1..bank.shares[Vault]
  BY <1>2 DEF TotalInv, SharesInv
<1>8. bank.shares[Vault] <= bank.supply
  BY SharesCovered DEF TotalInv
<1>9. bank'.shares = [bank.shares EXCEPT ![Vault] = less] /\ bank'.supply = bank.supply - n
  BY <1>1, <1>2, <1>6 DEF BankType
<1>10. less \in Nat /\ n \in Nat /\ less = bank.shares[Vault] - n
  BY <1>6, <1>7
<1> HIDE DEF less, n
<1>11. SumOver(bank'.shares, Accounts)
        = (SumOver(bank.shares, Accounts) + less) - bank.shares[Vault]
  BY <1>6, <1>9, <1>10, BalanceChanges
<1>12. bank'.supply = SumOver(bank'.shares, Accounts)
  BY <1>6, <1>7, <1>9, <1>10, <1>11
<1>13. SharesInv'
  BY <1>4, <1>12, SumsAreFixed, KindsApart DEF SharesInv, BeforeStake, AfterStake
<1>14. WhenBurn
  BY <1>2 DEF TotalInv, TotalNow
<1>15. Redeemed' = Redeemed /\ (Ends("MintVaultToken")' <=> Ends("MintVaultToken"))
  BY <1>1, <1>2, <1>3, LastKept DEF claimsVars
<1>16. IsRedeemed'
  <2>1. n \in 1..saved.bank.supply /\ bank'.supply = saved.bank.supply - n
    BY <1>6, <1>7, <1>8, <1>9, <1>10, <1>14 DEF WhenBurn
  <2>2. PICK yield \in Nat : TakenFor(n, yield)
    BY <1>14 DEF WhenBurn, n
  <2>3. TakenFor(n, yield)
          => /\ yield \in 0..MaxUint128
             /\ Fits(saved.storage.totalStaked + yield)
             /\ Redeemed = CalculateBaseTokens(n, saved.storage.totalStaked + yield,
                                               saved.bank.supply)
             /\ storage.totalStaked = (saved.storage.totalStaked + yield) - Redeemed
    BY DEF TakenFor
  <2> QED
    BY <1>1, <1>3, <1>15, <2>1, <2>2, <2>3 DEF IsRedeemed, TakenFor, Fits
<1>17. Ends("MintVaultToken") => Deposited > 0
  BY DEF TotalInv, TotalNow
<1>18. Doing' = "BeginUnlocking" => queue'[1].amount = Redeemed'
  BY <1>3, <1>14, <1>15 DEF WhenBurn
<1>19. Deposited' = Deposited
  BY <1>1, <1>3, LastKept
<1>20. TotalNow'
  BY <1>4, <1>15, <1>16, <1>17, <1>18, <1>19, KindsApart DEF TotalNow, BeforeStake, AfterStake
<1> QED
  BY <1>5, <1>13, <1>20 DEF TotalInv

(* What is left is even again: tokens are left exactly if shares are.      *)
LEMMA RedeemedEven ==
  ASSUME TypeOK, TotalInv, ~Idle, IsRedeemed
  PROVE  Even(storage.totalStaked, bank)
<1>1. PICK vaultTokens \in 1..saved.bank.supply :
         /\ \E yield \in Nat : TakenFor(vaultTokens, yield)
         /\ bank.supply = saved.bank.supply - vaultTokens
  BY DEF IsRedeemed
<1>2. PICK yield \in Nat : TakenFor(vaultTokens, yield)
  BY <1>1
<1> DEFINE total == saved.storage.totalStaked + yield
<1>3. saved.storage.totalStaked \in Nat /\ saved.bank.supply \in Nat
      /\ storage.totalStaked \in Nat /\ bank.supply \in Nat /\ MaxUint128 \in Nat
  BY TotalTypes
<1>4. /\ saved.storage.totalStaked = 0 <=> saved.bank.supply = 0
      /\ bank.supply = SumOver(bank.shares, Accounts)
  BY DEF TotalInv, EvenInv, Even, SharesInv
<1>5. total \in Nat /\ total > 0 /\ saved.bank.supply \in Nat \ {0}
      /\ vaultTokens \in 0..saved.bank.supply /\ vaultTokens \in Nat
  BY <1>1, <1>3, <1>4
<1>6. Fits(total) /\ storage.totalStaked = total - Redeemed
      /\ Redeemed = CalculateBaseTokens(vaultTokens, total, saved.bank.supply)
  BY <1>2 DEF TakenFor
<1> HIDE DEF total
<1>7. /\ Redeemed \in 0..total
      /\ vaultTokens = saved.bank.supply => Redeemed = total
      /\ vaultTokens < saved.bank.supply => Redeemed < total
  BY <1>5, <1>6, RedeemKeepsPrice
<1>8. Fits(storage.totalStaked) /\ (storage.totalStaked = 0 <=> bank.supply = 0)
  BY <1>1, <1>3, <1>5, <1>6, <1>7 DEF Fits
<1> QED
  BY <1>4, <1>8 DEF Even

LEMMA UntouchedEven ==
  ASSUME TotalInv, ~Idle, Untouched
  PROVE  Even(storage.totalStaked, bank)
  BY DEF TotalInv, EvenInv, Even, SharesInv, Untouched

LEMMA EvenNext ==
  ASSUME Even(storage.totalStaked, bank), storage'.totalStaked = storage.totalStaked,
         bank'.supply = bank.supply, bank'.shares = bank.shares
  PROVE  Even(storage.totalStaked, bank)'
  BY SumsAreFixed DEF Even, Fits

LEMMA SaveClaimTotal ==
  ASSUME TypeOK, OrderInv, PlanInv, TotalInv, CallbackSaveClaim
  PROVE  TotalInv' /\ Idle' /\ ~Idle /\ Doing = "SaveClaim"
<1>1. /\ ~Idle /\ Head(queue).type = "SaveClaim" /\ Continue(<<>>)
      /\ UNCHANGED <<storage, bank>>
  BY DEF CallbackSaveClaim, Handles
<1>2. Doing = "SaveClaim" /\ Doing \in LastKinds /\ Doing \in AfterBurn
  BY <1>1, DoingIs DEF LastKinds, AfterBurn
<1>3. Idle'
  BY <1>1, <1>2, DoneFlow
<1>4. IsRedeemed
  BY <1>2 DEF TotalInv, TotalNow
<1> QED
  BY <1>1, <1>2, <1>3, <1>4, RedeemedEven, EvenNext, EndTotal

LEMMA SendIs ==
  ASSUME TypeOK, OrderInv, PlanInv, HandleSend
  PROVE  /\ ~Idle /\ Idle' /\ Doing = "Send" /\ Ends("Send") /\ UNCHANGED storage
         /\ Redeemed > 0 /\ Redeemed \in Nat
         /\ bank'.supply = bank.supply /\ bank'.shares = bank.shares
<1>1. /\ ~Idle /\ Head(queue).type = "Send" /\ Continue(<<>>) /\ UNCHANGED storage
      /\ Head(queue).amount \in 1..bank.base[Vault]
      /\ bank' = [bank EXCEPT !.base[Vault] = @ - Head(queue).amount,
                              !.base[Head(queue).recipient] = @ + Head(queue).amount]
  BY DEF HandleSend, Handles, CanSend
<1>2. Doing = "Send" /\ Doing \in LastKinds /\ Head(queue) = queue[1]
  BY <1>1, DoingIs DEF LastKinds
<1>3. Idle' /\ LastOf(queue) = queue[1]
  BY <1>1, <1>2, DoneFlow
<1>4. bank'.supply = bank.supply /\ bank'.shares = bank.shares
  BY <1>1, QueueType DEF BankType
<1>5. Ends("Send") /\ Redeemed = queue[1].amount
  BY <1>1, <1>2, <1>3 DEF Ends, Redeemed
<1>6. Redeemed > 0 /\ Redeemed \in Nat
  BY <1>1, <1>2, <1>5, TotalTypes
<1> QED
  BY <1>1, <1>2, <1>3, <1>4, <1>5, <1>6

LEMMA SendTotal ==
  ASSUME TypeOK, OrderInv, PlanInv, TotalInv, HandleSend
  PROVE  TotalInv'
<1>1. /\ ~Idle /\ Idle' /\ Doing = "Send" /\ storage' = storage
      /\ bank'.supply = bank.supply /\ bank'.shares = bank.shares
  BY SendIs
<1>2. Untouched \/ IsRedeemed
  BY <1>1 DEF TotalInv, TotalNow
<1>3. Even(storage.totalStaked, bank)
  BY <1>1, <1>2, RedeemedEven, UntouchedEven
<1> QED
  BY <1>1, <1>3, EvenNext, EndTotal

LEMMA SelfIs ==
  ASSUME TypeOK, OrderInv, HandleSendToSelf
  PROVE  /\ ~Idle /\ Idle' /\ saved' = NoTx /\ Doing = "Send" /\ Ends("Send")
         /\ UNCHANGED <<storage, bank, lockupVars, claimsVars, now>>
         /\ Redeemed > 0 /\ Redeemed \in Nat /\ donated' = donated + Redeemed
<1>1. /\ ~Idle /\ Idle' /\ saved' = NoTx /\ Doing = "Send"
      /\ UNCHANGED <<storage, bank, lockupVars, claimsVars, now>>
      /\ Head(queue) = queue[1] /\ LastOf(queue) = queue[1]
  BY SelfFlow
<1>2. Head(queue).type = "Send" /\ Head(queue).amount \in 1..bank.base[Vault]
      /\ donated' = donated + Head(queue).amount
  BY DEF HandleSendToSelf, Handles, CanSend
<1>3. Ends("Send") /\ Redeemed = queue[1].amount
  BY <1>1, <1>2 DEF Ends, Redeemed
<1>4. Redeemed > 0 /\ Redeemed \in Nat
  BY <1>1, <1>2, <1>3, TotalTypes
<1> QED
  BY <1>1, <1>2, <1>3, <1>4

LEMMA SendToSelfTotal ==
  ASSUME TypeOK, OrderInv, TotalInv, HandleSendToSelf
  PROVE  TotalInv'
<1>1. /\ ~Idle /\ Idle' /\ Doing = "Send" /\ storage' = storage /\ bank' = bank
  BY SelfIs
<1>2. Untouched \/ IsRedeemed
  BY <1>1 DEF TotalInv, TotalNow
<1>3. Even(storage.totalStaked, bank)
  BY <1>1, <1>2, RedeemedEven, UntouchedEven
<1> QED
  BY <1>1, <1>3, EvenNext, EndTotal

----------------------------------------------------------------------------
(* Every step.                                                             *)
LEMMA RevertTotal ==
  ASSUME TotalInv, ~Idle, Revert
  PROVE  TotalInv'
<1>1. Idle' /\ storage' = saved.storage /\ bank' = saved.bank
  BY DEF Revert, Idle
<1>2. Even(saved.storage.totalStaked, saved.bank)
  BY DEF TotalInv, EvenInv
<1>3. Even(storage.totalStaked, bank)'
  BY <1>1, <1>2, SumsAreFixed DEF Even, Fits
<1> QED
  BY <1>1, <1>3, EndTotal

LEMMA EnvironmentIs ==
  ASSUME TypeOK, Environment
  PROVE  /\ Idle /\ Idle' /\ storage' = storage
         /\ bank'.supply = bank.supply /\ bank'.shares = bank.shares
<1>1. bank \in BankType
  BY QueueType
<1>2. Idle /\ Idle' /\ storage' = storage
  BY DEF Environment, NextBlock, LockReturned, RewardsDistributed, SomeoneElseLocks,
         Donate, Idle
<1>3. \/ bank' = bank
      \/ \E id : bank' = [bank EXCEPT !.base[Vault] = @ + locks[id].amount]
      \/ bank' = [bank EXCEPT !.incentives = @ - 1, !.rewards = @ + 1]
      \/ \E user, amount : bank' = [bank EXCEPT !.base[user] = @ - amount,
                                                !.base[Vault] = @ + amount]
  BY DEF Environment, NextBlock, LockReturned, RewardsDistributed, SomeoneElseLocks, Donate
<1>4. bank'.supply = bank.supply /\ bank'.shares = bank.shares
  BY <1>1, <1>3 DEF BankType
<1> QED
  BY <1>2, <1>4

LEMMA EnvironmentTotal ==
  ASSUME TypeOK, TotalInv, Environment
  PROVE  TotalInv'
<1>1. Even(storage.totalStaked, bank)
  BY EnvironmentIs DEF TotalInv, EvenInv
<1> QED
  BY <1>1, EnvironmentIs, EvenNext, EndTotal

LEMMA MessageTotal ==
  ASSUME TypeOK, TypeOK', OrderInv, PlanInv, TotalInv, HandleMessage
  PROVE  TotalInv'
<1>1. CASE HandleLockTokens
  <2>1. Doing \in {"LockTokens", "LockDummy"}
    BY <1>1, LockIs
  <2> QED
    BY <1>1, <2>1, LockStakeTotal, LockDummyTotal
<1>2. CASE FailedMessage
  BY <1>2, RevertTotal DEF FailedMessage
<1> QED
  BY <1>1, <1>2, SellRewardsTotal, ProvideLiquidityTotal, StakeTotal, MintCallbackTotal,
     UnlockTotal, SaveClaimTotal, RewardsTotal, MintTotal, BurnTotal, SendTotal,
     SendToSelfTotal, BeginUnlockingTotal, ForceUnlockTotal
  DEF HandleMessage

LEMMA UserTotal ==
  ASSUME TypeOK, TotalInv, UserTx
  PROVE  TotalInv'
<1>0. /\ \A user \in Users : {user} \cup Recipients \subseteq Accounts
      /\ \A user \in Users : 1..bank.base[user] \subseteq Nat /\ 1..bank.shares[user] \subseteq Nat
      /\ \A id \in DOMAIN claims : 0..claims[id].amount \subseteq Nat
  BY ConstantTypes
<1>1. CASE \E user \in Users : \E recipient \in {user} \cup Recipients :
             \E amount \in 1..bank.base[user] : ExecuteDeposit(user, amount, recipient)
  BY <1>0, <1>1, DepositTotal
<1>2. CASE \E user \in Users : \E recipient \in {user} \cup Recipients :
             \E id \in DOMAIN claims : ExecuteWithdrawUnlocked(user, id, recipient)
  BY <1>0, <1>2, WithdrawTotal
<1>3. CASE \E user \in Users : \E recipient \in {user} \cup Recipients :
             \E vaultTokens \in 1..bank.shares[user] :
               ExecuteForceRedeem(user, vaultTokens, recipient)
  BY <1>0, <1>3, ForceRedeemTotal
<1>4. CASE \E user \in Users : \E recipient \in {user} \cup Recipients :
             \E id \in DOMAIN claims : \E amount \in 0..claims[id].amount :
               ExecuteForceWithdrawUnlocking(user, id, amount, recipient)
  BY <1>0, <1>4, ForceWithdrawTotal
<1>5. CASE \E user \in Users : \E vaultTokens \in 1..bank.shares[user] :
             ExecuteUnlock(user, vaultTokens)
  BY <1>0, <1>5, ExecuteUnlockTotal
<1> QED
  BY <1>1, <1>2, <1>3, <1>4, <1>5 DEF UserTx

LEMMA StutterTotal ==
  ASSUME TotalInv, UNCHANGED vars
  PROVE  TotalInv'
<1>1. UNCHANGED <<storage, bank, queue, saved, pendingClaim>>
  BY DEF vars, claimsVars
<1>2. /\ Idle' <=> Idle
      /\ Doing' = Doing /\ Deposited' = Deposited /\ Redeemed' = Redeemed
      /\ Ends("MintVaultToken")' <=> Ends("MintVaultToken")
  BY <1>1 DEF Idle, Doing, Deposited, Redeemed, Ends, LastOf, Kind
<1>3. EvenInv' /\ SharesInv'
  BY <1>1, <1>2, SumsAreFixed DEF TotalInv, EvenInv, SharesInv, Even, Fits, Idle
<1>4. /\ Untouched' <=> Untouched
      /\ IsRedeemed' <=> IsRedeemed
      /\ IsDeposited' <=> IsDeposited
      /\ WhenBefore' <=> WhenBefore
      /\ WhenAfter' <=> WhenAfter
      /\ WhenMint' <=> WhenMint
      /\ WhenBurn' <=> WhenBurn
  BY <1>1, <1>2
  DEF Untouched, IsRedeemed, IsDeposited, TakenFor, WhenBefore, WhenAfter, WhenMint, WhenBurn, Fits
<1>5. TotalNow'
  BY <1>1, <1>2, <1>4 DEF TotalInv, TotalNow
<1> QED
  BY <1>3, <1>5 DEF TotalInv

LEMMA TotalNext ==
  ASSUME LocksInv, TypeOK', TotalInv, [Next]_vars
  PROVE  TotalInv'
<1>1. TypeOK /\ OrderInv /\ PlanInv
  BY DEF LocksInv, FlowInv
<1>2. CASE ExternalFailure
  BY <1>2, RevertTotal DEF ExternalFailure, Handles
<1> QED
  BY <1>1, <1>2, MessageTotal, UserTotal, EnvironmentTotal, StutterTotal DEF Next

LEMMA TotalInit == Init => TotalInv
<1> SUFFICES ASSUME Init PROVE TotalInv
  OBVIOUS
<1>1. /\ storage.totalStaked = 0 /\ bank.supply = 0 /\ queue = <<>>
      /\ bank.shares = [a \in Accounts |-> 0]
  BY DEF Init
<1>2. SumOver(bank.shares, Accounts) = 0
  BY <1>1, FiniteAccounts, SumOfZeros
<1>3. Idle /\ Doing = "None" /\ ~Ends("MintVaultToken") /\ Fits(storage.totalStaked)
  BY <1>1, ConstantTypes DEF Idle, Doing, Ends, Fits
<1>4. EvenInv /\ SharesInv
  BY <1>1, <1>2, <1>3, KindsApart DEF EvenInv, Even, SharesInv
<1>5. TotalNow
  BY <1>3, KindsApart DEF TotalNow
<1> QED
  BY <1>4, <1>5 DEF TotalInv

LEMMA TotalInvariant == Spec => [](LocksInv /\ TotalInv)
<1>1. Init => LocksInv /\ TotalInv
  BY LocksInit, TotalInit
<1>2. LocksInv /\ TotalInv /\ [Next]_vars => (LocksInv /\ TotalInv)'
  <2> SUFFICES ASSUME LocksInv, TotalInv, [Next]_vars PROVE (LocksInv /\ TotalInv)'
    OBVIOUS
  <2>1. LocksInv'
    BY LocksNext
  <2>2. TypeOK'
    BY <2>1 DEF LocksInv, FlowInv
  <2> QED
    BY <2>1, <2>2, TotalNext
<1> QED
  BY <1>1, <1>2, PTL DEF Spec

----------------------------------------------------------------------------
(* The bookkeeping of a transaction never fails.                           *)
LEMMA UnlockSucceeds ==
  ASSUME LocksInv, TotalInv, Doing = "Unlock"
  PROVE  CanUnlock
<1> DEFINE n == queue[1].amount
<1>1. TypeOK /\ ~Idle /\ Head(queue) = queue[1] /\ queue[1].type = "Unlock"
  <2>1. TypeOK /\ ~Idle
    BY DEF LocksInv, FlowInv, Doing
  <2> QED
    BY <2>1, DoingIs
<1>2. AtCalm
  BY DEF LocksInv, LocksNow, CalmKinds
<1>3. /\ storage.totalStaked \in Nat /\ bank.supply \in Nat /\ bank.shares[Vault] \in Nat
      /\ saved.storage.totalStaked \in Nat /\ IsLockup(locks, lastLockId)
  BY <1>1, TotalTypes, QueueType
<1>4. n \in 1..bank.shares[Vault]
  <2>1. queue \in Seq(UnlocksUpTo(bank.shares[Vault]))
    BY DEF TotalInv, SharesInv, AfterStake
  <2>2. queue[1] \in UnlocksUpTo(bank.shares[Vault])
    BY <1>1, <2>1, QueueParts
  <2> QED
    BY <1>1, <2>2 DEF UnlocksUpTo
<1>5. bank.shares[Vault] <= bank.supply
  BY <1>1, SharesCovered DEF TotalInv
<1>6. WhenAfter /\ Deposited \in Nat
  BY <1>1, DepositedType DEF TotalInv, TotalNow, AfterStake
<1>7. storage.totalStaked > 0
  <2>1. saved.storage.totalStaked = 0 <=> saved.bank.supply = 0
    BY <1>1 DEF TotalInv, EvenInv, Even
  <2> QED
    BY <1>3, <1>4, <1>5, <1>6, <2>1 DEF WhenAfter
<1>8. storage.lockId # NoLock
  <2>1. storage.lockId \in DOMAIN locks
    BY <1>2, <1>3, <1>7, StakedIs DEF AtCalm, Resting
  <2>2. storage.lockId \in Nat
    BY <1>3, <2>1, LockTypes
  <2> QED
    BY <2>2, ConstantTypes
<1>9. n \in 0..bank.supply /\ bank.supply \in Nat \ {0}
  BY <1>3, <1>4, <1>5
<1> HIDE DEF n
<1>10. BurnValue(n) \in 0..storage.totalStaked
  BY <1>3, <1>9, RedeemKeepsPrice DEF BurnValue
<1>11. BurnValue(n) <= storage.totalStaked
  BY <1>3, <1>10
<1> QED
  BY <1>1, <1>2, <1>8, <1>11 DEF CanUnlock, AtCalm, n

LEMMA BeginUnlockingSucceeds ==
  ASSUME LocksInv, Doing = "BeginUnlocking", queue[1].amount > 0
  PROVE  CanBeginUnlocking(queue[1].id, queue[1].amount)
<1> DEFINE m == queue[1]
           n == storage.totalStaked + m.amount
<1>1. TypeOK /\ ~Idle
  BY DEF LocksInv, FlowInv, Doing
<1>2. m.amount \in Nat \ {0} /\ storage.totalStaked \in Nat /\ IsLockup(locks, lastLockId)
  BY <1>1, DoingIs, MessageFields, TotalTypes, QueueType
<1>3. m.id = storage.lockId /\ Staked(locks, storage.lockId, n)
  BY DEF LocksInv, LocksNow, AtBeginUnlocking, Unlocks, Resting
<1>4. n \in Nat /\ n # 0 /\ m.amount \in 1..n
  BY <1>2
<1> HIDE DEF n, m
<1>5. /\ m.id \in DOMAIN locks /\ locks[m.id].amount = n
      /\ locks[m.id].endTime = NotUnlocking
  BY <1>2, <1>3, <1>4, StakedIs
<1> QED
  BY <1>4, <1>5 DEF CanBeginUnlocking, IsUnlocking, m

(* The messages that depend on nothing but the vault's own bookkeeping     *)
(* succeed: the claim id is unused, the shares to burn lie on the vault's  *)
(* account, the stored lock holds what is unlocked from it, and the        *)
(* deposit is part of the total (execute_callback_save_claim,              *)
(* burn_vault_tokens_for_base_tokens, execute_callback_unlock,             *)
(* execute_callback_mint_vault_token).                                     *)
THEOREM BookkeepingHolds == Spec => []BookkeepingNeverFails
<1>1. LocksInv /\ TotalInv => BookkeepingNeverFails
  <2> SUFFICES ASSUME LocksInv, TotalInv, ~Idle PROVE BookkeepingNeverFails
    BY DEF BookkeepingNeverFails
  <2>1. TypeOK
    BY DEF LocksInv, FlowInv
  <2>2. /\ Head(queue) = queue[1] /\ queue[1] \in Message
        /\ queue[1].type # "LockTokens" => Doing = queue[1].type
    BY <2>1, DoingIs
  <2>3. ASSUME Doing = "SaveClaim" PROVE CanSaveClaim
    BY <2>3 DEF LocksInv, LocksNow, AtSaveClaim, Named, CanSaveClaim
  <2>4. ASSUME Doing = "Burn" PROVE CanBurn
    <3>1. queue[1].amount \in 1..bank.shares[Vault]
      BY <2>4 DEF TotalInv, SharesInv
    <3>2. bank.shares[Vault] <= bank.supply /\ bank.shares[Vault] \in Nat /\ bank.supply \in Nat
      BY <2>1, SharesCovered, TotalTypes DEF TotalInv
    <3>3. queue[1].amount <= bank.supply
      BY <3>1, <3>2
    <3> QED
      BY <2>2, <3>1, <3>3 DEF CanBurn
  <2>5. ASSUME Doing = "MintVaultToken" PROVE queue[1].amount <= storage.totalStaked
    <3>1. LastOf(queue) = queue[1] /\ OrderInv /\ queue[1].type = "MintVaultToken"
      BY <2>1, <2>5, LastIsAlone, DoingIs DEF LocksInv, FlowInv, LastKinds
    <3>2. Deposited = queue[1].amount /\ Deposited \in Nat
      BY <2>1, <3>1, DepositedType DEF Deposited, Ends
    <3>3. WhenAfter /\ storage.totalStaked \in Nat /\ saved.storage.totalStaked \in Nat
      BY <2>1, <2>5, TotalTypes DEF TotalInv, TotalNow, AfterStake
    <3> QED
      BY <3>2, <3>3 DEF WhenAfter
  <2> QED
    BY <2>2, <2>3, <2>4, <2>5, UnlockSucceeds, BeginUnlockingSucceeds
    DEF BookkeepingNeverFails
<1> QED
  BY <1>1, TotalInvariant, PTL

----------------------------------------------------------------------------
(* The vault implements the ledger.                                        *)
LEMMA LedgerOperators ==
  /\ \A a, b, c : Ledger!CalculateVaultTokens(a, b, c) = CalculateVaultTokens(a, b, c)
  /\ \A a, b, c : Ledger!CalculateBaseTokens(a, b, c) = CalculateBaseTokens(a, b, c)
  /\ \A n : Ledger!Fits(n) <=> Fits(n)
  BY DEF Ledger!CalculateVaultTokens, Ledger!CalculateBaseTokens, Ledger!MultiplyRatio,
         Ledger!Fits, CalculateVaultTokens, CalculateBaseTokens, MultiplyRatio, Fits

LedgerStutters == CommittedStake' = CommittedStake /\ CommittedSupply' = CommittedSupply

LEMMA MiddleStutters ==
  ASSUME ~Idle, ~Idle', saved' = saved
  PROVE  LedgerStutters
  BY DEF LedgerStutters, CommittedStake, CommittedSupply

LEMMA BeginStutters ==
  ASSUME Idle, ~Idle', saved' = Snapshot
  PROVE  LedgerStutters
  BY DEF LedgerStutters, CommittedStake, CommittedSupply, Snapshot

LEMMA RevertStutters ==
  ASSUME ~Idle, Revert
  PROVE  LedgerStutters
  BY RevertFlow DEF LedgerStutters, CommittedStake, CommittedSupply, Revert

(* What the last messages commit.                                          *)
LEMMA Commits ==
  ASSUME ~Idle, Idle', storage'.totalStaked = storage.totalStaked
  PROVE  /\ CommittedStake = saved.storage.totalStaked
         /\ CommittedSupply = saved.bank.supply
         /\ CommittedStake' = storage.totalStaked
         /\ CommittedSupply' = bank'.supply
  BY DEF CommittedStake, CommittedSupply

LEMMA MintIsDeposit ==
  ASSUME TypeOK, OrderInv, PlanInv, TotalInv, HandleMint
  PROVE  Ledger!Next
<1>1. /\ ~Idle /\ Idle' /\ Doing = "Mint" /\ storage' = storage
      /\ queue[1].amount \in Nat /\ queue[1].amount > 0
      /\ Fits(bank.supply + queue[1].amount)
      /\ bank'.supply = bank.supply + queue[1].amount
  BY MintIs
<1>2. PICK shares : shares = queue[1].amount
  OBVIOUS
<1>3. PICK total : total = storage.totalStaked
  OBVIOUS
<1>4. PICK before : before = saved.storage.totalStaked
  OBVIOUS
<1>5. WhenMint
  BY <1>1 DEF TotalInv, TotalNow
<1>6. PICK amount \in 1..total :
        before + amount <= total
        /\ shares = CalculateVaultTokens(amount, total - amount, bank.supply)
  BY <1>2, <1>3, <1>4, <1>5 DEF WhenMint, IsDeposited
<1>7. /\ total \in Nat /\ before \in Nat /\ MaxUint128 \in Nat /\ total <= MaxUint128
      /\ bank.supply = saved.bank.supply
  BY <1>1, <1>3, <1>4, <1>5, TotalTypes DEF WhenMint, Fits
<1>8. PICK yield : yield = total - amount - before
  OBVIOUS
<1>9. /\ amount \in 1..MaxUint128 /\ yield \in 0..MaxUint128
      /\ before + yield = total - amount /\ before + yield + amount = total
  BY <1>6, <1>7, <1>8
<1>10. /\ CommittedStake = before /\ CommittedSupply = bank.supply
       /\ CommittedStake' = total /\ CommittedSupply' = bank.supply + shares
  BY <1>1, <1>2, <1>3, <1>4, <1>7, Commits
<1>11. shares = Ledger!CalculateVaultTokens(amount, before + yield, bank.supply)
  BY <1>6, <1>9, LedgerOperators
<1>12. Ledger!Fits(total) /\ Ledger!Fits(bank.supply + shares) /\ shares > 0
  BY <1>1, <1>2, <1>7, LedgerOperators DEF Fits
<1>13. Ledger!Deposit(amount, yield)
  BY <1>9, <1>10, <1>11, <1>12 DEF Ledger!Deposit
<1> QED
  BY <1>9, <1>13 DEF Ledger!Next

(* The end of a redemption, whichever message comes last.                  *)
LEMMA EndIsRedeem ==
  ASSUME TypeOK, ~Idle, Idle', IsRedeemed, Redeemed \in Nat, Redeemed > 0,
         storage'.totalStaked = storage.totalStaked, bank'.supply = bank.supply
  PROVE  Ledger!Next
<1>1. PICK vaultTokens \in 1..saved.bank.supply :
         /\ \E yield \in Nat : TakenFor(vaultTokens, yield)
         /\ bank.supply = saved.bank.supply - vaultTokens
  BY DEF IsRedeemed
<1>2. PICK yield \in Nat : TakenFor(vaultTokens, yield)
  BY <1>1
<1>3. /\ CommittedStake = saved.storage.totalStaked
      /\ CommittedSupply = saved.bank.supply
      /\ CommittedStake' = storage.totalStaked
      /\ CommittedSupply' = bank.supply
  BY Commits
<1>4. /\ yield \in 0..MaxUint128 /\ Ledger!Fits(CommittedStake + yield)
      /\ Redeemed = Ledger!CalculateBaseTokens(vaultTokens, CommittedStake + yield,
                                               CommittedSupply)
      /\ CommittedStake' = (CommittedStake + yield) - Redeemed
      /\ CommittedSupply' = CommittedSupply - vaultTokens
  BY <1>1, <1>2, <1>3, LedgerOperators DEF TakenFor
<1>5. Ledger!Redeem(vaultTokens, yield)
  BY <1>1, <1>3, <1>4 DEF Ledger!Redeem
<1> QED
  BY <1>1, <1>3, <1>4, <1>5 DEF Ledger!Next

LEMMA SaveClaimIsRedeem ==
  ASSUME TypeOK, OrderInv, PlanInv, TotalInv, CallbackSaveClaim
  PROVE  Ledger!Next
<1>1. ~Idle /\ Idle' /\ Doing = "SaveClaim"
  BY SaveClaimTotal
<1>2. Redeemed > 0 /\ IsRedeemed
  BY <1>1 DEF TotalInv, TotalNow, AfterBurn
<1>3. pendingClaim # NoClaim /\ UNCHANGED <<storage, bank>>
  BY DEF CallbackSaveClaim, CommitPendingClaim
<1> QED
  BY <1>1, <1>2, <1>3, RedeemedType, EndIsRedeem

LEMMA SendCommits ==
  ASSUME TypeOK, OrderInv, PlanInv, TotalInv, HandleSend
  PROVE  Ledger!Next \/ LedgerStutters
<1>1. /\ ~Idle /\ Idle' /\ Doing = "Send" /\ storage' = storage
      /\ Redeemed > 0 /\ Redeemed \in Nat
      /\ bank'.supply = bank.supply
  BY SendIs
<1>2. CASE Untouched
  BY <1>1, <1>2, Commits DEF Untouched, LedgerStutters
<1>3. CASE IsRedeemed
  BY <1>1, <1>3, EndIsRedeem
<1> QED
  BY <1>1, <1>2, <1>3 DEF TotalInv, TotalNow

LEMMA SelfCommits ==
  ASSUME TypeOK, OrderInv, TotalInv, HandleSendToSelf
  PROVE  Ledger!Next \/ LedgerStutters
<1>1. /\ ~Idle /\ Idle' /\ Doing = "Send" /\ storage' = storage
      /\ Redeemed > 0 /\ Redeemed \in Nat
      /\ bank'.supply = bank.supply
  BY SelfIs
<1>2. CASE Untouched
  BY <1>1, <1>2, Commits DEF Untouched, LedgerStutters
<1>3. CASE IsRedeemed
  BY <1>1, <1>3, EndIsRedeem
<1> QED
  BY <1>1, <1>2, <1>3 DEF TotalInv, TotalNow

LEMMA MessageImplementsLedger ==
  ASSUME TypeOK, OrderInv, PlanInv, TotalInv, HandleMessage \/ ExternalFailure
  PROVE  Ledger!Next \/ LedgerStutters
<1>1. CASE FailedMessage \/ ExternalFailure
  BY <1>1, RevertStutters DEF FailedMessage, ExternalFailure, Handles
<1>2. CASE \/ CallbackSellRewards \/ CallbackProvideLiquidity \/ CallbackStake
           \/ CallbackMintVaultToken \/ CallbackUnlock \/ HandleLockTokens
  BY <1>2, SaleFlow, ProvideFlow, StakeFlow, MintFlow, UnlockFlow, LockIs, MiddleStutters
<1>3. CASE \/ HandlePayTreasury \/ HandleSwap \/ HandleJoinPool \/ HandleBurn
           \/ HandleBeginUnlocking \/ HandleForceUnlock
  <2>1. /\ ~Idle /\ Continue(<<>>) /\ UNCHANGED storage
        /\ Head(queue).type \in {"PayTreasury", "Swap", "JoinPool", "Burn", "BeginUnlocking",
                                 "ForceUnlock"}
    BY <1>3 DEF HandlePayTreasury, HandleSwap, HandleJoinPool, HandleBurn,
                HandleBeginUnlocking, HandleForceUnlock, Handles
  <2>2. Doing \notin LastKinds
    BY <2>1, DoingIs DEF LastKinds
  <2>3. ~Idle' /\ saved' = saved
    BY <2>1, <2>2, DoneFlow
  <2> QED
    BY <2>1, <2>3, MiddleStutters
<1> QED
  BY <1>1, <1>2, <1>3, MintIsDeposit, SaveClaimIsRedeem, SendCommits, SelfCommits
  DEF HandleMessage

LEMMA UserTxStutters ==
  ASSUME TypeOK, UserTx
  PROVE  LedgerStutters
<1>0. /\ \A user \in Users : {user} \cup Recipients \subseteq Accounts
      /\ \A user \in Users : 1..bank.base[user] \subseteq Nat /\ 1..bank.shares[user] \subseteq Nat
      /\ \A id \in DOMAIN claims : 0..claims[id].amount \subseteq Nat
  BY ConstantTypes
<1>1. Idle /\ ~Idle' /\ saved' = Snapshot
  BY <1>0, DepositFlow, UnlockBeginFlow, WithdrawFlow, ForceRedeemFlow, ForceWithdrawFlow
  DEF UserTx
<1> QED
  BY <1>1, BeginStutters

LEMMA EnvironmentStutters ==
  ASSUME TypeOK, Environment
  PROVE  LedgerStutters
  BY EnvironmentIs DEF LedgerStutters, CommittedStake, CommittedSupply

(* Every transaction, from its first message to the last, is one step of   *)
(* the ledger or none: it changes the total and the supply together, at    *)
(* the compounded price, or not at all (execute_deposit, execute_unlock,   *)
(* execute_force_redeem and their callbacks).                              *)
THEOREM VaultImplementsLedger == Spec => ImplementsLedger
<1>1. Init => Ledger!Init
  BY DEF Init, Ledger!Init, CommittedStake, CommittedSupply, Idle
<1>2. LocksInv /\ TotalInv /\ [Next]_vars => [Ledger!Next]_(Ledger!ledgerVars)
  <2> SUFFICES ASSUME LocksInv, TotalInv, [Next]_vars
               PROVE  Ledger!Next \/ LedgerStutters
    BY DEF LedgerStutters, Ledger!ledgerVars
  <2>1. CASE UNCHANGED vars
    BY <2>1 DEF vars, LedgerStutters, CommittedStake, CommittedSupply, Idle
  <2>2. TypeOK /\ OrderInv /\ PlanInv
    BY DEF LocksInv, FlowInv
  <2> QED
    BY <2>1, <2>2, MessageImplementsLedger, UserTxStutters, EnvironmentStutters DEF Next
<1> QED
  BY <1>1, <1>2, TotalInvariant, PTL DEF Spec, ImplementsLedger, Ledger!Spec

(* What is proved of the ledger holds for the vault.                       *)
Promises == INSTANCE VaultLedger_proofs WITH totalStaked <- CommittedStake,
                                             supply <- CommittedSupply

LEMMA LedgerKeepsPrice == Ledger!Spec => Ledger!PriceNeverFalls
<1>1. Promises!Spec => Promises!PriceNeverFalls
  BY VaultMathAssumption, Promises!SharePriceNeverFalls, PTL
<1>2. Ledger!Spec => Promises!Spec
  <2>1. Ledger!Init => Promises!Init
    BY DEF Ledger!Init, Promises!Init
  <2>2. [Ledger!Next]_(Ledger!ledgerVars) => [Promises!Next]_(Promises!ledgerVars)
    BY DEF Ledger!Next, Ledger!Deposit, Ledger!Redeem, Ledger!ledgerVars,
           Ledger!CalculateVaultTokens, Ledger!CalculateBaseTokens, Ledger!MultiplyRatio,
           Ledger!Fits,
           Promises!Next, Promises!Deposit, Promises!Redeem, Promises!ledgerVars,
           Promises!CalculateVaultTokens, Promises!CalculateBaseTokens,
           Promises!MultiplyRatio, Promises!Fits
  <2> QED
    BY <2>1, <2>2, PTL DEF Ledger!Spec, Promises!Spec
<1> QED
  BY <1>1, <1>2, PTL
  DEF Promises!PriceNeverFalls, Ledger!PriceNeverFalls, Promises!ledgerVars, Ledger!ledgerVars

(* No transaction of the vault, from the state before its first message to *)
(* the state after its last, lowers what a share is worth: neither the     *)
(* rounding of a deposit or a redemption, nor the fee on what is           *)
(* compounded, nor a failure half way (calculate_vault_tokens,             *)
(* calculate_base_tokens, compound).                                       *)
THEOREM VaultKeepsPrice == Spec => Ledger!PriceNeverFalls
  BY VaultImplementsLedger, LedgerKeepsPrice, PTL DEF ImplementsLedger

----------------------------------------------------------------------------
(* Who owns the base tokens: the inductive invariant.                      *)

(* A lock counts at t if it is a dummy lock or ends after t; before the    *)
(* beginning of time, every lock and every claim counts.                   *)
Ever == NotUnlocking - 1

Counts(lock, t) == lock.duration # VaultDuration \/ lock.endTime > t
Bound(ls, t) ==
  SumOver([id \in DOMAIN ls |-> IF Counts(ls[id], t) THEN ls[id].amount ELSE 0],
          DOMAIN ls)

Rest(claim, t) == IF claim.releaseAt > t THEN claim.amount ELSE 0
Owed(cs, t) == SumOver([id \in DOMAIN cs |-> Rest(cs[id], t)], DOMAIN cs)

(* Between transactions: what there is, is given to the vault or owed; and *)
(* what is bound beyond t is owed beyond t, or is in a dummy lock.         *)
Balanced(s) ==
  s.bank.base[Vault] + Bound(s.locks, Ever)
    = donated + Owed(s.claims, Ever) + s.storage.totalStaked

Covered(s) ==
  \A t \in Nat : t >= now =>
    Bound(s.locks, t) <= s.storage.durationCounter + Owed(s.claims, t)

(* What is deposited or comes from rewards is not counted before it is     *)
(* staked; and what is being redeemed is neither staked nor owed.          *)
Held == IF Doing \in BeforeStake THEN saved.bank.base[Vault] ELSE bank.base[Vault]
InFlight == IF Ends("Send") \/ pendingClaim # NoClaim THEN Redeemed ELSE 0

BalanceNow ==
  Held + Bound(locks, Ever)
    = donated + Owed(claims, Ever) + storage.totalStaked + InFlight

(* The dummy lock that is counted and not made yet, and the part of a      *)
(* claim that is unlocked and not saved yet, or taken and still locked.    *)
Undone == IF Ends("SaveClaim") /\ Doing # "SaveClaim" THEN 1 ELSE 0
Promised(t) ==
  IF Doing \in {"LockDummy", "SaveClaim"} THEN Rest(pendingClaim, t)
  ELSE IF Doing = "ForceUnlock" /\ Counts(locks[queue[1].id], t) THEN queue[1].amount
  ELSE 0

CanGoOn == Doing = "ForceUnlock" => queue[1].id \in DOMAIN locks

CoverNow ==
  CanGoOn => \A t \in Nat : t >= now =>
    Bound(locks, t) + Undone <= storage.durationCounter + Owed(claims, t) + Promised(t)

BackedInv ==
  /\ ~Idle => Balanced(saved) /\ Covered(saved)
  /\ BalanceNow
  /\ CoverNow

----------------------------------------------------------------------------
(* Sums over the locks and over the claims.                                *)
LEMMA FiniteTables ==
  /\ \A ls, last : IsLockup(ls, last) => IsFiniteSet(DOMAIN ls)
  /\ \A cs, n : DOMAIN cs \subseteq 0..n /\ n \in Nat => IsFiniteSet(DOMAIN cs)
<1>1. \A n \in Nat : IsFiniteSet(0..n) /\ IsFiniteSet(1..n)
  BY FS_Interval
<1>2. \A S, T : IsFiniteSet(T) /\ S \subseteq T => IsFiniteSet(S)
  BY FS_Subset
<1> QED
  BY <1>1, <1>2 DEF IsLockup

LEMMA WeightType ==
  ASSUME NEW ls, NEW last, IsLockup(ls, last), NEW t, NEW id \in DOMAIN ls
  PROVE  /\ Counts(ls[id], t) \in BOOLEAN
         /\ ls[id].amount \in Nat
         /\ (IF Counts(ls[id], t) THEN ls[id].amount ELSE 0) \in Nat
  BY LockTypes DEF Counts

LEMMA BoundType ==
  ASSUME NEW ls, NEW last, IsLockup(ls, last), NEW t
  PROVE  Bound(ls, t) \in Nat
<1> DEFINE f == [id \in DOMAIN ls |-> IF Counts(ls[id], t) THEN ls[id].amount ELSE 0]
<1>1. \A id \in DOMAIN ls : f[id] \in Nat
  BY WeightType
<1>2. IsFiniteSet(DOMAIN ls)
  BY FiniteTables
<1> HIDE DEF f
<1>3. SumOver(f, DOMAIN ls) \in Nat
  BY <1>1, <1>2, SumType
<1> QED
  BY <1>3 DEF Bound, f

LEMMA BoundAdded ==
  ASSUME NEW ls, NEW last, IsLockup(ls, last), NEW new, NEW newLast, IsLockup(new, newLast),
         NEW id, id \notin DOMAIN ls, DOMAIN new = DOMAIN ls \cup {id},
         \A i \in DOMAIN ls : new[i] = ls[i], NEW t
  PROVE  /\ Bound(ls, t) \in Nat /\ Bound(new, t) \in Nat
         /\ Bound(new, t) = Bound(ls, t) + (IF Counts(new[id], t) THEN new[id].amount ELSE 0)
<1> DEFINE f == [i \in DOMAIN ls |-> IF Counts(ls[i], t) THEN ls[i].amount ELSE 0]
           g == [i \in DOMAIN new |-> IF Counts(new[i], t) THEN new[i].amount ELSE 0]
<1>1. \A i \in DOMAIN ls : f[i] \in Nat
  BY WeightType
<1>2. g[id] \in Nat /\ g[id] = IF Counts(new[id], t) THEN new[id].amount ELSE 0
  BY WeightType
<1>3. \A i \in DOMAIN ls : g[i] = f[i]
  OBVIOUS
<1>4. IsFiniteSet(DOMAIN ls)
  BY FiniteTables
<1> HIDE DEF f, g
<1>5. SumOver(g, DOMAIN ls \cup {id}) = SumOver(f, DOMAIN ls) + g[id]
  BY <1>1, <1>2, <1>3, <1>4, SumAdd
<1>6. Bound(ls, t) = SumOver(f, DOMAIN ls) /\ Bound(new, t) = SumOver(g, DOMAIN new)
  BY DEF Bound, f, g
<1> QED
  BY <1>2, <1>5, <1>6, BoundType

LEMMA BoundChanged ==
  ASSUME NEW ls, NEW last, IsLockup(ls, last), NEW new, NEW newLast, IsLockup(new, newLast),
         NEW id, Changes(ls, new, id), NEW t
  PROVE  /\ Bound(ls, t) \in Nat /\ Bound(new, t) \in Nat
         /\ Bound(new, t) + (IF Counts(ls[id], t) THEN ls[id].amount ELSE 0)
              = Bound(ls, t) + (IF Counts(new[id], t) THEN new[id].amount ELSE 0)
<1> DEFINE f == [i \in DOMAIN ls |-> IF Counts(ls[i], t) THEN ls[i].amount ELSE 0]
           g == [i \in DOMAIN new |-> IF Counts(new[i], t) THEN new[i].amount ELSE 0]
<1>1. DOMAIN new = DOMAIN ls /\ id \in DOMAIN ls /\ \A i \in DOMAIN ls \ {id} : new[i] = ls[i]
  BY DEF Changes
<1>2. \A i \in DOMAIN ls : f[i] \in Nat /\ g[i] \in Nat
  BY <1>1, WeightType
<1>3. \A i \in DOMAIN ls \ {id} : f[i] = g[i]
  BY <1>1
<1>4. /\ f[id] = IF Counts(ls[id], t) THEN ls[id].amount ELSE 0
      /\ g[id] = IF Counts(new[id], t) THEN new[id].amount ELSE 0
  BY <1>1
<1>5. IsFiniteSet(DOMAIN ls)
  BY FiniteTables
<1> HIDE DEF f, g
<1>6. SumOver(g, DOMAIN ls) = SumOver(f, DOMAIN ls) + g[id] - f[id]
  BY <1>1, <1>2, <1>3, <1>5, SumChanges
<1>7. Bound(ls, t) = SumOver(f, DOMAIN ls) /\ Bound(new, t) = SumOver(g, DOMAIN ls)
  BY <1>1 DEF Bound, f, g
<1>8. Bound(ls, t) \in Nat /\ Bound(new, t) \in Nat
  BY BoundType
<1>9. f[id] \in Nat /\ g[id] \in Nat
  BY <1>1, <1>2
<1>10. Bound(new, t) + f[id] = Bound(ls, t) + g[id]
  BY <1>6, <1>7, <1>8, <1>9
<1> QED
  BY <1>4, <1>8, <1>10

LEMMA OwedType ==
  ASSUME NEW cs, IsClaimMap(cs), IsFiniteSet(DOMAIN cs), NEW t
  PROVE  /\ Owed(cs, t) \in Nat
         /\ \A id \in DOMAIN cs : Rest(cs[id], t) \in Nat /\ cs[id].amount \in Nat
<1> DEFINE f == [id \in DOMAIN cs |-> Rest(cs[id], t)]
<1>1. \A id \in DOMAIN cs : f[id] \in Nat /\ Rest(cs[id], t) \in Nat /\ cs[id].amount \in Nat
  BY DEF IsClaimMap, Claim, Rest
<1> HIDE DEF f
<1>2. SumOver(f, DOMAIN cs) \in Nat
  BY <1>1, SumType
<1> QED
  BY <1>1, <1>2 DEF Owed, f

LEMMA OwedAdded ==
  ASSUME NEW cs, IsClaimMap(cs), IsFiniteSet(DOMAIN cs), NEW new, IsClaimMap(new),
         NEW id, id \notin DOMAIN cs, DOMAIN new = DOMAIN cs \cup {id},
         \A i \in DOMAIN cs : new[i] = cs[i], NEW t
  PROVE  /\ Owed(cs, t) \in Nat /\ Owed(new, t) \in Nat
         /\ Owed(new, t) = Owed(cs, t) + Rest(new[id], t)
<1> DEFINE f == [i \in DOMAIN cs |-> Rest(cs[i], t)]
           g == [i \in DOMAIN new |-> Rest(new[i], t)]
<1>1. IsFiniteSet(DOMAIN new)
  BY FS_AddElement
<1>2. \A i \in DOMAIN cs : f[i] \in Nat
  BY OwedType
<1>3. g[id] \in Nat /\ g[id] = Rest(new[id], t)
  BY <1>1, OwedType
<1>4. \A i \in DOMAIN cs : g[i] = f[i]
  OBVIOUS
<1> HIDE DEF f, g
<1>5. SumOver(g, DOMAIN cs \cup {id}) = SumOver(f, DOMAIN cs) + g[id]
  BY <1>2, <1>3, <1>4, SumAdd
<1>6. Owed(cs, t) = SumOver(f, DOMAIN cs) /\ Owed(new, t) = SumOver(g, DOMAIN new)
  BY DEF Owed, f, g
<1> QED
  BY <1>1, <1>3, <1>5, <1>6, OwedType

LEMMA OwedChanged ==
  ASSUME NEW cs, IsClaimMap(cs), IsFiniteSet(DOMAIN cs), NEW new, IsClaimMap(new),
         NEW id \in DOMAIN cs, DOMAIN new = DOMAIN cs,
         \A i \in DOMAIN cs \ {id} : new[i] = cs[i], NEW t
  PROVE  /\ Owed(cs, t) \in Nat /\ Owed(new, t) \in Nat
         /\ Owed(new, t) + Rest(cs[id], t) = Owed(cs, t) + Rest(new[id], t)
<1> DEFINE f == [i \in DOMAIN cs |-> Rest(cs[i], t)]
           g == [i \in DOMAIN new |-> Rest(new[i], t)]
<1>1. \A i \in DOMAIN cs : f[i] \in Nat /\ g[i] \in Nat
  BY OwedType
<1>2. \A i \in DOMAIN cs \ {id} : f[i] = g[i]
  OBVIOUS
<1>3. f[id] = Rest(cs[id], t) /\ g[id] = Rest(new[id], t) /\ f[id] \in Nat /\ g[id] \in Nat
  BY <1>1
<1>4. Owed(cs, t) = SumOver(f, DOMAIN cs) /\ Owed(new, t) = SumOver(g, DOMAIN cs)
  BY DEF Owed
<1> HIDE DEF f, g
<1>5. SumOver(g, DOMAIN cs) = SumOver(f, DOMAIN cs) + g[id] - f[id]
  BY <1>1, <1>2, SumChanges
<1>6. Owed(cs, t) \in Nat /\ Owed(new, t) \in Nat
  BY OwedType
<1>7. Owed(new, t) + f[id] = Owed(cs, t) + g[id]
  BY <1>3, <1>4, <1>5, <1>6
<1> QED
  BY <1>3, <1>6, <1>7

(* The claims are finitely many: their ids are below the last lock id.     *)
LEMMA ClaimsAreFinite ==
  ASSUME LocksInv
  PROVE  IsFiniteSet(DOMAIN claims) /\ (~Idle => IsFiniteSet(DOMAIN saved.claims))
<1>1. \A cs, ls, n : IsClaimMap(cs) /\ n \in Nat /\ ClaimsBelow(cs, ls, n)
        => DOMAIN cs \subseteq 0..n
  BY DEF IsClaimMap, ClaimsBelow
<1>2. lastLockId \in Nat /\ IsClaimMap(claims) /\ ClaimsBelow(claims, locks, lastLockId)
  BY QueueType DEF LocksInv, FlowInv, LocksNow, IsLockup
<1>3. ~Idle => /\ saved.lastLockId \in Nat /\ IsClaimMap(saved.claims)
               /\ ClaimsBelow(saved.claims, saved.locks, saved.lastLockId)
  BY QueueType DEF LocksInv, FlowInv, SavedInv, Settled, SavedTypeOK, IsLockup
<1> QED
  BY <1>1, <1>2, <1>3, FiniteTables

----------------------------------------------------------------------------
(* What the operations of the lockup module and of the claims store do to  *)
(* the sums.                                                               *)
LEMMA TablesType ==
  ASSUME TypeOK, TypeOK'
  PROVE  /\ IsLockup(locks, lastLockId) /\ IsLockup(locks', lastLockId')
         /\ IsClaimMap(claims) /\ IsClaimMap(claims')
<1>1. \A map : IsClaimMap(map)' <=> IsClaimMap(map)
  BY DEF IsClaimMap, Claim
<1> QED
  BY <1>1 DEF TypeOK, LockupTypeOK, ClaimsTypeOK, IsLockup, Lock

LEMMA BoundLocked ==
  ASSUME TypeOK, TypeOK', NEW duration \in Nat, NEW amount \in Nat, NEW id,
         LockTokens(duration, amount, id), NEW t \in Int
  PROVE  /\ Bound(locks, t) \in Nat /\ Bound(locks', t) \in Nat
         /\ Bound(locks', t) = Bound(locks, t)
              + (IF duration # VaultDuration \/ NotUnlocking > t THEN amount ELSE 0)
<1> DEFINE in == duration # VaultDuration \/ NotUnlocking > t
<1>1. CASE id \in LocksToAddTo(duration) /\ locks' = [locks EXCEPT ![id].amount = @ + amount]
  <2>1. id \in DOMAIN locks /\ locks[id].endTime = NotUnlocking /\ locks[id].duration = duration
    BY <1>1 DEF LocksToAddTo, IsUnlocking
  <2>2. locks[id] \in Lock /\ locks[id].amount \in Nat
    BY <2>1, TablesType, LockTypes
  <2>3. /\ DOMAIN locks' = DOMAIN locks
        /\ locks'[id] = [locks[id] EXCEPT !.amount = @ + amount]
        /\ \A i \in DOMAIN locks : i # id => locks'[i] = locks[i]
    BY <1>1, <2>1
  <2>4. /\ locks'[id].amount = locks[id].amount + amount
        /\ locks'[id].duration = duration /\ locks'[id].endTime = NotUnlocking
    BY <2>1, <2>2, <2>3 DEF Lock
  <2>5. Changes(locks, locks', id)
    BY <2>1, <2>3, <2>4 DEF Changes
  <2>6. /\ Bound(locks, t) \in Nat /\ Bound(locks', t) \in Nat
        /\ Bound(locks', t) + (IF Counts(locks[id], t) THEN locks[id].amount ELSE 0)
             = Bound(locks, t) + (IF Counts(locks'[id], t) THEN locks'[id].amount ELSE 0)
    BY <2>5, TablesType, BoundChanged
  <2>7. (Counts(locks[id], t) <=> in) /\ (Counts(locks'[id], t) <=> in)
    BY <2>1, <2>4 DEF Counts
  <2> QED
    BY <2>2, <2>4, <2>6, <2>7
<1>2. CASE /\ id = NewLockId
           /\ locks' = WithLock(id, [amount |-> amount, duration |-> duration,
                                     endTime |-> NotUnlocking])
  <2> DEFINE lock == [amount |-> amount, duration |-> duration, endTime |-> NotUnlocking]
  <2>1. lock \in Lock /\ LockupTypeOK /\ locks' = WithLock(NewLockId, lock)
    BY <1>2 DEF Lock, TypeOK
  <2> HIDE DEF lock
  <2>2. /\ NewLockId \notin DOMAIN locks /\ DOMAIN locks' = DOMAIN locks \cup {NewLockId}
        /\ locks'[NewLockId] = lock
        /\ \A i \in DOMAIN locks : locks'[i] = locks[i]
    BY <2>1, LockAdded
  <2>3. /\ Bound(locks, t) \in Nat /\ Bound(locks', t) \in Nat
        /\ Bound(locks', t) = Bound(locks, t)
             + (IF Counts(locks'[NewLockId], t) THEN locks'[NewLockId].amount ELSE 0)
    BY <2>2, TablesType, BoundAdded
  <2> QED
    BY <2>2, <2>3 DEF Counts, lock
<1> QED
  BY <1>1, <1>2 DEF LockTokens

LEMMA BoundGone ==
  ASSUME TypeOK, TypeOK', NEW id \in DOMAIN locks, locks' = WithoutLock(id), NEW t
  PROVE  /\ Bound(locks, t) \in Nat /\ Bound(locks', t) \in Nat
         /\ Bound(locks, t) = Bound(locks', t)
              + (IF Counts(locks[id], t) THEN locks[id].amount ELSE 0)
<1>1. /\ DOMAIN locks' = DOMAIN locks \ {id}
      /\ \A i \in DOMAIN locks' : locks[i] = locks'[i]
  BY LockGone
<1>2. id \notin DOMAIN locks' /\ DOMAIN locks = DOMAIN locks' \cup {id}
  BY <1>1
<1> DEFINE rest == locks'
<1>3. IsLockup(locks, lastLockId) /\ IsLockup(rest, lastLockId')
  BY TablesType
<1>4. id \notin DOMAIN rest /\ DOMAIN locks = DOMAIN rest \cup {id}
      /\ \A i \in DOMAIN rest : locks[i] = rest[i]
  BY <1>1, <1>2
<1> HIDE DEF rest
<1>5. /\ Bound(rest, t) \in Nat /\ Bound(locks, t) \in Nat
      /\ Bound(locks, t) = Bound(rest, t)
           + (IF Counts(locks[id], t) THEN locks[id].amount ELSE 0)
  BY <1>3, <1>4, BoundAdded
<1> QED
  BY <1>5 DEF rest

LEMMA BoundForced ==
  ASSUME TypeOK, TypeOK', NEW id, NEW amount, ForceUnlock(id, amount), NEW t
  PROVE  /\ Bound(locks, t) \in Nat /\ Bound(locks', t) \in Nat
         /\ amount \in Nat /\ id \in DOMAIN locks
         /\ Bound(locks, t) = Bound(locks', t)
              + (IF Counts(locks[id], t) THEN amount ELSE 0)
<1>1. id \in DOMAIN locks /\ locks[id] \in Lock /\ locks[id].amount \in Nat
      /\ amount \in 1..locks[id].amount
  BY TablesType, LockTypes DEF ForceUnlock, CanForceUnlock
<1>2. CASE amount < locks[id].amount /\ locks' = [locks EXCEPT ![id].amount = @ - amount]
  <2>1. /\ DOMAIN locks' = DOMAIN locks
        /\ locks'[id] = [locks[id] EXCEPT !.amount = @ - amount]
        /\ \A i \in DOMAIN locks : i # id => locks'[i] = locks[i]
    BY <1>1, <1>2
  <2>2. /\ locks'[id].amount = locks[id].amount - amount
        /\ locks'[id].duration = locks[id].duration /\ locks'[id].endTime = locks[id].endTime
    BY <1>1, <2>1 DEF Lock
  <2>3. Changes(locks, locks', id)
    BY <1>1, <2>1, <2>2 DEF Changes
  <2>4. /\ Bound(locks, t) \in Nat /\ Bound(locks', t) \in Nat
        /\ Bound(locks', t) + (IF Counts(locks[id], t) THEN locks[id].amount ELSE 0)
             = Bound(locks, t) + (IF Counts(locks'[id], t) THEN locks'[id].amount ELSE 0)
    BY <2>3, TablesType, BoundChanged
  <2>5. Counts(locks'[id], t) <=> Counts(locks[id], t)
    BY <2>2 DEF Counts
  <2> QED
    BY <1>1, <2>2, <2>4, <2>5
<1>3. CASE amount = locks[id].amount /\ locks' = WithoutLock(id)
  BY <1>1, <1>3, BoundGone
<1> QED
  BY <1>2, <1>3 DEF ForceUnlock

(* The stake, or a part of it, begins to unlock.                           *)
LEMMA BoundUnlocking ==
  ASSUME TypeOK, TypeOK', NEW id, NEW amount, NEW endTime \in Nat,
         BeginUnlocking(id, amount, endTime), locks[id].duration = VaultDuration,
         NEW t \in Int
  PROVE  /\ Bound(locks, t) \in Nat /\ Bound(locks', t) \in Nat /\ amount \in Nat
         /\ Bound(locks', t) + (IF NotUnlocking > t THEN amount ELSE 0)
              = Bound(locks, t) + (IF endTime > t THEN amount ELSE 0)
<1>1. /\ id \in DOMAIN locks /\ locks[id] \in Lock /\ locks[id].amount \in Nat
      /\ amount \in 1..locks[id].amount /\ locks[id].endTime = NotUnlocking
  BY TablesType, LockTypes DEF BeginUnlocking, CanBeginUnlocking, IsUnlocking
<1>2. Counts(locks[id], t) <=> NotUnlocking > t
  BY <1>1 DEF Counts
<1> DEFINE part == [amount |-> amount, duration |-> locks[id].duration, endTime |-> endTime]
<1>3. CASE /\ amount < locks[id].amount
           /\ locks' = [WithLock(NewLockId, part) EXCEPT ![id].amount = @ - amount]
  <2> DEFINE more == WithLock(NewLockId, part)
  <2>1. part \in Lock
    BY <1>1 DEF Lock
  <2>2. /\ NewLockId \notin DOMAIN locks /\ DOMAIN more = DOMAIN locks \cup {NewLockId}
        /\ more[NewLockId] = part
        /\ \A i \in DOMAIN locks : more[i] = locks[i]
    BY <2>1, LockAdded DEF TypeOK
  <2>3. IsLockup(more, NewLockId)
    BY <2>1, WithLockType DEF TypeOK
  <2> HIDE DEF more
  <2>4. locks' = [more EXCEPT ![id].amount = @ - amount]
    BY <1>3 DEF more
  <2>5. /\ DOMAIN locks' = DOMAIN more /\ id \in DOMAIN more /\ more[id] = locks[id]
        /\ locks'[id] = [locks[id] EXCEPT !.amount = @ - amount]
        /\ \A i \in DOMAIN more : i # id => locks'[i] = more[i]
    BY <1>1, <2>2, <2>4
  <2>6. /\ locks'[id].amount = locks[id].amount - amount
        /\ locks'[id].duration = locks[id].duration /\ locks'[id].endTime = locks[id].endTime
    BY <1>1, <2>5 DEF Lock
  <2>7. Changes(more, locks', id)
    BY <2>5, <2>6 DEF Changes
  <2>8. /\ Bound(locks, t) \in Nat /\ Bound(more, t) \in Nat
        /\ Bound(more, t) = Bound(locks, t)
             + (IF Counts(more[NewLockId], t) THEN more[NewLockId].amount ELSE 0)
    BY <2>2, <2>3, TablesType, BoundAdded
  <2>9. /\ Bound(locks', t) \in Nat
        /\ Bound(locks', t) + (IF Counts(more[id], t) THEN more[id].amount ELSE 0)
             = Bound(more, t) + (IF Counts(locks'[id], t) THEN locks'[id].amount ELSE 0)
    BY <2>3, <2>7, TablesType, BoundChanged
  <2>10. Counts(locks'[id], t) <=> NotUnlocking > t
    BY <1>1, <2>6 DEF Counts
  <2>11. more[NewLockId].amount = amount /\ (Counts(more[NewLockId], t) <=> endTime > t)
    BY <2>2 DEF Counts
  <2> QED
    BY <1>1, <1>2, <2>5, <2>6, <2>8, <2>9, <2>10, <2>11
<1>4. CASE amount = locks[id].amount /\ locks' = [locks EXCEPT ![id].endTime = endTime]
  <2>1. /\ DOMAIN locks' = DOMAIN locks
        /\ locks'[id] = [locks[id] EXCEPT !.endTime = endTime]
        /\ \A i \in DOMAIN locks : i # id => locks'[i] = locks[i]
    BY <1>1, <1>4
  <2>2. /\ locks'[id].amount = amount
        /\ locks'[id].duration = locks[id].duration /\ locks'[id].endTime = endTime
    BY <1>1, <1>4, <2>1 DEF Lock
  <2>3. Changes(locks, locks', id)
    BY <1>1, <2>1, <2>2 DEF Changes
  <2>4. /\ Bound(locks, t) \in Nat /\ Bound(locks', t) \in Nat
        /\ Bound(locks', t) + (IF Counts(locks[id], t) THEN locks[id].amount ELSE 0)
             = Bound(locks, t) + (IF Counts(locks'[id], t) THEN locks'[id].amount ELSE 0)
    BY <2>3, TablesType, BoundChanged
  <2>5. Counts(locks'[id], t) <=> endTime > t
    BY <2>2 DEF Counts
  <2> QED
    BY <1>1, <1>2, <1>4, <2>2, <2>4, <2>5
<1> QED
  BY <1>3, <1>4 DEF BeginUnlocking

LEMMA OwedSaved ==
  ASSUME LocksInv, TypeOK', CommitPendingClaim, NEW t
  PROVE  /\ Owed(claims, t) \in Nat /\ Owed(claims', t) \in Nat
         /\ Owed(claims', t) = Owed(claims, t) + Rest(pendingClaim, t)
<1>1. IsClaimMap(claims) /\ IsClaimMap(claims') /\ IsFiniteSet(DOMAIN claims)
  BY TablesType, ClaimsAreFinite DEF LocksInv, FlowInv
<1> DEFINE id == pendingClaim.id
           new == claims'
<1>2. /\ id \notin DOMAIN claims /\ DOMAIN new = DOMAIN claims \cup {id}
      /\ new[id] = pendingClaim
      /\ \A i \in DOMAIN claims : new[i] = claims[i]
  BY DEF CommitPendingClaim
<1> HIDE DEF id, new
<1>3. IsClaimMap(new)
  BY <1>1 DEF new
<1>4. /\ Owed(claims, t) \in Nat /\ Owed(new, t) \in Nat
      /\ Owed(new, t) = Owed(claims, t) + Rest(new[id], t)
  BY <1>1, <1>2, <1>3, OwedAdded
<1> QED
  BY <1>2, <1>4 DEF new

LEMMA OwedTaken ==
  ASSUME LocksInv, TypeOK', NEW id \in DOMAIN claims,
         claims' = Restrict(claims, DOMAIN claims \ {id}), NEW t
  PROVE  /\ Owed(claims, t) \in Nat /\ Owed(claims', t) \in Nat
         /\ Owed(claims, t) = Owed(claims', t) + Rest(claims[id], t)
<1>1. IsClaimMap(claims) /\ IsClaimMap(claims') /\ IsFiniteSet(DOMAIN claims)
  BY TablesType, ClaimsAreFinite DEF LocksInv, FlowInv
<1> DEFINE rest == claims'
<1>2. DOMAIN rest = DOMAIN claims \ {id} /\ \A i \in DOMAIN rest : claims[i] = rest[i]
  BY DEF Restrict
<1>3. IsFiniteSet(DOMAIN rest)
  BY <1>1, <1>2, FS_Subset
<1>4. IsClaimMap(rest) /\ IsClaimMap(claims)
  BY <1>1
<1> HIDE DEF rest
<1>5. /\ id \notin DOMAIN rest /\ DOMAIN claims = DOMAIN rest \cup {id}
      /\ \A i \in DOMAIN rest : claims[i] = rest[i]
  BY <1>2
<1>6. /\ Owed(rest, t) \in Nat /\ Owed(claims, t) \in Nat
      /\ Owed(claims, t) = Owed(rest, t) + Rest(claims[id], t)
  BY <1>3, <1>4, <1>5, OwedAdded
<1> QED
  BY <1>6 DEF rest

LEMMA OwedForced ==
  ASSUME LocksInv, TypeOK', NEW sender, NEW id, NEW amount \in Nat,
         ForceClaim(sender, id, amount), NEW t
  PROVE  /\ Owed(claims, t) \in Nat /\ Owed(claims', t) \in Nat
         /\ Owed(claims, t) = Owed(claims', t)
              + (IF claims[id].releaseAt > t THEN amount ELSE 0)
<1>1. IsClaimMap(claims) /\ IsClaimMap(claims') /\ IsFiniteSet(DOMAIN claims)
  BY TablesType, ClaimsAreFinite DEF LocksInv, FlowInv
<1>2. id \in DOMAIN claims /\ claims[id] \in Claim /\ claims[id].amount \in Nat
      /\ amount <= claims[id].amount
  BY <1>1 DEF ForceClaim, IsClaimMap, Claim
<1>3. CASE amount < claims[id].amount
  <2>1. claims' = [claims EXCEPT ![id].amount = @ - amount]
    BY <1>3 DEF ForceClaim
  <2> DEFINE new == claims'
  <2>2. /\ DOMAIN new = DOMAIN claims
        /\ new[id] = [claims[id] EXCEPT !.amount = @ - amount]
        /\ \A i \in DOMAIN claims \ {id} : new[i] = claims[i]
    BY <1>2, <2>1
  <2>3. new[id].amount = claims[id].amount - amount /\ new[id].releaseAt = claims[id].releaseAt
    BY <1>2, <2>2 DEF Claim
  <2>4. IsClaimMap(new)
    BY <1>1
  <2> HIDE DEF new
  <2>5. /\ Owed(claims, t) \in Nat /\ Owed(new, t) \in Nat
        /\ Owed(new, t) + Rest(claims[id], t) = Owed(claims, t) + Rest(new[id], t)
    BY <1>1, <1>2, <2>2, <2>4, OwedChanged
  <2>6. /\ Owed(claims, t) \in Nat /\ Owed(new, t) \in Nat
        /\ Owed(claims, t) = Owed(new, t)
              + (IF claims[id].releaseAt > t THEN amount ELSE 0)
    BY <1>2, <2>3, <2>5 DEF Rest
  <2> QED
    BY <2>6 DEF new
<1>4. CASE ~(amount < claims[id].amount)
  <2>1. claims' = Restrict(claims, DOMAIN claims \ {id}) /\ amount = claims[id].amount
    BY <1>2, <1>4 DEF ForceClaim
  <2> QED
    BY <1>2, <2>1, OwedTaken DEF Rest
<1> QED
  BY <1>3, <1>4

LEMMA SumsAtNext ==
  /\ \A t : Bound(locks, t)' = Bound(locks', t) /\ Owed(claims, t)' = Owed(claims', t)
  /\ \A t : /\ Bound(saved.locks, t)' = Bound(saved'.locks, t)
            /\ Owed(saved.claims, t)' = Owed(saved'.claims, t)
  BY DEF Bound, Owed, Counts, Rest, SumOver, MapThenSumSet, MapThenFoldSet

(* The types of the terms of the invariant.                                *)
LEMMA BackedTypes ==
  LocksInv =>
    /\ Held \in Nat /\ InFlight \in Nat /\ Undone \in {0, 1}
    /\ storage.totalStaked \in Nat /\ storage.durationCounter \in Nat
    /\ donated \in Nat /\ now \in Nat
    /\ \A t : Bound(locks, t) \in Nat /\ Owed(claims, t) \in Nat
    /\ CanGoOn => \A t : Promised(t) \in Nat
<1> SUFFICES ASSUME LocksInv PROVE BackedTypes!2
  OBVIOUS
<1>1. TypeOK /\ OrderInv
  BY DEF LocksInv, FlowInv
<1>2. storage.totalStaked \in Nat /\ storage.durationCounter \in Nat
      /\ donated \in Nat /\ now \in Nat
  BY <1>1, QueueType DEF StorageType
<1>3. Held \in Nat
  <2>1. ~Idle => saved.bank.base[Vault] \in Nat
    BY <1>1, TotalTypes
  <2>2. Doing \in BeforeStake => ~Idle
    BY DEF Doing, BeforeStake
  <2> QED
    BY <1>1, <2>1, <2>2, TotalTypes DEF Held
<1>4. InFlight \in Nat
  BY <1>1, RedeemedType DEF InFlight
<1>5. \A t : Bound(locks, t) \in Nat /\ Owed(claims, t) \in Nat
  <2>1. IsLockup(locks, lastLockId) /\ IsClaimMap(claims)
    BY <1>1, QueueType
  <2> QED
    BY <2>1, ClaimsAreFinite, BoundType, OwedType
<1>6. ASSUME CanGoOn, NEW t
      PROVE  Promised(t) \in Nat
  <2>1. CASE Doing \in {"LockDummy", "SaveClaim"}
    <3>1. pendingClaim \in Claim
      BY <1>1, <2>1, QueueType DEF LocksInv, LocksNow, AtLockDummy, AtSaveClaim
    <3> QED
      BY <2>1, <3>1 DEF Promised, Rest, Claim
  <2>2. CASE Doing = "ForceUnlock"
    <3>1. queue[1] \in Message /\ queue[1].type = "ForceUnlock"
      BY <1>1, <2>2, DoingIs DEF Doing
    <3>2. queue[1].amount \in Nat
      BY <3>1, MessageFields
    <3> QED
      BY <2>2, <3>2 DEF Promised
  <2> QED
    BY <2>1, <2>2 DEF Promised
<1> QED
  BY <1>2, <1>3, <1>4, <1>5, <1>6 DEF Undone

----------------------------------------------------------------------------
(* The invariant, step by step: what stays.                                *)
LEMMA SavedBacked ==
  ASSUME BackedInv, ~Idle, Idle' \/ saved' = saved, UNCHANGED <<donated, now>>
  PROVE  ~Idle' => (Balanced(saved) /\ Covered(saved))'
  BY SumsAtNext DEF BackedInv, Balanced, Covered

LEMMA TermsAtRest ==
  LocksInv /\ Idle =>
    /\ Held = bank.base[Vault] /\ InFlight = 0 /\ Undone = 0
    /\ CanGoOn /\ \A t : Promised(t) = 0
<1> SUFFICES ASSUME LocksInv, Idle PROVE TermsAtRest!2
  OBVIOUS
<1>1. /\ Doing = "None" /\ pendingClaim = NoClaim
  BY AtRest DEF AtCalm
<1> QED
  BY <1>1 DEF Held, BeforeStake, InFlight, Ends, Undone, CanGoOn, Promised

LEMMA AtRestBacked ==
  ASSUME LocksInv, BackedInv, Idle
  PROVE  Balanced(Snapshot) /\ Covered(Snapshot)
<1>1. /\ Snapshot.bank = bank /\ Snapshot.locks = locks /\ Snapshot.claims = claims
      /\ Snapshot.storage = storage
  BY DEF Snapshot
<1>2. Balanced(Snapshot)
  BY <1>1, TermsAtRest, BackedTypes DEF BackedInv, BalanceNow, Balanced
<1>3. Covered(Snapshot)
  BY <1>1, TermsAtRest, BackedTypes DEF BackedInv, CoverNow, Covered
<1> QED
  BY <1>2, <1>3

LEMMA BegunBacked ==
  ASSUME LocksInv, BackedInv, Idle, saved' = Snapshot, UNCHANGED <<donated, now>>
  PROVE  (Balanced(saved) /\ Covered(saved))'
<1>1. /\ saved'.bank = bank /\ saved'.locks = locks /\ saved'.claims = claims
      /\ saved'.storage = storage
  BY DEF Snapshot
<1>2. /\ Snapshot.bank = bank /\ Snapshot.locks = locks /\ Snapshot.claims = claims
      /\ Snapshot.storage = storage
  BY DEF Snapshot
<1> QED
  BY <1>1, <1>2, AtRestBacked, SumsAtNext DEF Balanced, Covered

LEMMA InFlightKept ==
  ASSUME ~Idle, ~Idle', LastOf(queue') = LastOf(queue)
  PROVE  /\ Ends("SaveClaim")' <=> Ends("SaveClaim")
         /\ Ends("Send")' <=> Ends("Send")
         /\ pendingClaim' = pendingClaim => InFlight' = InFlight
  BY DEF Ends, LastOf, InFlight, Redeemed

(* The locks and the claims stay, and so does the balance of what is held, *)
(* staked and being redeemed.                                              *)
LEMMA SameTables ==
  ASSUME LocksInv, LocksInv', BackedInv, ~Idle, Idle' \/ saved' = saved,
         UNCHANGED <<locks, claims, donated, now>>,
         storage'.durationCounter = storage.durationCounter,
         Held' + (storage.totalStaked + InFlight) = Held + (storage'.totalStaked + InFlight'),
         Undone' <= Undone, Doing \notin {"LockDummy", "SaveClaim", "ForceUnlock"}
  PROVE  BackedInv'
<1>1. (~Idle => Balanced(saved) /\ Covered(saved))'
  BY SavedBacked
<1>2. /\ Held' \in Nat /\ InFlight' \in Nat /\ storage'.totalStaked \in Nat /\ Undone' \in {0, 1}
      /\ (CanGoOn => \A t : Promised(t) \in Nat)'
  <2>1. (/\ Held \in Nat /\ InFlight \in Nat /\ storage.totalStaked \in Nat /\ Undone \in {0, 1}
         /\ CanGoOn => \A t : Promised(t) \in Nat)'
    BY BackedTypes, PTL
  <2> QED
    BY <2>1
<1>3. BalanceNow'
  BY <1>2, BackedTypes, SumsAtNext DEF BackedInv, BalanceNow
<1>4. CoverNow'
  <2>1. CanGoOn /\ \A t : Promised(t) = 0
    BY DEF CanGoOn, Promised
  <2>2. ASSUME CanGoOn', NEW t \in Nat, t >= now
        PROVE  Bound(locks', t) + Undone'
                 <= storage'.durationCounter + Owed(claims', t) + Promised(t)'
    <3>1. Bound(locks, t) + Undone <= storage.durationCounter + Owed(claims, t) + 0
      BY <2>1, <2>2 DEF BackedInv, CoverNow
    <3>2. Promised(t)' \in Nat
      BY <1>2, <2>2
    <3>3. /\ Bound(locks, t) \in Nat /\ Owed(claims, t) \in Nat /\ Undone \in {0, 1}
          /\ storage.durationCounter \in Nat
      BY BackedTypes
    <3> QED
      BY <1>2, <3>1, <3>2, <3>3
  <2> QED
    BY <2>2, SumsAtNext DEF CoverNow
<1> QED
  BY <1>1, <1>3, <1>4 DEF BackedInv

(* Rewards are sold and pooled.                                            *)
LEMMA BeforeBacked ==
  ASSUME LocksInv, LocksInv', BackedInv, ~Idle, ~Idle', saved' = saved,
         LastOf(queue') = LastOf(queue), Doing \in BeforeStake, Doing' \in BeforeStake,
         UNCHANGED <<storage, locks, claims, pendingClaim, donated, now>>
  PROVE  BackedInv'
<1>1. InFlight' = InFlight /\ (Ends("SaveClaim")' <=> Ends("SaveClaim"))
  BY InFlightKept
<1>2. Held' = Held
  BY DEF Held
<1>3. Doing \notin {"LockDummy", "SaveClaim", "ForceUnlock"} /\ Doing' # "SaveClaim"
  BY KindsApart
<1>4. Undone' <= Undone
  BY <1>1, <1>3 DEF Undone
<1> QED
  BY <1>1, <1>2, <1>3, <1>4, SameTables

LEMMA RewardsBacked ==
  ASSUME LocksInv, LocksInv', BackedInv,
         \/ CallbackSellRewards \/ CallbackProvideLiquidity
         \/ HandlePayTreasury \/ HandleSwap \/ HandleJoinPool
  PROVE  BackedInv'
<1>0. TypeOK /\ OrderInv /\ PlanInv
  BY DEF LocksInv, FlowInv
<1>1. UNCHANGED <<storage, locks, claims, pendingClaim>>
  BY DEF CallbackSellRewards, CallbackProvideLiquidity, HandlePayTreasury, HandleSwap,
         HandleJoinPool, lockupVars, claimsVars
<1>2. CASE CallbackSellRewards
  <2>1. /\ ~Idle /\ ~Idle' /\ saved' = saved /\ LastOf(queue') = LastOf(queue)
        /\ UNCHANGED <<donated, now>>
        /\ Doing = "SellRewards" /\ Doing' \in {"PayTreasury", "Swap", "ProvideLiquidity"}
    BY <1>0, <1>2, SaleFlow
  <2>2. Doing \in BeforeStake /\ Doing' \in BeforeStake
    BY <2>1 DEF BeforeStake
  <2> QED
    BY <1>1, <2>1, <2>2, BeforeBacked
<1>3. CASE CallbackProvideLiquidity
  <2>1. /\ ~Idle /\ ~Idle' /\ saved' = saved /\ LastOf(queue') = LastOf(queue)
        /\ UNCHANGED <<donated, now>>
        /\ Doing = "ProvideLiquidity" /\ Doing' \in {"JoinPool", "Stake"}
    BY <1>0, <1>3, ProvideFlow
  <2>2. Doing \in BeforeStake /\ Doing' \in BeforeStake
    BY <2>1 DEF BeforeStake
  <2> QED
    BY <1>1, <2>1, <2>2, BeforeBacked
<1>4. CASE HandlePayTreasury \/ HandleSwap \/ HandleJoinPool
  <2>1. /\ ~Idle /\ Continue(<<>>)
        /\ Head(queue).type \in {"PayTreasury", "Swap", "JoinPool"}
    BY <1>4 DEF HandlePayTreasury, HandleSwap, HandleJoinPool, Handles
  <2>2. Doing = Head(queue).type /\ Doing \notin LastKinds
    BY <1>0, <2>1, DoingIs DEF LastKinds
  <2>3. /\ ~Idle' /\ saved' = saved /\ <<Doing, Doing'>> \in Follows
        /\ LastOf(queue') = LastOf(queue) /\ UNCHANGED <<donated, now>>
    BY <1>0, <1>1, <2>1, <2>2, DoneFlow
  <2>4. Doing' \in {"Swap", "ProvideLiquidity", "Stake"}
    BY <2>1, <2>2, <2>3, FollowsIs
  <2>5. Doing \in BeforeStake /\ Doing' \in BeforeStake
    BY <2>1, <2>2, <2>4 DEF BeforeStake
  <2> QED
    BY <1>1, <2>1, <2>3, <2>5, BeforeBacked
<1> QED
  BY <1>2, <1>3, <1>4

(* Deposits and rewards are staked.                                        *)

LEMMA StakeBacked ==
  ASSUME LocksInv, LocksInv', TotalInv, BackedInv, CallbackStake
  PROVE  BackedInv'
<1>0. TypeOK /\ OrderInv /\ PlanInv
  BY DEF LocksInv, FlowInv
<1>1. /\ ~Idle /\ ~Idle' /\ saved' = saved /\ LastOf(queue') = LastOf(queue)
      /\ Doing = "Stake" /\ Doing' \in {"LockTokens", "MintVaultToken", "Unlock"}
      /\ UNCHANGED <<donated, now>>
  BY <1>0, StakeFlow
<1>2. UNCHANGED <<bank, locks, claims, pendingClaim>>
  BY DEF CallbackStake, lockupVars, claimsVars
<1>3. /\ AmountToStake \in Nat
      /\ AmountToStake = bank.base[Vault] - saved.bank.base[Vault]
      /\ storage'.totalStaked = storage.totalStaked + AmountToStake
      /\ storage'.durationCounter = storage.durationCounter
  BY <1>0, StakeIs
<1>4. Held = saved.bank.base[Vault] /\ Held' = bank.base[Vault]
  BY <1>1, <1>2 DEF Held, BeforeStake
<1>5. InFlight' = InFlight /\ (Ends("SaveClaim")' <=> Ends("SaveClaim"))
  BY <1>1, <1>2, InFlightKept
<1>6. Undone' <= Undone
  BY <1>1, <1>5 DEF Undone
<1>7. /\ saved.bank.base[Vault] \in Nat /\ bank.base[Vault] \in Nat
      /\ storage.totalStaked \in Nat /\ InFlight \in Nat
  BY <1>0, <1>1, TotalTypes, BackedTypes
<1>8. Held' + (storage.totalStaked + InFlight) = Held + (storage'.totalStaked + InFlight')
  BY <1>3, <1>4, <1>5, <1>7
<1> QED
  BY <1>1, <1>2, <1>3, <1>6, <1>8, SameTables

(* The shares are minted.                                                  *)
LEMMA NothingInFlight ==
  ASSUME LocksInv, Doing \in CalmKinds, ~Ends("Send")
  PROVE  InFlight = 0 /\ pendingClaim = NoClaim
  BY DEF LocksInv, LocksNow, AtCalm, InFlight

LEMMA CallbackMintBacked ==
  ASSUME LocksInv, LocksInv', BackedInv, CallbackMintVaultToken
  PROVE  BackedInv'
<1>0. TypeOK /\ OrderInv /\ PlanInv
  BY DEF LocksInv, FlowInv
<1>1. /\ Doing = "MintVaultToken" /\ LastOf(queue) = queue[1]
      /\ ~Idle /\ ~Idle' /\ saved' = saved /\ UNCHANGED <<donated, now>>
      /\ Doing' = "Mint" /\ LastOf(queue') = queue'[1]
  BY <1>0, MintFlow
<1>2. UNCHANGED <<storage, bank, locks, claims, pendingClaim>>
  BY DEF CallbackMintVaultToken, lockupVars, claimsVars
<1>3. queue[1].type = "MintVaultToken" /\ queue'[1].type = "Mint"
  <2>1. queue'[1].type = "Mint"
    BY <1>1, DoingIs DEF Doing, Kind
  <2> QED
    BY <1>0, <1>1, <2>1, DoingIs
<1>4. /\ ~Ends("Send") /\ ~Ends("Send")' /\ ~Ends("SaveClaim")'
  BY <1>1, <1>3 DEF Ends, LastOf
<1>5. InFlight = 0 /\ pendingClaim = NoClaim
  BY <1>1, <1>4, NothingInFlight DEF CalmKinds
<1>6. InFlight' = 0 /\ Undone' = 0
  BY <1>2, <1>4, <1>5 DEF InFlight, Undone
<1>7. Held' = Held
  BY <1>1, <1>2 DEF Held, BeforeStake
<1>8. Undone' <= Undone
  BY <1>6 DEF Undone
<1> QED
  BY <1>1, <1>2, <1>5, <1>6, <1>7, <1>8, SameTables

LEMMA MintBacked ==
  ASSUME LocksInv, LocksInv', BackedInv, HandleMint
  PROVE  BackedInv'
<1>0. TypeOK /\ OrderInv /\ PlanInv
  BY DEF LocksInv, FlowInv
<1>1. /\ ~Idle /\ Idle' /\ Doing = "Mint" /\ storage' = storage
      /\ bank' = [bank EXCEPT !.shares[queue[1].recipient] = @ + queue[1].amount,
                              !.supply = @ + queue[1].amount]
  BY <1>0, MintIs
<1>2. /\ UNCHANGED <<locks, claims, pendingClaim>> /\ UNCHANGED <<donated, now>>
  BY DEF HandleMint, Continue, lockupVars, claimsVars
<1>3. bank'.base = bank.base
  BY <1>0, <1>1, QueueType DEF BankType
<1>4. queue[1].type = "Mint" /\ LastOf(queue) = queue[1]
  BY <1>0, <1>1, DoingIs, LastIsAlone DEF LastKinds
<1>5. ~Ends("Send")
  BY <1>4 DEF Ends
<1>6. InFlight = 0 /\ pendingClaim = NoClaim
  BY <1>1, <1>5, NothingInFlight DEF CalmKinds
<1>7. InFlight' = 0 /\ Undone' = 0
  BY <1>1, <1>2, <1>6 DEF InFlight, Undone, Ends
<1>8. Held' = Held
  BY <1>1, <1>3 DEF Held, Doing, BeforeStake
<1>9. Undone' <= Undone
  BY <1>7 DEF Undone
<1> QED
  BY <1>1, <1>2, <1>6, <1>7, <1>8, <1>9, SameTables

(* Shares are burnt for what is put into the pending claim.                *)
LEMMA UnlockBacked ==
  ASSUME LocksInv, LocksInv', BackedInv, CallbackUnlock
  PROVE  BackedInv'
<1> DEFINE base == BurnValue(queue[1].amount)
<1>0. TypeOK /\ OrderInv /\ PlanInv
  BY DEF LocksInv, FlowInv
<1>1. /\ Doing = "Unlock" /\ Head(queue) = queue[1] /\ base \in Nat
      /\ ~Idle /\ ~Idle' /\ saved' = saved /\ UNCHANGED <<donated, now>>
      /\ Doing' = "Burn" /\ LastOf(queue') = LastOf(queue)
  BY <1>0, UnlockFlow
<1>2. /\ UNCHANGED <<bank, locks, claims>>
      /\ storage'.totalStaked = storage.totalStaked - base
      /\ storage'.durationCounter = storage.durationCounter
      /\ pendingClaim'.amount = base
  BY <1>0, <1>1, QueueType
  DEF CallbackUnlock, BurnVaultTokens, CreatePendingClaim, StorageType, lockupVars
<1>3. pendingClaim' # NoClaim
  <2>1. queue'[2].type = "BeginUnlocking"
    BY <1>0, UnlockFlow DEF BeginUnlockMsg
  <2>2. AtBurn'
    BY <1>1 DEF LocksInv, LocksNow
  <2> QED
    BY <2>1, <2>2 DEF AtBurn, PendingFor
<1>4. Ends("SaveClaim")
  BY <1>0, <1>1, UnlockEnds
<1>5. ~Ends("Send") /\ ~Ends("Send")' /\ Ends("SaveClaim")'
  BY <1>1, <1>4 DEF Ends, LastOf
<1>6. InFlight = 0
  BY <1>1, <1>5, NothingInFlight DEF CalmKinds
<1>7. InFlight' = base
  BY <1>2, <1>3, <1>5 DEF InFlight, Redeemed
<1>8. Held' = Held
  BY <1>1, <1>2 DEF Held, BeforeStake
<1>9. Undone' <= Undone
  BY <1>1, <1>4, <1>5 DEF Undone
<1> HIDE DEF base
<1>10. Held' + (storage.totalStaked + InFlight) = Held + (storage'.totalStaked + InFlight')
  BY <1>1, <1>2, <1>6, <1>7, <1>8, BackedTypes
<1> QED
  BY <1>1, <1>2, <1>9, <1>10, SameTables

LEMMA BurnBacked ==
  ASSUME LocksInv, LocksInv', BackedInv, HandleBurn
  PROVE  BackedInv'
<1>0. TypeOK /\ OrderInv /\ PlanInv
  BY DEF LocksInv, FlowInv
<1>1. /\ ~Idle /\ Head(queue).type = "Burn" /\ Continue(<<>>)
      /\ UNCHANGED <<storage, locks, claims, pendingClaim>>
      /\ bank' = [bank EXCEPT !.shares[Vault] = @ - Head(queue).amount,
                              !.supply = @ - Head(queue).amount]
  BY DEF HandleBurn, Handles, lockupVars, claimsVars
<1>2. Doing = "Burn" /\ Doing \notin LastKinds
  BY <1>0, <1>1, DoingIs DEF LastKinds
<1>3. /\ ~Idle' /\ saved' = saved /\ <<Doing, Doing'>> \in Follows
      /\ LastOf(queue') = LastOf(queue) /\ UNCHANGED <<donated, now>>
  BY <1>0, <1>1, <1>2, DoneFlow
<1>4. Doing' \in {"BeginUnlocking", "ForceUnlock"}
  BY <1>2, <1>3, FollowsIs
<1>5. InFlight' = InFlight /\ (Ends("SaveClaim")' <=> Ends("SaveClaim"))
  BY <1>1, <1>3, InFlightKept
<1>6. bank'.base = bank.base
  BY <1>0, <1>1, QueueType DEF BankType
<1>7. Held' = Held
  BY <1>2, <1>4, <1>6 DEF Held, BeforeStake
<1>8. Undone' <= Undone
  BY <1>2, <1>4, <1>5 DEF Undone
<1> QED
  BY <1>1, <1>2, <1>3, <1>5, <1>7, <1>8, SameTables

(* The redeemed tokens are sent.                                           *)
LEMMA SendBacked ==
  ASSUME LocksInv, LocksInv', BackedInv, HandleSend
  PROVE  BackedInv'
<1>0. TypeOK /\ OrderInv /\ PlanInv
  BY DEF LocksInv, FlowInv
<1>1. /\ ~Idle /\ Idle' /\ Doing = "Send" /\ Ends("Send") /\ storage' = storage
      /\ Redeemed \in Nat
  BY <1>0, SendIs
<1>2. /\ UNCHANGED <<locks, claims, pendingClaim>> /\ UNCHANGED <<donated, now>>
      /\ bank' = [bank EXCEPT !.base[Vault] = @ - Head(queue).amount,
                              !.base[Head(queue).recipient] = @ + Head(queue).amount]
  BY DEF HandleSend, Continue, lockupVars, claimsVars
<1>3. LastOf(queue) = queue[1] /\ Head(queue) = queue[1] /\ queue[1] \in Message
      /\ queue[1].type = "Send"
  BY <1>0, <1>1, DoingIs, LastIsAlone DEF LastKinds
<1>4. queue[1].recipient \in Accounts /\ queue[1].recipient # Vault
  BY <1>3, MessageFields DEF HandleSend
<1>5. bank'.base[Vault] = bank.base[Vault] - Redeemed
  <2>1. Head(queue).amount = Redeemed
    BY <1>1, <1>3 DEF Redeemed
  <2>2. bank \in BankType /\ Vault \in Accounts
    BY <1>0, TotalTypes
  <2> QED
    BY <1>2, <1>3, <1>4, <2>1, <2>2 DEF BankType
<1>6. InFlight = Redeemed /\ Held = bank.base[Vault] /\ Held' = bank'.base[Vault]
  BY <1>1 DEF InFlight, Held, Doing, BeforeStake
<1>7. pendingClaim = NoClaim
  BY <1>1 DEF LocksInv, LocksNow, AtCalm, CalmKinds
<1>8. InFlight' = 0 /\ Undone' = 0
  BY <1>1, <1>2, <1>7 DEF InFlight, Undone, Ends
<1>9. Undone' <= Undone
  BY <1>8 DEF Undone
<1>10. Held' + (storage.totalStaked + InFlight) = Held + (storage'.totalStaked + InFlight')
  BY <1>0, <1>1, <1>5, <1>6, <1>8, TotalTypes
<1> QED
  BY <1>1, <1>2, <1>9, <1>10, SameTables

(* Redeemed tokens that stay on the account are given to the vault.        *)
LEMMA SendToSelfBacked ==
  ASSUME LocksInv, LocksInv', BackedInv, HandleSendToSelf
  PROVE  BackedInv'
<1>0. TypeOK /\ OrderInv
  BY DEF LocksInv, FlowInv
<1>1. /\ ~Idle /\ Idle' /\ Doing = "Send" /\ Ends("Send")
      /\ Redeemed \in Nat /\ donated' = donated + Redeemed
      /\ UNCHANGED <<storage, bank, locks, claims, pendingClaim, now>>
  BY <1>0, SelfIs DEF lockupVars, claimsVars
<1>2. InFlight = Redeemed /\ Held = bank.base[Vault] /\ Held' = bank'.base[Vault]
  BY <1>1 DEF InFlight, Held, Doing, BeforeStake
<1>3. pendingClaim = NoClaim
  BY <1>1 DEF LocksInv, LocksNow, AtCalm, CalmKinds
<1>4. InFlight' = 0 /\ Undone' = 0
  BY <1>1, <1>3 DEF InFlight, Undone, Ends
<1>5. BalanceNow'
  <2>1. Held + Bound(locks, Ever)
          = donated + Owed(claims, Ever) + storage.totalStaked + Redeemed
    BY <1>2 DEF BackedInv, BalanceNow
  <2>2. Held + Bound(locks, Ever)
          = (donated + Redeemed) + Owed(claims, Ever) + storage.totalStaked + 0
    BY <1>1, <2>1, BackedTypes
  <2> QED
    BY <1>1, <1>2, <1>4, <2>2, SumsAtNext DEF BalanceNow
<1>6. CoverNow'
  <2>1. CanGoOn /\ \A t : Promised(t) = 0
    BY <1>1 DEF CanGoOn, Promised
  <2>2. \A t : Promised(t)' = 0
    BY <1>1 DEF Promised, Doing
  <2>3. ASSUME NEW t \in Nat, t >= now
        PROVE  Bound(locks, t) + 0 <= storage.durationCounter + Owed(claims, t) + 0
    <3>1. Bound(locks, t) + Undone <= storage.durationCounter + Owed(claims, t) + 0
      BY <2>1, <2>3 DEF BackedInv, CoverNow
    <3> QED
      BY <3>1, BackedTypes
  <2> QED
    BY <1>1, <1>4, <2>2, <2>3, SumsAtNext DEF CoverNow
<1> QED
  BY <1>1, <1>5, <1>6 DEF BackedInv

----------------------------------------------------------------------------
(* The invariant, step by step: what the locks and the claims take.        *)
LEMMA LockMessage ==
  ASSUME LocksInv, HandleLockTokens
  PROVE  /\ Head(queue) = queue[1] /\ queue[1].duration \in Nat /\ queue[1].amount \in Nat
         /\ bank'.base[Vault] = bank.base[Vault] - queue[1].amount
         /\ bank.base[Vault] \in Nat /\ claims' = claims /\ UNCHANGED <<donated, now>>
         /\ storage'.totalStaked = storage.totalStaked
         /\ storage'.durationCounter = storage.durationCounter
         /\ \E id : LockTokens(queue[1].duration, queue[1].amount, id)
<1>1. TypeOK /\ OrderInv /\ PlanInv
  BY DEF LocksInv, FlowInv
<1>2. ~Idle /\ Head(queue).type = "LockTokens"
  BY DEF HandleLockTokens, Handles
<1>3. Head(queue) = queue[1] /\ queue[1] \in Message
  BY <1>1, <1>2, DoingIs
<1>4. queue[1].duration \in Nat /\ queue[1].amount \in Nat
  BY <1>2, <1>3, MessageFields
<1>5. /\ bank' = [bank EXCEPT !.base[Vault] = @ - Head(queue).amount]
      /\ UNCHANGED <<donated, now>>
      /\ \E id : LockTokens(Head(queue).duration, Head(queue).amount, id)
  BY DEF HandleLockTokens, Continue
<1>6. /\ storage \in StorageType /\ bank \in BankType /\ Vault \in Accounts
      /\ bank.base[Vault] \in Nat
  BY <1>1, TotalTypes
<1>7. bank'.base[Vault] = bank.base[Vault] - queue[1].amount
  BY <1>3, <1>5, <1>6 DEF BankType
<1>8. \/ \E id : storage' = [storage EXCEPT !.lockId = id] /\ UNCHANGED claimsVars
      \/ \E id : SetPendingClaimId(id) /\ UNCHANGED storage
  BY DEF HandleLockTokens, ReplyLockTokens, ReplyTempWorkaroundLockTokens
<1>9. /\ storage'.totalStaked = storage.totalStaked /\ claims' = claims
      /\ storage'.durationCounter = storage.durationCounter
  BY <1>6, <1>8 DEF SetPendingClaimId, StorageType, claimsVars
<1> QED
  BY <1>3, <1>4, <1>5, <1>6, <1>7, <1>9

(* The stake is not counted at any time to come.                           *)
LEMMA LockStakeBacked ==
  ASSUME LocksInv, LocksInv', BackedInv, HandleLockTokens, Doing = "LockTokens"
  PROVE  BackedInv'
<1> DEFINE amount == queue[1].amount
<1>0. TypeOK /\ OrderInv /\ PlanInv /\ TypeOK'
  BY DEF LocksInv, FlowInv
<1>1. /\ ~Idle /\ ~Idle' /\ saved' = saved /\ LastOf(queue') = LastOf(queue)
      /\ <<Doing, Doing'>> \in Follows
      /\ storage'.totalStaked = storage.totalStaked
  BY <1>0, LockIs
<1>2. Doing' \in {"MintVaultToken", "Unlock"}
  BY <1>1, FollowsIs
<1>3. /\ queue[1].duration \in Nat /\ amount \in Nat /\ bank.base[Vault] \in Nat
      /\ bank'.base[Vault] = bank.base[Vault] - amount
      /\ claims' = claims /\ UNCHANGED <<donated, now>>
      /\ storage'.durationCounter = storage.durationCounter
      /\ \E id : LockTokens(queue[1].duration, amount, id)
  BY LockMessage
<1>4. queue[1].duration = VaultDuration
  BY <1>0, <1>1, DoingIs, KindIs
<1>5. pendingClaim' = pendingClaim
  <2>1. pendingClaim = NoClaim /\ pendingClaim' = NoClaim
    BY <1>2 DEF LocksInv, LocksNow, AtLockTokens, AtCalm, CalmKinds
  <2> QED
    BY <2>1
<1>6. InFlight' = InFlight /\ (Ends("SaveClaim")' <=> Ends("SaveClaim"))
  BY <1>1, <1>5, InFlightKept
<1>7. Undone' = Undone
  BY <1>2, <1>6 DEF Undone
<1>8. Held = bank.base[Vault] /\ Held' = bank.base[Vault] - amount
  BY <1>2, <1>3 DEF Held, BeforeStake
<1>9. CanGoOn /\ \A t : Promised(t) = 0 /\ Promised(t)' = 0
  BY <1>2 DEF CanGoOn, Promised
<1> HIDE DEF amount
<1>10. \A t \in Int : /\ Bound(locks, t) \in Nat /\ Bound(locks', t) \in Nat
                      /\ Bound(locks', t) = Bound(locks, t)
                           + (IF NotUnlocking > t THEN amount ELSE 0)
  BY <1>0, <1>3, <1>4, BoundLocked
<1>11. (~Idle => Balanced(saved) /\ Covered(saved))'
  BY <1>1, <1>3, SavedBacked
<1>12. BalanceNow'
  <2>1. Ever \in Int /\ NotUnlocking > Ever
    BY DEF Ever, NotUnlocking
  <2>2. Bound(locks', Ever) = Bound(locks, Ever) + amount
    BY <1>10, <2>1
  <2> QED
    BY <1>1, <1>3, <1>6, <1>8, <2>2, BackedTypes, SumsAtNext DEF BackedInv, BalanceNow
<1>13. CoverNow'
  <2>1. \A t \in Nat : Bound(locks', t) = Bound(locks, t)
    BY <1>10 DEF NotUnlocking
  <2> QED
    BY <1>3, <1>7, <1>9, <2>1, BackedTypes, SumsAtNext DEF BackedInv, CoverNow
<1> QED
  BY <1>11, <1>12, <1>13 DEF BackedInv

(* The dummy lock is made of a token that no claim gives.                  *)
LEMMA LockDummyBacked ==
  ASSUME LocksInv, LocksInv', BackedInv, HandleLockTokens, Doing = "LockDummy"
  PROVE  BackedInv'
<1>0. TypeOK /\ OrderInv /\ PlanInv /\ TypeOK'
  BY DEF LocksInv, FlowInv
<1>1. /\ ~Idle /\ ~Idle' /\ saved' = saved /\ LastOf(queue') = LastOf(queue)
      /\ <<Doing, Doing'>> \in Follows
      /\ storage'.totalStaked = storage.totalStaked
  BY <1>0, LockIs
<1>2. Doing' = "SaveClaim"
  BY <1>1, FollowsIs
<1>3. /\ Head(queue) = queue[1] /\ queue[1].duration \in Nat /\ queue[1].amount \in Nat
      /\ bank.base[Vault] \in Nat
      /\ bank'.base[Vault] = bank.base[Vault] - queue[1].amount
      /\ claims' = claims /\ UNCHANGED <<donated, now>>
      /\ storage'.durationCounter = storage.durationCounter
      /\ \E id : LockTokens(queue[1].duration, queue[1].amount, id)
  BY LockMessage
<1>4. queue[1].duration # VaultDuration /\ queue[1].amount = 1
  <2>1. queue \in Seq(Planned(saved.bank.base[Vault], storage.durationCounter))
    BY <1>0, <1>1 DEF PlanInv
  <2>2. queue[1] \in Planned(saved.bank.base[Vault], storage.durationCounter)
    BY <1>1, <2>1, QueueParts
  <2>3. queue[1] \in Message /\ Kind(queue[1]) = "LockDummy"
    BY <1>0, <1>1, DoingIs
  <2> QED
    BY <2>2, <2>3, KindIs DEF Planned
<1>5. /\ pendingClaim # NoClaim /\ pendingClaim' # NoClaim
  BY <1>2 DEF LocksInv, LocksNow, AtLockDummy, AtSaveClaim
<1>6. /\ pendingClaim'.amount = pendingClaim.amount
      /\ pendingClaim'.releaseAt = pendingClaim.releaseAt
  <2>1. \E id : SetPendingClaimId(id)
    BY <1>3, <1>4 DEF HandleLockTokens, ReplyTempWorkaroundLockTokens
  <2>2. pendingClaim \in Claim
    BY <1>0, <1>5, QueueType
  <2> QED
    BY <2>1, <2>2 DEF SetPendingClaimId, Claim
<1>7. InFlight' = InFlight
  <2>1. Redeemed' = Redeemed
    BY <1>1, <1>6, LastKept
  <2> QED
    BY <1>5, <2>1 DEF InFlight
<1>8. Undone = 1 /\ Undone' = 0
  <2>1. Ends("SaveClaim")
    BY <1>0, EndsIs
  <2> QED
    BY <1>2, <2>1 DEF Undone
<1>9. Held = bank.base[Vault] /\ Held' = bank.base[Vault] - 1
  BY <1>2, <1>3, <1>4 DEF Held, BeforeStake
<1>10. CanGoOn /\ \A t : Promised(t)' = Promised(t)
  BY <1>2, <1>6 DEF CanGoOn, Promised, Rest
<1>11. \A t \in Int : /\ Bound(locks, t) \in Nat /\ Bound(locks', t) \in Nat
                      /\ Bound(locks', t) = Bound(locks, t) + 1
  BY <1>0, <1>3, <1>4, BoundLocked
<1>12. (~Idle => Balanced(saved) /\ Covered(saved))'
  BY <1>1, <1>3, SavedBacked
<1>13. BalanceNow'
  <2>1. Bound(locks', Ever) = Bound(locks, Ever) + 1
    BY <1>11 DEF Ever, NotUnlocking
  <2> QED
    BY <1>1, <1>3, <1>7, <1>9, <2>1, BackedTypes, SumsAtNext DEF BackedInv, BalanceNow
<1>14. CoverNow'
  <2>1. \A t \in Nat : Bound(locks', t) = Bound(locks, t) + 1
    BY <1>11
  <2> QED
    BY <1>3, <1>8, <1>10, <2>1, BackedTypes, SumsAtNext DEF BackedInv, CoverNow
<1> QED
  BY <1>12, <1>13, <1>14 DEF BackedInv

(* What begins to unlock is owed to the pending claim at the same time.    *)
LEMMA BeginUnlockingBacked ==
  ASSUME LocksInv, LocksInv', BackedInv, HandleBeginUnlocking
  PROVE  BackedInv'
<1> DEFINE m == queue[1]
           endTime == now + LockupTime
<1>0. TypeOK /\ OrderInv /\ PlanInv /\ TypeOK'
  BY DEF LocksInv, FlowInv
<1>1. /\ ~Idle /\ Head(queue).type = "BeginUnlocking" /\ Continue(<<>>)
      /\ UNCHANGED <<storage, bank, claims, pendingClaim>>
      /\ BeginUnlocking(Head(queue).id, Head(queue).amount, endTime)
  BY DEF HandleBeginUnlocking, Handles, claimsVars
<1>2. Doing = "BeginUnlocking" /\ Doing \notin LastKinds /\ Head(queue) = m
  BY <1>0, <1>1, DoingIs DEF LastKinds
<1>3. /\ ~Idle' /\ saved' = saved /\ <<Doing, Doing'>> \in Follows
      /\ LastOf(queue') = LastOf(queue) /\ UNCHANGED <<donated, now>>
  BY <1>0, <1>1, <1>2, DoneFlow
<1>4. Doing' = "LockDummy"
  BY <1>2, <1>3, FollowsIs
<1>5. /\ pendingClaim.amount = m.amount /\ pendingClaim.releaseAt = endTime
      /\ m.id = storage.lockId /\ Staked(locks, storage.lockId, storage.totalStaked + m.amount)
  BY <1>2 DEF LocksInv, LocksNow, AtBeginUnlocking, PendingFor, Unlocks, Resting
<1>6. endTime \in Nat
  BY <1>0, QueueType, OsmosisAssumption DEF OsmosisAssumption
<1>7. m.id \in DOMAIN locks /\ m.amount \in 1..locks[m.id].amount
  BY <1>1, <1>2 DEF BeginUnlocking, CanBeginUnlocking
<1>8. IsLockup(locks, lastLockId) /\ storage.totalStaked \in Nat
      /\ locks[m.id].amount \in Nat /\ m.amount \in Nat \ {0}
  <2>1. IsLockup(locks, lastLockId) /\ storage.totalStaked \in Nat
    BY <1>0, QueueType, TotalTypes
  <2>2. locks[m.id].amount \in Nat
    BY <1>7, <2>1, LockTypes
  <2> QED
    BY <1>7, <2>1, <2>2
<1>9. locks[m.id].duration = VaultDuration
  <2> DEFINE staked == storage.totalStaked + m.amount
  <2>1. staked \in Nat /\ staked # 0 /\ Staked(locks, storage.lockId, staked)
    BY <1>5, <1>8
  <2> HIDE DEF staked
  <2>2. Active(locks) = {storage.lockId}
    BY <1>8, <2>1, StakedIs
  <2> QED
    BY <1>5, <2>2 DEF Active
<1> HIDE DEF endTime, m
<1>10. BeginUnlocking(m.id, m.amount, endTime)
  BY <1>1, <1>2
<1>11. \A t \in Int : /\ Bound(locks, t) \in Nat /\ Bound(locks', t) \in Nat
                      /\ Bound(locks', t) + (IF NotUnlocking > t THEN m.amount ELSE 0)
                           = Bound(locks, t) + (IF endTime > t THEN m.amount ELSE 0)
  BY <1>0, <1>6, <1>9, <1>10, BoundUnlocking
<1>12. InFlight' = InFlight /\ (Ends("SaveClaim")' <=> Ends("SaveClaim"))
  BY <1>1, <1>3, InFlightKept
<1>13. Held' = Held /\ Undone' = Undone
  BY <1>1, <1>2, <1>4, <1>12 DEF Held, BeforeStake, Undone
<1>14. CanGoOn /\ \A t : Promised(t) = 0 /\ Promised(t)' = IF endTime > t THEN m.amount ELSE 0
  BY <1>1, <1>2, <1>4, <1>5 DEF CanGoOn, Promised, Rest
<1>15. (~Idle => Balanced(saved) /\ Covered(saved))'
  BY <1>1, <1>2, <1>3, SavedBacked
<1>16. BalanceNow'
  <2>1. Ever \in Int /\ NotUnlocking > Ever /\ endTime > Ever
    BY <1>6 DEF Ever, NotUnlocking
  <2>2. Bound(locks', Ever) = Bound(locks, Ever)
    BY <1>8, <1>11, <2>1
  <2> QED
    BY <1>1, <1>3, <1>12, <1>13, <2>2, SumsAtNext DEF BackedInv, BalanceNow
<1>17. CoverNow'
  <2>1. \A t \in Nat : Bound(locks', t) = Bound(locks, t) + (IF endTime > t THEN m.amount ELSE 0)
    BY <1>11 DEF NotUnlocking
  <2>2. ASSUME NEW t \in Nat, t >= now
        PROVE  Bound(locks', t) + Undone'
                 <= storage'.durationCounter + Owed(claims', t) + Promised(t)'
    <3>1. Bound(locks, t) + Undone <= storage.durationCounter + Owed(claims, t) + 0
      BY <1>14, <2>2 DEF BackedInv, CoverNow
    <3>2. /\ claims' = claims /\ storage' = storage /\ Undone' = Undone
          /\ Owed(claims, t) \in Nat /\ storage.durationCounter \in Nat /\ Undone \in {0, 1}
          /\ Bound(locks, t) \in Nat
      BY <1>1, <1>13, BackedTypes
    <3>3. Promised(t)' = IF endTime > t THEN m.amount ELSE 0
      BY <1>14
    <3>4. Bound(locks', t) = Bound(locks, t) + (IF endTime > t THEN m.amount ELSE 0)
      BY <2>1, <2>2
    <3>5. (IF endTime > t THEN m.amount ELSE 0) \in Nat
      BY <1>8
    <3> QED
      BY <3>1, <3>2, <3>3, <3>4, <3>5
  <2> QED
    BY <1>3, <2>2, SumsAtNext DEF CoverNow
<1> QED
  BY <1>15, <1>16, <1>17 DEF BackedInv

(* What is unlocked by force is no claim's any more.                       *)
LEMMA ForceUnlockBacked ==
  ASSUME LocksInv, LocksInv', BackedInv, HandleForceUnlock
  PROVE  BackedInv'
<1> DEFINE m == queue[1]
<1>0. TypeOK /\ OrderInv /\ PlanInv /\ TypeOK'
  BY DEF LocksInv, FlowInv
<1>1. /\ ~Idle /\ Head(queue).type = "ForceUnlock" /\ Continue(<<>>)
      /\ UNCHANGED <<storage, claims, pendingClaim>>
      /\ bank' = [bank EXCEPT !.base[Vault] = @ + Head(queue).amount]
      /\ ForceUnlock(Head(queue).id, Head(queue).amount)
  BY DEF HandleForceUnlock, Handles, claimsVars
<1>2. Doing = "ForceUnlock" /\ Doing \notin LastKinds /\ Head(queue) = m
  BY <1>0, <1>1, DoingIs DEF LastKinds
<1>3. /\ ~Idle' /\ saved' = saved /\ <<Doing, Doing'>> \in Follows
      /\ LastOf(queue') = LastOf(queue) /\ UNCHANGED <<donated, now>>
  BY <1>0, <1>1, <1>2, DoneFlow
<1>4. Doing' = "Send"
  BY <1>2, <1>3, FollowsIs
<1>5. /\ bank \in BankType /\ Vault \in Accounts /\ bank.base[Vault] \in Nat
  BY <1>0, TotalTypes
<1>6. bank'.base[Vault] = bank.base[Vault] + m.amount
  BY <1>1, <1>2, <1>5 DEF BankType
<1> HIDE DEF m
<1>7. \A t : /\ Bound(locks, t) \in Nat /\ Bound(locks', t) \in Nat
             /\ m.amount \in Nat /\ m.id \in DOMAIN locks
             /\ Bound(locks, t) = Bound(locks', t)
                  + (IF Counts(locks[m.id], t) THEN m.amount ELSE 0)
  BY <1>0, <1>1, <1>2, BoundForced
<1>8. InFlight' = InFlight /\ (Ends("SaveClaim")' <=> Ends("SaveClaim"))
  BY <1>1, <1>3, InFlightKept
<1>9. Held' = Held + m.amount /\ Undone' = Undone
  BY <1>2, <1>4, <1>6, <1>8 DEF Held, BeforeStake, Undone
<1>10. /\ CanGoOn /\ \A t : Promised(t) = IF Counts(locks[m.id], t) THEN m.amount ELSE 0
       /\ \A t : Promised(t)' = 0
  BY <1>2, <1>4, <1>7 DEF CanGoOn, Promised, m
<1>11. (~Idle => Balanced(saved) /\ Covered(saved))'
  BY <1>1, <1>3, SavedBacked
<1>12. BalanceNow'
  <2>1. Counts(locks[m.id], Ever)
    <3>1. IsLockup(locks, lastLockId) /\ m.id \in DOMAIN locks
      BY <1>0, <1>7, QueueType
    <3>2. locks[m.id].endTime \in Nat \cup {NotUnlocking}
      BY <3>1, LockTypes
    <3> QED
      BY <3>2 DEF Counts, Ever, NotUnlocking
  <2>2. Bound(locks, Ever) = Bound(locks', Ever) + m.amount
    BY <1>7, <2>1
  <2> QED
    BY <1>1, <1>3, <1>7, <1>8, <1>9, <2>2, BackedTypes, SumsAtNext DEF BackedInv, BalanceNow
<1>13. CoverNow'
  <2>1. ASSUME NEW t \in Nat, t >= now
        PROVE  Bound(locks', t) + Undone'
                 <= storage'.durationCounter + Owed(claims', t) + Promised(t)'
    <3>1. Bound(locks, t) + Undone <= storage.durationCounter + Owed(claims, t) + Promised(t)
      BY <1>10, <2>1 DEF BackedInv, CoverNow
    <3>2. /\ claims' = claims /\ storage' = storage /\ Undone' = Undone
          /\ Owed(claims, t) \in Nat /\ storage.durationCounter \in Nat /\ Undone \in {0, 1}
          /\ Bound(locks', t) \in Nat
      BY <1>1, <1>7, <1>9, BackedTypes
    <3>3. Promised(t) \in Nat /\ Promised(t)' = 0
      BY <1>7, <1>10
    <3>4. Bound(locks, t) = Bound(locks', t) + Promised(t)
      BY <1>7, <1>10
    <3> QED
      BY <3>1, <3>2, <3>3, <3>4
  <2> QED
    BY <1>3, <2>1, SumsAtNext DEF CoverNow
<1> QED
  BY <1>11, <1>12, <1>13 DEF BackedInv

LEMMA SaveClaimBacked ==
  ASSUME LocksInv, LocksInv', TotalInv, BackedInv, CallbackSaveClaim
  PROVE  BackedInv'
<1>0. TypeOK /\ OrderInv /\ PlanInv /\ TypeOK'
  BY DEF LocksInv, FlowInv
<1>1. Idle' /\ ~Idle /\ Doing = "SaveClaim"
  BY <1>0, SaveClaimTotal
<1>2. /\ UNCHANGED <<storage, bank, locks>> /\ UNCHANGED <<donated, now>>
      /\ CommitPendingClaim /\ pendingClaim' = NoClaim /\ pendingClaim # NoClaim
  BY DEF CallbackSaveClaim, Continue, CommitPendingClaim, lockupVars
<1>3. pendingClaim \in Claim
  BY <1>0, <1>2, QueueType
<1>4. \A t : /\ Owed(claims, t) \in Nat /\ Owed(claims', t) \in Nat
             /\ Owed(claims', t) = Owed(claims, t) + Rest(pendingClaim, t)
  BY <1>0, <1>2, OwedSaved
<1>5. ~Ends("Send")
  BY <1>0, <1>1, LastIsAlone, DoingIs DEF LastKinds, Ends
<1>6. InFlight = pendingClaim.amount /\ InFlight' = 0
  BY <1>1, <1>2, <1>5 DEF InFlight, Redeemed, Ends
<1>7. Held = bank.base[Vault] /\ Held' = bank.base[Vault] /\ Undone = 0 /\ Undone' = 0
  BY <1>1, <1>2 DEF Held, BeforeStake, Undone, Ends, Doing
<1>8. /\ CanGoOn /\ \A t : Promised(t) = Rest(pendingClaim, t)
      /\ \A t : Promised(t)' = 0
  BY <1>1 DEF CanGoOn, Promised, Doing
<1>9. (~Idle => Balanced(saved) /\ Covered(saved))'
  BY <1>1
<1>10. BalanceNow'
  <2>1. Rest(pendingClaim, Ever) = pendingClaim.amount /\ pendingClaim.amount \in Nat
    BY <1>3 DEF Rest, Ever, NotUnlocking, Claim
  <2>2. Owed(claims', Ever) = Owed(claims, Ever) + pendingClaim.amount
    BY <1>4, <2>1
  <2> QED
    BY <1>2, <1>4, <1>6, <1>7, <2>1, <2>2, BackedTypes, SumsAtNext DEF BackedInv, BalanceNow
<1>11. CoverNow'
  <2>1. ASSUME NEW t \in Nat, t >= now
        PROVE  Bound(locks', t) + Undone'
                 <= storage'.durationCounter + Owed(claims', t) + Promised(t)'
    <3>1. Bound(locks, t) + Undone <= storage.durationCounter + Owed(claims, t) + Promised(t)
      BY <1>8, <2>1 DEF BackedInv, CoverNow
    <3>2. Rest(pendingClaim, t) \in Nat
      BY <1>3 DEF Rest, Claim
    <3> QED
      BY <1>2, <1>4, <1>7, <1>8, <3>1, <3>2, BackedTypes
  <2> QED
    BY <1>2, <2>1, SumsAtNext DEF CoverNow
<1> QED
  BY <1>9, <1>10, <1>11 DEF BackedInv

----------------------------------------------------------------------------
(* The invariant, step by step: transactions begin.                        *)
LEMMA BegunSame ==
  ASSUME LocksInv, LocksInv', BackedInv, Idle, saved' = Snapshot,
         UNCHANGED <<locks, claims, donated, now>>,
         Held' + storage.totalStaked
           = bank.base[Vault] + (storage'.totalStaked + InFlight'),
         storage'.durationCounter = storage.durationCounter + Undone'
  PROVE  BackedInv'
<1>1. (Balanced(saved) /\ Covered(saved))'
  BY BegunBacked
<1>2. /\ Held' \in Nat /\ InFlight' \in Nat /\ storage'.totalStaked \in Nat /\ Undone' \in {0, 1}
      /\ (CanGoOn => \A t : Promised(t) \in Nat)'
  <2>1. (/\ Held \in Nat /\ InFlight \in Nat /\ storage.totalStaked \in Nat /\ Undone \in {0, 1}
         /\ CanGoOn => \A t : Promised(t) \in Nat)'
    BY BackedTypes, PTL
  <2> QED
    BY <2>1
<1>3. /\ Held = bank.base[Vault] /\ InFlight = 0 /\ Undone = 0
      /\ CanGoOn /\ \A t : Promised(t) = 0
  BY TermsAtRest
<1>4. BalanceNow'
  <2>1. bank.base[Vault] + Bound(locks, Ever)
          = donated + Owed(claims, Ever) + storage.totalStaked + 0
    BY <1>3 DEF BackedInv, BalanceNow
  <2>2. /\ bank.base[Vault] \in Nat /\ Bound(locks, Ever) \in Nat
        /\ Owed(claims, Ever) \in Nat /\ donated \in Nat /\ storage.totalStaked \in Nat
    BY <1>3, BackedTypes
  <2>3. Held' + Bound(locks, Ever)
          = donated + Owed(claims, Ever) + storage'.totalStaked + InFlight'
    BY <1>2, <2>1, <2>2
  <2>4. /\ Bound(locks, Ever)' = Bound(locks, Ever)
        /\ Owed(claims, Ever)' = Owed(claims, Ever) /\ donated' = donated
    BY SumsAtNext DEF Ever
  <2> QED
    BY <2>3, <2>4 DEF BalanceNow
<1>5. CoverNow'
  <2>1. ASSUME CanGoOn', NEW t \in Nat, t >= now
        PROVE  Bound(locks', t) + Undone'
                 <= storage'.durationCounter + Owed(claims', t) + Promised(t)'
    <3>1. Bound(locks, t) + 0 <= storage.durationCounter + Owed(claims, t) + 0
      BY <1>3, <2>1 DEF BackedInv, CoverNow
    <3>2. Promised(t)' \in Nat
      BY <1>2, <2>1
    <3>3. /\ Bound(locks, t) \in Nat /\ Owed(claims, t) \in Nat
          /\ storage.durationCounter \in Nat
      BY BackedTypes
    <3> QED
      BY <1>2, <3>1, <3>2, <3>3
  <2> QED
    BY <2>1, SumsAtNext DEF CoverNow
<1> QED
  BY <1>1, <1>4, <1>5 DEF BackedInv

LEMMA DepositBacked ==
  ASSUME LocksInv, LocksInv', BackedInv, NEW user \in Users, NEW recipient \in Accounts,
         NEW amount \in Nat, ExecuteDeposit(user, amount, recipient)
  PROVE  BackedInv'
<1>0. TypeOK
  BY DEF LocksInv, FlowInv
<1>1. /\ Idle /\ ~Idle' /\ saved' = Snapshot /\ Doing' = "SellRewards"
      /\ LastOf(queue') = MintVaultToken(amount, recipient) /\ UNCHANGED <<donated, now>>
  BY <1>0, DepositFlow
<1>2. UNCHANGED <<storage, locks, claims, pendingClaim>>
  BY DEF ExecuteDeposit, lockupVars, claimsVars
<1>3. saved'.bank = bank
  BY <1>1 DEF Snapshot
<1>4. ~Ends("Send")' /\ ~Ends("SaveClaim")'
  BY <1>1 DEF Ends, LastOf, MintVaultToken
<1>5. Held' = bank.base[Vault] /\ Undone' = 0
  BY <1>1, <1>3, <1>4 DEF Held, BeforeStake, Undone
<1>6. InFlight' = 0
  BY <1>0, <1>1, <1>2, <1>4, AtRest DEF InFlight, AtCalm
<1> QED
  BY <1>1, <1>2, <1>5, <1>6, BackedTypes, BegunSame

LEMMA ExecuteUnlockBacked ==
  ASSUME LocksInv, LocksInv', BackedInv, NEW user \in Users, NEW vaultTokens \in Nat,
         ExecuteUnlock(user, vaultTokens)
  PROVE  BackedInv'
<1>0. TypeOK
  BY DEF LocksInv, FlowInv
<1>1. /\ Idle /\ ~Idle' /\ saved' = Snapshot /\ Doing' = "SellRewards"
      /\ LastOf(queue') = SaveClaim /\ UNCHANGED <<donated, now>>
  BY <1>0, UnlockBeginFlow
<1>2. UNCHANGED <<locks, claims, pendingClaim>>
  BY DEF ExecuteUnlock, lockupVars, claimsVars
<1>3. saved'.bank = bank
  BY <1>1 DEF Snapshot
<1>4. ~Ends("Send")' /\ Ends("SaveClaim")'
  BY <1>1 DEF Ends, LastOf, SaveClaim
<1>5. Held' = bank.base[Vault] /\ Undone' = 1
  BY <1>1, <1>3, <1>4 DEF Held, BeforeStake, Undone
<1>6. InFlight' = 0
  BY <1>0, <1>1, <1>2, <1>4, AtRest DEF InFlight, AtCalm
<1>7. /\ storage'.totalStaked = storage.totalStaked
      /\ storage'.durationCounter = storage.durationCounter + 1
  BY <1>0, TotalTypes DEF ExecuteUnlock, StorageType
<1> QED
  BY <1>1, <1>2, <1>5, <1>6, <1>7, BackedTypes, BegunSame

LEMMA ForceRedeemBacked ==
  ASSUME LocksInv, LocksInv', TotalInv, BackedInv, NEW user \in Users,
         NEW vaultTokens \in Nat, NEW recipient \in Accounts,
         ExecuteForceRedeem(user, vaultTokens, recipient)
  PROVE  BackedInv'
<1> DEFINE base == BurnValue(vaultTokens)
<1>0. TypeOK
  BY DEF LocksInv, FlowInv
<1>1. /\ Idle /\ ~Idle' /\ saved' = Snapshot /\ Doing' = "Burn" /\ base \in Nat
      /\ LastOf(queue') = Send(base, recipient) /\ UNCHANGED <<donated, now>>
  BY <1>0, ForceRedeemFlow
<1>2. UNCHANGED <<locks, claims, pendingClaim>>
  BY DEF ExecuteForceRedeem, lockupVars, claimsVars
<1>3. bank'.base = bank.base
  <2>1. ReceiveVaultTokens(user, vaultTokens) /\ SharesInv
    BY DEF ExecuteForceRedeem, TotalInv
  <2> QED
    BY <1>0, <2>1, SharesReceived
<1>4. Ends("Send")' /\ ~Ends("SaveClaim")' /\ InFlight' = base
  BY <1>1 DEF Ends, LastOf, Send, InFlight, Redeemed
<1>5. Held' = bank.base[Vault] /\ Undone' = 0
  BY <1>1, <1>3, <1>4 DEF Held, BeforeStake, Undone
<1>6. /\ storage'.totalStaked = storage.totalStaked - base
      /\ storage'.durationCounter = storage.durationCounter
  BY <1>0, TotalTypes DEF ExecuteForceRedeem, BurnVaultTokens, StorageType
<1>7. storage.totalStaked \in Nat /\ bank.base[Vault] \in Nat
  BY <1>0, TotalTypes
<1> HIDE DEF base
<1>8. Held' + storage.totalStaked = bank.base[Vault] + (storage'.totalStaked + InFlight')
  BY <1>1, <1>4, <1>5, <1>6, <1>7
<1>9. storage'.durationCounter = storage.durationCounter + Undone'
  BY <1>5, <1>6, BackedTypes
<1> QED
  BY <1>1, <1>2, <1>8, <1>9, BegunSame

(* A part of a claim is taken: it is in flight, and still promised if it   *)
(* has to be unlocked first.                                               *)
LEMMA BegunTaking ==
  ASSUME LocksInv, LocksInv', BackedInv, Idle, ~Idle', saved' = Snapshot,
         UNCHANGED <<storage, bank, locks, donated, now>>, NEW amount \in Nat,
         LastOf(queue').type = "Send", LastOf(queue').amount = amount,
         Doing' \in {"Send", "ForceUnlock"},
         Owed(claims', Ever) \in Nat, Owed(claims, Ever) = Owed(claims', Ever) + amount,
         \A t \in Nat : Owed(claims', t) \in Nat,
         \A t \in Nat : t >= now /\ CanGoOn' =>
           Owed(claims, t) <= Owed(claims', t) + Promised(t)'
  PROVE  BackedInv'
<1>1. (Balanced(saved) /\ Covered(saved))'
  BY BegunBacked
<1>2. /\ Held = bank.base[Vault] /\ InFlight = 0 /\ Undone = 0
      /\ CanGoOn /\ \A t : Promised(t) = 0
  BY TermsAtRest
<1>3. Ends("Send")' /\ ~Ends("SaveClaim")'
  BY DEF Ends, LastOf
<1>4. InFlight' = amount /\ Held' = Held /\ Undone' = 0
  BY <1>2, <1>3 DEF InFlight, Redeemed, LastOf, Held, BeforeStake, Undone
<1>5. BalanceNow'
  BY <1>2, <1>4, BackedTypes, SumsAtNext DEF BackedInv, BalanceNow
<1>7. (CanGoOn => \A t : Promised(t) \in Nat)'
  BY BackedTypes, PTL
<1>6. CoverNow'
  <2>1. ASSUME CanGoOn', NEW t \in Nat, t >= now
        PROVE  Bound(locks', t) + Undone'
                 <= storage'.durationCounter + Owed(claims', t) + Promised(t)'
    <3>1. Bound(locks, t) + 0 <= storage.durationCounter + Owed(claims, t) + 0
      BY <1>2, <2>1 DEF BackedInv, CoverNow
    <3>2. Promised(t)' \in Nat
      BY <1>7, <2>1
    <3>3. /\ Bound(locks, t) \in Nat /\ Owed(claims, t) \in Nat
          /\ storage.durationCounter \in Nat
      BY BackedTypes
    <3>4. Owed(claims, t) <= Owed(claims', t) + Promised(t)' /\ Owed(claims', t) \in Nat
      BY <2>1
    <3> QED
      BY <1>4, <3>1, <3>2, <3>3, <3>4
  <2> QED
    BY <2>1, SumsAtNext DEF CoverNow
<1> QED
  BY <1>1, <1>5, <1>6 DEF BackedInv

LEMMA WithdrawBacked ==
  ASSUME LocksInv, LocksInv', BackedInv, NEW user \in Users, NEW id,
         NEW recipient \in Accounts, ExecuteWithdrawUnlocked(user, id, recipient)
  PROVE  BackedInv'
<1> DEFINE amount == claims[id].amount
<1>0. TypeOK /\ TypeOK'
  BY DEF LocksInv, FlowInv
<1>1. /\ Idle /\ ~Idle' /\ saved' = Snapshot /\ Doing' = "Send" /\ amount \in Nat
      /\ LastOf(queue') = Send(amount, recipient) /\ UNCHANGED <<donated, now>>
  BY <1>0, WithdrawFlow
<1>2. /\ UNCHANGED <<storage, bank, locks>> /\ id \in DOMAIN claims
      /\ claims[id].releaseAt <= now
      /\ claims' = Restrict(claims, DOMAIN claims \ {id})
  BY DEF ExecuteWithdrawUnlocked, ClaimTokens, IsExpired, lockupVars
<1>3. claims[id].releaseAt \in Nat /\ now \in Nat
  BY <1>0, <1>2, QueueType DEF IsClaimMap, Claim
<1>4. \A t : /\ Owed(claims, t) \in Nat /\ Owed(claims', t) \in Nat
             /\ Owed(claims, t) = Owed(claims', t) + Rest(claims[id], t)
  BY <1>0, <1>2, OwedTaken
<1>5. Rest(claims[id], Ever) = amount
  BY <1>3 DEF Rest, Ever, NotUnlocking
<1>6. ASSUME NEW t \in Nat, t >= now, CanGoOn'
      PROVE  Owed(claims, t) <= Owed(claims', t) + Promised(t)'
  <2>1. Rest(claims[id], t) = 0
    BY <1>2, <1>3, <1>6 DEF Rest
  <2>2. Promised(t)' = 0
    BY <1>1 DEF Promised
  <2>3. Owed(claims, t) = Owed(claims', t) + 0 /\ Owed(claims', t) \in Nat
    BY <1>4, <2>1
  <2> QED
    BY <2>2, <2>3
<1>7. LastOf(queue').type = "Send" /\ LastOf(queue').amount = amount
  BY <1>1 DEF Send
<1>8. /\ Owed(claims', Ever) \in Nat /\ Owed(claims, Ever) = Owed(claims', Ever) + amount
      /\ \A t \in Nat : Owed(claims', t) \in Nat
  BY <1>4, <1>5
<1>9. Doing' \in {"Send", "ForceUnlock"} /\ UNCHANGED <<storage, bank, locks, donated, now>>
  BY <1>1, <1>2
<1> HIDE DEF amount
<1> QED
  BY <1>1, <1>6, <1>7, <1>8, <1>9, BegunTaking

LEMMA ForceWithdrawBacked ==
  ASSUME LocksInv, LocksInv', BackedInv, NEW user \in Users, NEW id, NEW amount \in Nat,
         NEW recipient \in Accounts, ExecuteForceWithdrawUnlocking(user, id, amount, recipient)
  PROVE  BackedInv'
<1>0. TypeOK /\ TypeOK'
  BY DEF LocksInv, FlowInv
<1>1. /\ Idle /\ ~Idle' /\ saved' = Snapshot
      /\ LastOf(queue') = Send(amount, recipient) /\ UNCHANGED <<donated, now>>
      /\ IF IsExpired(claims[id], now)
         THEN Doing' = "Send"
         ELSE Doing' = "ForceUnlock" /\ queue'[1] = ForceUnlockMsg(id, amount)
  BY <1>0, ForceWithdrawFlow
<1>2. /\ UNCHANGED <<storage, bank, locks>> /\ id \in DOMAIN claims
      /\ ForceClaim(user, id, amount)
  BY DEF ExecuteForceWithdrawUnlocking, ForceClaim, lockupVars
<1>3. claims[id].releaseAt \in Nat /\ now \in Nat
  BY <1>0, <1>2, QueueType DEF IsClaimMap, Claim
<1>4. \A t : /\ Owed(claims, t) \in Nat /\ Owed(claims', t) \in Nat
             /\ Owed(claims, t) = Owed(claims', t)
                  + (IF claims[id].releaseAt > t THEN amount ELSE 0)
  BY <1>0, <1>2, OwedForced
<1>5. claims[id].releaseAt > Ever
  BY <1>3 DEF Ever, NotUnlocking
<1>6. ASSUME NEW t \in Nat, t >= now, CanGoOn'
      PROVE  Owed(claims, t) <= Owed(claims', t) + Promised(t)'
  <2>1. /\ Owed(claims', t) \in Nat
        /\ Owed(claims, t) = Owed(claims', t)
             + (IF claims[id].releaseAt > t THEN amount ELSE 0)
    BY <1>4
  <2>2. CASE claims[id].releaseAt <= now
    <3>1. Promised(t)' = 0
      BY <1>1, <2>2 DEF Promised, IsExpired
    <3>2. ~(claims[id].releaseAt > t)
      BY <1>3, <1>6, <2>2
    <3> QED
      BY <2>1, <3>1, <3>2
  <2>3. CASE ~(claims[id].releaseAt <= now)
    <3>1. /\ Doing' = "ForceUnlock" /\ queue'[1].id = id /\ queue'[1].amount = amount
      BY <1>1, <2>3 DEF IsExpired, ForceUnlockMsg
    <3>2. id \in DOMAIN locks
      BY <1>2, <1>6, <3>1 DEF CanGoOn
    <3>3. /\ id \notin Active(locks) /\ Names(claims, locks, 0, 0)
      BY <1>1, <1>2, AtRest DEF ClaimsBelow, AtCalm, Resting
    <3>4. locks[id].duration = VaultDuration => locks[id].endTime = claims[id].releaseAt
      <4>1. claims[id].releaseAt > now
        BY <1>3, <2>3
      <4> QED
        BY <1>2, <3>2, <3>3, <4>1 DEF Active, Names, Leaving
    <3>5. claims[id].releaseAt > t => Counts(locks[id], t)
      BY <3>4 DEF Counts
    <3>6. Promised(t)' = IF Counts(locks[id], t) THEN amount ELSE 0
      BY <1>2, <3>1 DEF Promised, Counts
    <3> QED
      BY <2>1, <3>5, <3>6
  <2> QED
    BY <2>2, <2>3
<1>7. LastOf(queue').type = "Send" /\ LastOf(queue').amount = amount
  BY <1>1 DEF Send
<1>8. /\ Owed(claims', Ever) \in Nat /\ Owed(claims, Ever) = Owed(claims', Ever) + amount
      /\ \A t \in Nat : Owed(claims', t) \in Nat
  BY <1>4, <1>5
<1>9. Doing' \in {"Send", "ForceUnlock"} /\ UNCHANGED <<storage, bank, locks, donated, now>>
  BY <1>1, <1>2
<1> QED
  BY <1>1, <1>6, <1>7, <1>8, <1>9, BegunTaking

(* The invariant holds between transactions.                               *)
LEMMA RestingBacked ==
  ASSUME LocksInv', Idle',
         bank'.base[Vault] + Bound(locks', Ever)
           = donated' + Owed(claims', Ever) + storage'.totalStaked,
         \A t \in Nat : t >= now' =>
           Bound(locks', t) <= storage'.durationCounter + Owed(claims', t)
  PROVE  BackedInv'
<1>1. (/\ Held = bank.base[Vault] /\ InFlight = 0 /\ Undone = 0
       /\ CanGoOn /\ \A t : Promised(t) = 0)'
  BY TermsAtRest, PTL
<1>2. (/\ Held \in Nat /\ InFlight \in Nat /\ Undone \in {0, 1}
       /\ storage.totalStaked \in Nat /\ storage.durationCounter \in Nat
       /\ donated \in Nat /\ now \in Nat
       /\ \A t : Bound(locks, t) \in Nat /\ Owed(claims, t) \in Nat
       /\ CanGoOn => \A t : Promised(t) \in Nat)'
  BY BackedTypes, PTL
<1>3. Ever' = Ever
  BY DEF Ever
<1>4. BalanceNow'
  BY <1>1, <1>2, <1>3, SumsAtNext DEF BalanceNow
<1>5. CoverNow'
  BY <1>1, <1>2, SumsAtNext DEF CoverNow
<1> QED
  BY <1>1, <1>4, <1>5 DEF BackedInv

LEMMA RevertBacked ==
  ASSUME LocksInv', BackedInv, ~Idle, Revert
  PROVE  BackedInv'
<1>1. Idle' /\ UNCHANGED <<donated, now>>
  BY RevertFlow
<1>2. /\ storage' = saved.storage /\ bank' = saved.bank /\ locks' = saved.locks
      /\ claims' = saved.claims
  BY DEF Revert
<1>3. Balanced(saved) /\ Covered(saved)
  BY DEF BackedInv
<1>4. bank'.base[Vault] + Bound(locks', Ever)
        = donated' + Owed(claims', Ever) + storage'.totalStaked
  BY <1>1, <1>2, <1>3 DEF Balanced
<1>5. \A t \in Nat : t >= now' =>
        Bound(locks', t) <= storage'.durationCounter + Owed(claims', t)
  BY <1>1, <1>2, <1>3 DEF Covered
<1> QED
  BY <1>1, <1>4, <1>5, RestingBacked

(* Between transactions tokens come back from a lock or are given, and     *)
(* time passes.                                                            *)
LEMMA QuietBacked ==
  ASSUME LocksInv, LocksInv', BackedInv, Idle, Idle', UNCHANGED <<storage, claims>>,
         now' >= now,
         (bank'.base[Vault] + Bound(locks', Ever)) + donated
           = (bank.base[Vault] + Bound(locks, Ever)) + donated',
         \A t \in Nat : Bound(locks', t) <= Bound(locks, t)
  PROVE  BackedInv'
<1>1. /\ Held = bank.base[Vault] /\ InFlight = 0 /\ Undone = 0
      /\ CanGoOn /\ \A t : Promised(t) = 0
  BY TermsAtRest
<1>2. /\ Held \in Nat /\ storage.totalStaked \in Nat /\ storage.durationCounter \in Nat
      /\ donated \in Nat /\ now \in Nat
      /\ \A t : Bound(locks, t) \in Nat /\ Owed(claims, t) \in Nat
  BY BackedTypes
<1>3. /\ bank'.base[Vault] \in Nat /\ donated' \in Nat /\ now' \in Nat
      /\ \A t : Bound(locks', t) \in Nat
  <2>1. (/\ Held \in Nat /\ donated \in Nat /\ now \in Nat
         /\ \A t : Bound(locks, t) \in Nat /\ Owed(claims, t) \in Nat)'
    BY BackedTypes, PTL
  <2>2. (Held = bank.base[Vault])'
    BY TermsAtRest, PTL
  <2> QED
    BY <2>1, <2>2, SumsAtNext
<1>4. bank.base[Vault] + Bound(locks, Ever)
        = donated + Owed(claims, Ever) + storage.totalStaked + 0
  BY <1>1 DEF BackedInv, BalanceNow
<1>5. bank'.base[Vault] + Bound(locks', Ever)
        = donated' + Owed(claims, Ever) + storage.totalStaked
  BY <1>1, <1>2, <1>3, <1>4
<1>6. ASSUME NEW t \in Nat, t >= now'
      PROVE  Bound(locks', t) <= storage.durationCounter + Owed(claims, t)
  <2>1. t >= now
    BY <1>2, <1>3, <1>6
  <2>2. Bound(locks, t) + 0 <= storage.durationCounter + Owed(claims, t) + 0
    BY <1>1, <2>1 DEF BackedInv, CoverNow
  <2> QED
    BY <1>2, <1>3, <2>2
<1> QED
  BY <1>5, <1>6, RestingBacked

LEMMA EnvironmentBacked ==
  ASSUME LocksInv, LocksInv', BackedInv, Environment
  PROVE  BackedInv'
<1>0. TypeOK /\ TypeOK' /\ Idle /\ Idle' /\ storage' = storage
  BY EnvironmentIs DEF LocksInv, FlowInv
<1>1. /\ bank \in BankType /\ bank.base[Vault] \in Nat /\ now \in Nat /\ donated \in Nat
      /\ Vault \in Accounts /\ \A t : Bound(locks, t) \in Nat
  BY <1>0, BackedTypes, TotalTypes, QueueType
<1>2. CASE NextBlock
  <2>1. UNCHANGED <<bank, locks, claims, donated>> /\ now' = now + 1
    BY <1>2 DEF NextBlock, lockupVars, claimsVars
  <2>2. now' >= now
    BY <1>1, <2>1
  <2> QED
    BY <1>0, <1>1, <2>1, <2>2, QuietBacked
<1>3. ASSUME NEW id \in DOMAIN locks, LockReturned(id)
      PROVE  BackedInv'
  <2>1. /\ locks' = WithoutLock(id) /\ UNCHANGED <<claims, donated, now>>
        /\ bank' = [bank EXCEPT !.base[Vault] = @ + locks[id].amount]
        /\ locks[id].endTime # NotUnlocking
    BY <1>3 DEF LockReturned, ReturnLock, IsMatured, IsUnlocking, claimsVars
  <2>2. bank'.base[Vault] = bank.base[Vault] + locks[id].amount
    BY <1>1, <2>1 DEF BankType
  <2>3. locks[id].amount \in Nat /\ Counts(locks[id], Ever)
    BY <1>0, <2>1, QueueType, LockTypes DEF Counts, Ever, NotUnlocking
  <2>4. \A t : /\ Bound(locks', t) \in Nat
               /\ Bound(locks, t) = Bound(locks', t)
                    + (IF Counts(locks[id], t) THEN locks[id].amount ELSE 0)
    BY <1>0, <2>1, BoundGone
  <2>5. \A t \in Nat : Bound(locks', t) <= Bound(locks, t)
    BY <1>1, <2>3, <2>4
  <2>6. Bound(locks, Ever) = Bound(locks', Ever) + locks[id].amount
        /\ Bound(locks', Ever) \in Nat
    BY <2>3, <2>4
  <2>7. (bank'.base[Vault] + Bound(locks', Ever)) + donated
          = (bank.base[Vault] + Bound(locks, Ever)) + donated'
    BY <1>1, <2>1, <2>2, <2>3, <2>6
  <2> QED
    BY <1>0, <1>1, <2>1, <2>5, <2>7, QuietBacked
<1>4. CASE RewardsDistributed
  <2>1. /\ UNCHANGED <<locks, claims, donated, now>>
        /\ bank' = [bank EXCEPT !.incentives = @ - 1, !.rewards = @ + 1]
    BY <1>4 DEF RewardsDistributed, lockupVars, claimsVars
  <2>2. bank'.base = bank.base
    BY <1>1, <2>1 DEF BankType
  <2> QED
    BY <1>0, <1>1, <2>1, <2>2, QuietBacked
<1>5. CASE SomeoneElseLocks
  <2>1. UNCHANGED <<bank, locks, claims, donated, now>>
    BY <1>5 DEF SomeoneElseLocks, ForeignLock, claimsVars
  <2> QED
    BY <1>0, <1>1, <2>1, QuietBacked
<1>6. ASSUME NEW user \in Users, NEW amount \in 1..bank.base[user], Donate(user, amount)
      PROVE  BackedInv'
  <2>1. /\ UNCHANGED <<locks, claims, now>> /\ donated' = donated + amount
        /\ bank' = [bank EXCEPT !.base[user] = @ - amount, !.base[Vault] = @ + amount]
    BY <1>6 DEF Donate, lockupVars, claimsVars
  <2>2. user \in Accounts /\ user # Vault /\ bank.base[user] \in Nat /\ amount \in Nat
    BY <1>1, OsmosisAssumption DEF BankType, Accounts
  <2>3. bank'.base[Vault] = bank.base[Vault] + amount
    BY <1>1, <2>1, <2>2 DEF BankType
  <2>4. (bank'.base[Vault] + Bound(locks', Ever)) + donated
          = (bank.base[Vault] + Bound(locks, Ever)) + donated'
    BY <1>1, <2>1, <2>2, <2>3
  <2> QED
    BY <1>0, <1>1, <2>1, <2>4, QuietBacked
<1> QED
  BY <1>2, <1>3, <1>4, <1>5, <1>6 DEF Environment

LEMMA StutterBacked ==
  ASSUME BackedInv, UNCHANGED vars
  PROVE  BackedInv'
<1>1. UNCHANGED <<storage, bank, locks, claims, pendingClaim, now, donated, queue, saved>>
  BY DEF vars, lockupVars, claimsVars
<1>2. /\ Doing' = Doing /\ Idle' = Idle /\ Ever' = Ever
      /\ \A kind : Ends(kind)' <=> Ends(kind)
  BY <1>1 DEF Doing, Idle, Ends, LastOf, Ever
<1>3. /\ Held' = Held /\ InFlight' = InFlight /\ Undone' = Undone /\ (CanGoOn' <=> CanGoOn)
      /\ \A t : Promised(t)' = Promised(t)
  BY <1>1, <1>2 DEF Held, InFlight, Undone, CanGoOn, Promised, Redeemed, LastOf, Rest, Counts
<1>4. /\ \A t : Bound(locks, t)' = Bound(locks, t) /\ Owed(claims, t)' = Owed(claims, t)
      /\ \A t : /\ Bound(saved.locks, t)' = Bound(saved.locks, t)
                /\ Owed(saved.claims, t)' = Owed(saved.claims, t)
  BY <1>1, SumsAtNext
<1>5. (~Idle => Balanced(saved) /\ Covered(saved))'
  BY <1>1, <1>2, <1>4 DEF BackedInv, Balanced, Covered
<1>6. BalanceNow'
  BY <1>1, <1>2, <1>3, <1>4 DEF BackedInv, BalanceNow
<1>7. CoverNow'
  BY <1>1, <1>2, <1>3, <1>4 DEF BackedInv, CoverNow
<1> QED
  BY <1>5, <1>6, <1>7 DEF BackedInv

LEMMA BackedInit == Init => BackedInv
<1> SUFFICES ASSUME Init PROVE BackedInv
  OBVIOUS
<1>1. LocksInv /\ Idle
  BY LocksInit DEF Init, Idle
<1>2. /\ Held = bank.base[Vault] /\ InFlight = 0 /\ Undone = 0
      /\ CanGoOn /\ \A t : Promised(t) = 0
  BY <1>1, TermsAtRest
<1>3. DOMAIN locks = {} /\ DOMAIN claims = {} /\ storage.totalStaked = 0
      /\ storage.durationCounter = 0
  BY DEF Init, LockupInit, ClaimsInit
<1>4. bank.base[Vault] = Float /\ donated = Float /\ Float \in Nat
  BY OsmosisAssumption DEF Init, Accounts
<1>5. \A t : Bound(locks, t) = 0 /\ Owed(claims, t) = 0
  BY <1>3, SumStep, FS_EmptySet DEF Bound, Owed
<1>6. BalanceNow
  BY <1>2, <1>3, <1>4, <1>5 DEF BalanceNow
<1>7. CoverNow
  BY <1>2, <1>3, <1>5 DEF CoverNow
<1> QED
  BY <1>1, <1>6, <1>7 DEF BackedInv

LEMMA MessageBacked ==
  ASSUME LocksInv, LocksInv', TotalInv, BackedInv, HandleMessage
  PROVE  BackedInv'
<1>1. CASE HandleLockTokens
  <2>1. Doing \in {"LockTokens", "LockDummy"}
    BY <1>1, LockIs DEF LocksInv, FlowInv
  <2> QED
    BY <1>1, <2>1, LockStakeBacked, LockDummyBacked
<1>2. CASE FailedMessage
  BY <1>2, RevertBacked DEF FailedMessage
<1> QED
  BY <1>1, <1>2, RewardsBacked, StakeBacked, CallbackMintBacked, UnlockBacked,
     SaveClaimBacked, MintBacked, BurnBacked, SendBacked, SendToSelfBacked,
     BeginUnlockingBacked, ForceUnlockBacked
  DEF HandleMessage

LEMMA UserBacked ==
  ASSUME LocksInv, LocksInv', TotalInv, BackedInv, UserTx
  PROVE  BackedInv'
<1>0. /\ \A user \in Users : {user} \cup Recipients \subseteq Accounts
      /\ \A user \in Users : 1..bank.base[user] \subseteq Nat /\ 1..bank.shares[user] \subseteq Nat
      /\ \A id \in DOMAIN claims : 0..claims[id].amount \subseteq Nat
  BY ConstantTypes
<1>1. CASE \E user \in Users : \E recipient \in {user} \cup Recipients :
             \E amount \in 1..bank.base[user] : ExecuteDeposit(user, amount, recipient)
  BY <1>0, <1>1, DepositBacked
<1>2. CASE \E user \in Users : \E recipient \in {user} \cup Recipients :
             \E id \in DOMAIN claims : ExecuteWithdrawUnlocked(user, id, recipient)
  BY <1>0, <1>2, WithdrawBacked
<1>3. CASE \E user \in Users : \E recipient \in {user} \cup Recipients :
             \E vaultTokens \in 1..bank.shares[user] :
               ExecuteForceRedeem(user, vaultTokens, recipient)
  BY <1>0, <1>3, ForceRedeemBacked
<1>4. CASE \E user \in Users : \E recipient \in {user} \cup Recipients :
             \E id \in DOMAIN claims : \E amount \in 0..claims[id].amount :
               ExecuteForceWithdrawUnlocking(user, id, amount, recipient)
  BY <1>0, <1>4, ForceWithdrawBacked
<1>5. CASE \E user \in Users : \E vaultTokens \in 1..bank.shares[user] :
             ExecuteUnlock(user, vaultTokens)
  BY <1>0, <1>5, ExecuteUnlockBacked
<1> QED
  BY <1>1, <1>2, <1>3, <1>4, <1>5 DEF UserTx

LEMMA BackedNext ==
  ASSUME LocksInv, LocksInv', TotalInv, BackedInv, [Next]_vars
  PROVE  BackedInv'
<1>1. CASE ExternalFailure
  BY <1>1, RevertBacked DEF ExternalFailure, Handles
<1> QED
  BY <1>1, MessageBacked, UserBacked, EnvironmentBacked, StutterBacked DEF Next

LEMMA BackedInvariant == Spec => [](LocksInv /\ BackedInv)
<1>1. Init => BackedInv
  BY BackedInit
<1>2. LocksInv /\ LocksInv' /\ TotalInv /\ BackedInv /\ [Next]_vars => BackedInv'
  BY BackedNext
<1> QED
  BY <1>1, <1>2, TotalInvariant, PTL DEF Spec

----------------------------------------------------------------------------
(* Between transactions: what is locked, by kind.                          *)
LEMMA LocksByKind ==
  ASSUME LocksInv, Idle, NEW f, \A id \in DOMAIN locks : f[id] \in Nat
  PROVE  /\ SumOver(f, Active(locks)) \in Nat
         /\ SumOver(f, UnlockingLocks) \in Nat /\ SumOver(f, DummyLocks) \in Nat
         /\ SumOver(f, DOMAIN locks)
              = (SumOver(f, Active(locks)) + SumOver(f, UnlockingLocks))
                  + SumOver(f, DummyLocks)
<1> DEFINE active == Active(locks)
           leaving == UnlockingLocks
           dummy == DummyLocks
<1>1. /\ DummiesUpTo(locks, storage.durationCounter) /\ TypeOK
  BY AtRest
<1>2. IsFiniteSet(DOMAIN locks)
  BY <1>1, QueueType, FiniteTables
<1>3. /\ active \subseteq DOMAIN locks /\ leaving \subseteq DOMAIN locks
      /\ dummy \subseteq DOMAIN locks
      /\ active \cap leaving = {} /\ (active \cup leaving) \cap dummy = {}
      /\ (active \cup leaving) \cup dummy = DOMAIN locks
  BY <1>1 DEF Active, UnlockingLocks, IsUnlocking, DummyLocks, OwnLocks, DummiesUpTo, Dummies
<1> HIDE DEF active, leaving, dummy
<1>4. /\ IsFiniteSet(active) /\ IsFiniteSet(leaving) /\ IsFiniteSet(dummy)
      /\ IsFiniteSet(active \cup leaving)
  BY <1>2, <1>3, FS_Subset, active \cup leaving \subseteq DOMAIN locks
<1>5. /\ \A id \in active : f[id] \in Nat
      /\ \A id \in leaving : f[id] \in Nat
      /\ \A id \in dummy : f[id] \in Nat
      /\ \A id \in active \cup leaving : f[id] \in Nat
      /\ \A id \in (active \cup leaving) \cup dummy : f[id] \in Nat
  BY <1>3
<1>6. SumOver(f, active \cup leaving) = SumOver(f, active) + SumOver(f, leaving)
  BY <1>3, <1>4, <1>5, SumJoin
<1>7. SumOver(f, (active \cup leaving) \cup dummy)
        = SumOver(f, active \cup leaving) + SumOver(f, dummy)
  BY <1>3, <1>4, <1>5, SumJoin
<1>8. /\ SumOver(f, active) \in Nat /\ SumOver(f, leaving) \in Nat /\ SumOver(f, dummy) \in Nat
  BY <1>4, <1>5, SumType
<1>9. SumOver(f, DOMAIN locks)
        = (SumOver(f, active) + SumOver(f, leaving)) + SumOver(f, dummy)
  BY <1>3, <1>6, <1>7
<1> QED
  BY <1>8, <1>9 DEF active, leaving, dummy

(* All that counts from the beginning of time on: the whole lockup.        *)
LEMMA AllBound ==
  ASSUME LocksInv, Idle
  PROVE  /\ LockedIn(UnlockingLocks) \in Nat /\ LockedIn(DummyLocks) \in Nat
         /\ Bound(locks, Ever)
              = (storage.totalStaked + LockedIn(UnlockingLocks)) + LockedIn(DummyLocks)
<1> DEFINE f == [id \in DOMAIN locks |-> locks[id].amount]
           g == [id \in DOMAIN locks |-> IF Counts(locks[id], Ever) THEN locks[id].amount ELSE 0]
<1>1. TypeOK /\ Staked(locks, storage.lockId, storage.totalStaked)
      /\ storage.totalStaked \in Nat
  BY AtRest, BackedTypes DEF AtCalm, Resting
<1>2. \A id \in DOMAIN locks : locks[id].amount \in Nat /\ Counts(locks[id], Ever)
  BY <1>1, QueueType, LockTypes DEF Counts, Ever, NotUnlocking
<1>3. \A id \in DOMAIN locks : f[id] \in Nat /\ f[id] = locks[id].amount /\ g[id] = f[id]
  BY <1>2
<1>4. /\ \A S : LockedIn(S) = SumOver(f, S)
      /\ Bound(locks, Ever) = SumOver(g, DOMAIN locks)
  BY DEF LockedIn, Bound
<1>5. IsFiniteSet(DOMAIN locks)
  BY <1>1, QueueType, FiniteTables
<1> HIDE DEF f, g
<1>6. SumOver(g, DOMAIN locks) = SumOver(f, DOMAIN locks)
  BY <1>3, <1>5, SumAgrees
<1>7. SumOver(f, Active(locks)) = storage.totalStaked
  <2>1. CASE storage.totalStaked = 0
    BY <1>1, <2>1, SumStep, FS_EmptySet DEF Staked
  <2>2. CASE storage.totalStaked # 0
    <3> DEFINE id == storage.lockId
    <3>1. Active(locks) = {id} /\ locks[id].amount = storage.totalStaked
      BY <1>1, <2>2 DEF Staked
    <3>2. id \in DOMAIN locks
      BY <3>1 DEF Active
    <3>3. f[id] \in Nat /\ f[id] = storage.totalStaked
      BY <1>3, <3>1, <3>2
    <3> HIDE DEF id
    <3>4. SumOver(f, {}) = 0
      BY SumStep, FS_EmptySet
    <3>5. IsFiniteSet({id}) /\ \A i \in {id} : f[i] \in Nat
      BY <3>3, FS_Singleton
    <3>6. SumOver(f, {id}) = f[id] + SumOver(f, {id} \ {id})
      BY <3>5, SumRemove, id \in {id}
    <3>7. SumOver(f, {id} \ {id}) = 0
      BY <3>4, {id} \ {id} = {}
    <3> QED
      BY <1>1, <3>1, <3>3, <3>6, <3>7
  <2> QED
    BY <2>1, <2>2
<1>8. /\ SumOver(f, UnlockingLocks) \in Nat /\ SumOver(f, DummyLocks) \in Nat
      /\ SumOver(f, DOMAIN locks)
              = (SumOver(f, Active(locks)) + SumOver(f, UnlockingLocks))
                  + SumOver(f, DummyLocks)
  BY <1>3, LocksByKind
<1> QED
  BY <1>4, <1>6, <1>7, <1>8

(* And from now on, when no lock is matured: all but the stake.            *)
LEMMA AllBoundNow ==
  ASSUME LocksInv, Idle, \A id \in DOMAIN locks : ~IsMatured(id, now)
  PROVE  Bound(locks, now) = LockedIn(UnlockingLocks) + LockedIn(DummyLocks)
<1> DEFINE f == [id \in DOMAIN locks |-> locks[id].amount]
           g == [id \in DOMAIN locks |-> IF Counts(locks[id], now) THEN locks[id].amount ELSE 0]
<1>1. TypeOK /\ now \in Nat
  BY AtRest, BackedTypes
<1>2. \A id \in DOMAIN locks : /\ locks[id].amount \in Nat
                               /\ locks[id].endTime \in Nat \cup {NotUnlocking}
  BY <1>1, QueueType, LockTypes
<1>3. /\ \A id \in UnlockingLocks : id \in DOMAIN locks /\ Counts(locks[id], now)
      /\ \A id \in DummyLocks : id \in DOMAIN locks /\ Counts(locks[id], now)
      /\ \A id \in Active(locks) : id \in DOMAIN locks /\ ~Counts(locks[id], now)
  BY <1>1, <1>2
  DEF UnlockingLocks, IsUnlocking, IsMatured, DummyLocks, OwnLocks, Active, Counts,
      NotUnlocking
<1>4. /\ \A id \in DOMAIN locks : g[id] \in Nat
      /\ \A id \in UnlockingLocks : g[id] = f[id]
      /\ \A id \in DummyLocks : g[id] = f[id]
      /\ \A id \in Active(locks) : g[id] = 0
  BY <1>2, <1>3
<1>5. /\ \A S : LockedIn(S) = SumOver(f, S)
      /\ Bound(locks, now) = SumOver(g, DOMAIN locks)
  BY DEF LockedIn, Bound
<1>6. IsFiniteSet(UnlockingLocks) /\ IsFiniteSet(DummyLocks) /\ IsFiniteSet(Active(locks))
  <2>1. IsFiniteSet(DOMAIN locks)
    BY <1>1, QueueType, FiniteTables
  <2> QED
    BY <2>1, FS_Subset DEF UnlockingLocks, DummyLocks, Active
<1> HIDE DEF f, g
<1>7. /\ SumOver(g, UnlockingLocks) = SumOver(f, UnlockingLocks)
      /\ SumOver(g, DummyLocks) = SumOver(f, DummyLocks)
  BY <1>4, <1>6, SumAgrees
<1>8. SumOver(g, Active(locks)) = 0
  BY <1>4, <1>6, SumOfZeros
<1>9. /\ SumOver(g, UnlockingLocks) \in Nat /\ SumOver(g, DummyLocks) \in Nat
      /\ SumOver(g, DOMAIN locks)
              = (SumOver(g, Active(locks)) + SumOver(g, UnlockingLocks))
                  + SumOver(g, DummyLocks)
  BY <1>4, LocksByKind
<1> QED
  BY <1>5, <1>7, <1>8, <1>9

(* What is owed, now or later.                                             *)
LEMMA AllOwed ==
  ASSUME LocksInv
  PROVE  /\ ClaimedIn(DOMAIN claims) = Owed(claims, Ever)
         /\ ClaimedIn(MaturedClaims) \in Nat
         /\ ClaimedIn(DOMAIN claims) = ClaimedIn(MaturedClaims) + Owed(claims, now)
<1> DEFINE f == [id \in DOMAIN claims |-> claims[id].amount]
           ever == [id \in DOMAIN claims |-> Rest(claims[id], Ever)]
           later == [id \in DOMAIN claims |-> Rest(claims[id], now)]
           due == MaturedClaims
           open == DOMAIN claims \ MaturedClaims
<1>1. IsClaimMap(claims) /\ IsFiniteSet(DOMAIN claims) /\ now \in Nat
  BY QueueType, ClaimsAreFinite, BackedTypes DEF LocksInv, FlowInv
<1>2. \A id \in DOMAIN claims : claims[id].amount \in Nat /\ claims[id].releaseAt \in Nat
  BY <1>1 DEF IsClaimMap, Claim
<1>3. /\ \A id \in DOMAIN claims : f[id] \in Nat /\ later[id] \in Nat /\ ever[id] = f[id]
      /\ \A id \in due : later[id] = 0
      /\ \A id \in open : later[id] = f[id]
  BY <1>1, <1>2 DEF Rest, Ever, NotUnlocking, MaturedClaims, IsExpired
<1>4. /\ \A S : ClaimedIn(S) = SumOver(f, S)
      /\ Owed(claims, Ever) = SumOver(ever, DOMAIN claims)
      /\ Owed(claims, now) = SumOver(later, DOMAIN claims)
  BY DEF ClaimedIn, Owed
<1>5. due \cap open = {} /\ due \cup open = DOMAIN claims
      /\ due \subseteq DOMAIN claims /\ open \subseteq DOMAIN claims
  BY DEF MaturedClaims
<1>6. IsFiniteSet(due) /\ IsFiniteSet(open)
  BY <1>1, <1>5, FS_Subset
<1> HIDE DEF f, ever, later, open
<1>7. SumOver(ever, DOMAIN claims) = SumOver(f, DOMAIN claims)
  BY <1>1, <1>3, SumAgrees
<1>8. /\ SumOver(f, due \cup open) = SumOver(f, due) + SumOver(f, open)
      /\ SumOver(later, due \cup open) = SumOver(later, due) + SumOver(later, open)
  BY <1>3, <1>5, <1>6, SumJoin
<1>9. SumOver(later, due) = 0 /\ SumOver(later, open) = SumOver(f, open)
  BY <1>3, <1>6, SumOfZeros, SumAgrees
<1>10. SumOver(f, due) \in Nat /\ SumOver(f, open) \in Nat
  BY <1>3, <1>5, <1>6, SumType
<1> QED
  BY <1>4, <1>5, <1>7, <1>8, <1>9, <1>10

(* Between transactions every base token outside the stake is accounted    *)
(* for: it was given to the vault or is owed on a claim (execute_unlock,   *)
(* execute_withdraw_unlocked and the staking callback, which leaves what   *)
(* is owed on the account).                                                *)
THEOREM ClaimsBacked == Spec => []ClaimsAreBacked
<1>1. LocksInv /\ BackedInv => ClaimsAreBacked
  <2> SUFFICES ASSUME LocksInv, BackedInv, Idle
               PROVE  bank.base[Vault] + LockedIn(UnlockingLocks) + LockedIn(DummyLocks)
                        = donated + ClaimedIn(DOMAIN claims)
    BY DEF ClaimsAreBacked
  <2>1. bank.base[Vault] + Bound(locks, Ever)
          = donated + Owed(claims, Ever) + storage.totalStaked + 0
    BY TermsAtRest DEF BackedInv, BalanceNow
  <2>2. /\ bank.base[Vault] \in Nat /\ donated \in Nat /\ storage.totalStaked \in Nat
        /\ Owed(claims, Ever) \in Nat
    BY TermsAtRest, BackedTypes
  <2>3. /\ LockedIn(UnlockingLocks) \in Nat /\ LockedIn(DummyLocks) \in Nat
        /\ Bound(locks, Ever)
              = (storage.totalStaked + LockedIn(UnlockingLocks)) + LockedIn(DummyLocks)
        /\ ClaimedIn(DOMAIN claims) = Owed(claims, Ever)
    BY AllBound, AllOwed
  <2> QED
    BY <2>1, <2>2, <2>3
<1> QED
  BY <1>1, BackedInvariant, PTL

(* Once the matured locks are returned, every matured claim can be paid    *)
(* from the vault's balance, if the vault was given a base token for every *)
(* unlock (execute_unlock locks one, execute_withdraw_unlocked pays).      *)
THEOREM MaturedClaimsCovered == Spec => []MaturedClaimsPayable
<1>1. LocksInv /\ BackedInv => MaturedClaimsPayable
  <2> SUFFICES ASSUME LocksInv, BackedInv, Idle, storage.durationCounter <= donated,
                      \A id \in DOMAIN locks : ~IsMatured(id, now)
               PROVE  bank.base[Vault] >= ClaimedIn(MaturedClaims)
    BY DEF MaturedClaimsPayable, CanPayMaturedClaims
  <2>1. bank.base[Vault] + Bound(locks, Ever)
          = donated + Owed(claims, Ever) + storage.totalStaked + 0
    BY TermsAtRest DEF BackedInv, BalanceNow
  <2>2. Bound(locks, now) + 0 <= storage.durationCounter + Owed(claims, now) + 0
    BY TermsAtRest, BackedTypes, now >= now DEF BackedInv, CoverNow
  <2>3. /\ bank.base[Vault] \in Nat /\ donated \in Nat /\ storage.totalStaked \in Nat
        /\ storage.durationCounter \in Nat
        /\ Owed(claims, Ever) \in Nat /\ Owed(claims, now) \in Nat
    BY TermsAtRest, BackedTypes
  <2>4. bank.base[Vault] + Bound(locks, now) = donated + Owed(claims, Ever)
    BY <2>1, <2>3, AllBound, AllBoundNow
  <2>5. Owed(claims, Ever) = ClaimedIn(MaturedClaims) + Owed(claims, now)
        /\ ClaimedIn(MaturedClaims) \in Nat
    BY AllOwed
  <2>6. Bound(locks, now) \in Nat
    BY BackedTypes
  <2> QED
    BY <2>2, <2>3, <2>4, <2>5, <2>6
<1> QED
  BY <1>1, BackedInvariant, PTL
============================================================================
