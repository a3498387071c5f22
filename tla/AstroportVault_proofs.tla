----------------------- MODULE AstroportVault_proofs -----------------------
(* The message-level Astroport vault, for any number of users and assets,  *)
(* any configs and any history of the rewards: type correctness first.     *)
EXTENDS AstroportVault, VaultMath_proofs, SequenceTheorems

----------------------------------------------------------------------------
(* The constants.                                                          *)
LEMMA ConstantTypes ==
  /\ VaultTokensPerBaseToken \in Nat \ {0} /\ MaxUint128 \in Nat
  /\ DecimalOne \in Nat \ {0}
  /\ Float \in Nat /\ UserBase \in Nat /\ Incentives \in Nat
  /\ Vault \in Accounts /\ Vault \notin Users /\ Users \subseteq Accounts
  /\ Recipients \subseteq Accounts /\ RewardTokens \subseteq Assets
  /\ BaseToken \in Assets
  /\ PoolAssets \subseteq Assets /\ OtherAssets \subseteq Assets
  /\ BaseToken \notin OtherAssets
  /\ BaseToken \notin PoolAssets /\ PoolAssets \cap OtherAssets = {}
  BY VaultMathAssumption, CompoundingAssumption, AstroportAssumption
  DEF VaultMathAssumption, CompoundingAssumption, AstroportAssumption,
      Accounts, Assets

LEMMA FiniteSets == IsFiniteSet(Accounts) /\ IsFiniteSet(Assets)
<1>1. IsFiniteSet({Vault}) /\ IsFiniteSet({BaseToken})
  BY FS_Singleton
<1>2. IsFiniteSet(Users) /\ IsFiniteSet(PoolAssets) /\ IsFiniteSet(OtherAssets)
  BY AstroportAssumption, CompoundingAssumption
  DEF AstroportAssumption, CompoundingAssumption
<1>3. IsFiniteSet({BaseToken} \cup PoolAssets)
  BY <1>1, <1>2, FS_Union
<1> QED
  BY <1>1, <1>2, <1>3, FS_Union DEF Accounts, Assets

LEMMA NothingType == Nothing \in Amounts
  BY DEF Nothing, Amounts

LEMMA TotalType ==
  ASSUME NEW amounts \in Amounts
  PROVE  Total(amounts) \in Nat
  BY FiniteSets, SumType, \A a \in Assets : amounts[a] \in Nat DEF Total, Amounts

----------------------------------------------------------------------------
(* What the callbacks take from the balances.                              *)
LEMMA ConfigType ==
  ASSUME NEW c \in Configs
  PROVE  /\ c.performanceFee \in 0..DecimalOne /\ c.rewardAssets \in Seq(Assets)
         /\ c.rewardLiquidationTarget \in Assets
  BY CompoundingAssumption DEF CompoundingAssumption, Config

LEMMA ListedType ==
  ASSUME config \in Configs, NEW a \in Assets
  PROVE  /\ Listed(a) \in Nat
         /\ Listed(a) > 0 <=> \E i \in DOMAIN config.rewardAssets : config.rewardAssets[i] = a
<1> DEFINE places == {i \in DOMAIN config.rewardAssets : config.rewardAssets[i] = a}
           n == Len(config.rewardAssets)
<1>1. n \in Nat /\ DOMAIN config.rewardAssets = 1..n
  BY ConfigType, LenProperties
<1>2. IsFiniteSet(1..n)
  BY <1>1, FS_Interval
<1>3. IsFiniteSet(places)
  BY <1>1, <1>2, FS_Subset, places \in SUBSET (1..n)
<1>4. Cardinality(places) \in Nat /\ (Cardinality(places) = 0 <=> places = {})
  BY <1>3, FS_CardinalityType, FS_EmptySet
<1>5. Listed(a) = Cardinality(places)
  BY DEF Listed
<1> QED
  BY <1>4, <1>5

LEMMA AfterFeeType ==
  ASSUME config \in Configs, holds \in Amounts, NEW a \in Assets
  PROVE  AfterFee(a) \in 0..holds[a]
  BY ConfigType, FeeWithinBalance, holds[a] \in Nat DEF AfterFee, Amounts

LEMMA BasketsType ==
  ASSUME CompoundingTypeOK
  PROVE  FeeToTreasury \in Amounts /\ ToSell \in Amounts /\ ToProvide \in Amounts
<1>1. ASSUME NEW a \in Assets
      PROVE  /\ Listed(a) * (holds[a] - AfterFee(a)) \in Nat
             /\ Listed(a) * AfterFee(a) \in Nat
             /\ holds[a] \in Nat
  <2>1. /\ Listed(a) \in Nat /\ AfterFee(a) \in Nat /\ holds[a] \in Nat
        /\ holds[a] - AfterFee(a) \in Nat
    BY ListedType, AfterFeeType DEF CompoundingTypeOK, Amounts
  <2> QED
    BY <2>1, Z3
<1> QED
  BY <1>1, Zenon DEF FeeToTreasury, ToSell, ToProvide, Amounts

LEMMA FeeOnType ==
  ASSUME config \in Configs, NEW amount \in Nat
  PROVE  FeeOn(amount) \in Nat
<1> DEFINE fee == config.performanceFee
           n == amount * fee + DecimalOne - 1
<1>1. fee \in Nat /\ DecimalOne \in Nat \ {0}
  BY ConfigType, ConstantTypes
<1>2. amount * fee \in Nat
  BY <1>1
<1>3. n \in Nat
  BY <1>1, <1>2
<1>4. FeeOn(amount) = n \div DecimalOne
  BY DEF FeeOn
<1> HIDE DEF n
<1>5. n \div DecimalOne \in Nat
  BY <1>1, <1>3, Z3
<1> QED
  BY <1>4, <1>5

----------------------------------------------------------------------------
(* The assets: every message keeps their types.                            *)
LEMMA RewardsCountedType ==
  ASSUME CompoundingTypeOK, RewardsCounted
  PROVE  CompoundingTypeOK'
<1>1. ASSUME NEW a \in Assets
      PROVE  due[a] \in Nat /\ fresh[a] \in Nat /\ FeeOn(fresh[a]) \in Nat
  BY FeeOnType DEF CompoundingTypeOK, Amounts
<1>2. ASSUME NEW a \in Assets
      PROVE  due[a] + FeeOn(fresh[a]) \in Nat
  BY <1>1
<1>3. due' \in Amounts /\ fresh' \in Amounts
  BY <1>1, <1>2 DEF RewardsCounted, Amounts
<1> QED
  BY <1>3 DEF CompoundingTypeOK, RewardsCounted, Amounts

LEMMA SpendAndGetType ==
  ASSUME holds \in Amounts, NEW amounts \in Amounts, NEW asset, NEW out \in Nat,
         SpendAndGet(amounts, asset, out)
  PROVE  holds' \in Amounts
<1>1. ASSUME NEW a \in Assets
      PROVE  holds[a] - amounts[a] + (IF a = asset THEN out ELSE 0) \in Nat
  BY DEF SpendAndGet, CanSpend, Amounts
<1> QED
  BY <1>1 DEF SpendAndGet, Amounts

LEMMA PayTreasuryType ==
  ASSUME CompoundingTypeOK, NEW amounts \in Amounts, PayTreasury(amounts)
  PROVE  CompoundingTypeOK'
<1>1. holds' \in Amounts
  BY SpendAndGetType, 0 \in Nat DEF PayTreasury, CompoundingTypeOK
<1>2. treasury' \in Amounts
  <2>1. \A a \in Assets : treasury[a] + amounts[a] \in Nat
    BY DEF CompoundingTypeOK, Amounts
  <2> QED
    BY <2>1 DEF PayTreasury, Amounts
<1> QED
  BY <1>1, <1>2 DEF PayTreasury, CompoundingTypeOK, Amounts

(* What the router does to the balances and to the history.                *)
LEMMA SwapBasketIs ==
  ASSUME config \in Configs, fresh \in Amounts, NEW amounts \in Amounts,
         SwapBasket(amounts)
  PROVE  \E target \in Assets, out \in Nat :
           /\ SpendAndGet(amounts, target, out)
           /\ fresh' \in Amounts
           /\ \A a \in Assets :
                 fresh'[a] = fresh[a] + (IF a = target /\ IsSold(a) THEN out ELSE 0)
           /\ UNCHANGED <<config, treasury, due>>
<1> DEFINE target == config.rewardLiquidationTarget
<1>1. PICK out \in 1..Total(amounts) :
         /\ SpendAndGet(amounts, target, out)
         /\ fresh' = IF IsSold(target) THEN [fresh EXCEPT ![target] = @ + out]
                                       ELSE fresh
  BY DEF SwapBasket
<1>2. target \in Assets /\ out \in Nat
  BY ConfigType, TotalType
<1>3. UNCHANGED <<config, treasury, due>>
  BY DEF SwapBasket
<1> HIDE DEF target
<1>4. \A a \in Assets : fresh[a] \in Nat
  BY DEF Amounts
<1>5. /\ fresh' \in Amounts
      /\ \A a \in Assets :
            fresh'[a] = fresh[a] + (IF a = target /\ IsSold(a) THEN out ELSE 0)
  <2>1. CASE IsSold(target)
    <3> DEFINE more == fresh[target] + out
    <3>1. fresh' = [fresh EXCEPT ![target] = more] /\ more \in Nat
      BY <1>1, <1>2, <1>4, <2>1
    <3> HIDE DEF more
    <3>2. /\ fresh' \in Amounts /\ fresh'[target] = more
          /\ \A a \in Assets : a # target => fresh'[a] = fresh[a]
      BY <1>2, <3>1 DEF Amounts
    <3>3. more = fresh[target] + out
      BY DEF more
    <3> QED
      BY <1>2, <1>4, <2>1, <3>2, <3>3
  <2>2. CASE ~IsSold(target)
    BY <1>1, <1>4, <2>2
  <2> QED
    BY <2>1, <2>2
<1> QED
  BY <1>1, <1>2, <1>3, <1>5

LEMMA SwapBasketType ==
  ASSUME CompoundingTypeOK, NEW amounts \in Amounts, SwapBasket(amounts)
  PROVE  CompoundingTypeOK'
<1>1. config \in Configs /\ fresh \in Amounts /\ holds \in Amounts
  BY DEF CompoundingTypeOK
<1>2. PICK target \in Assets, out \in Nat :
         /\ SpendAndGet(amounts, target, out) /\ fresh' \in Amounts
         /\ UNCHANGED <<config, treasury, due>>
  BY <1>1, SwapBasketIs
<1>3. holds' \in Amounts
  BY <1>1, <1>2, SpendAndGetType
<1> QED
  BY <1>2, <1>3 DEF CompoundingTypeOK, Amounts

(* What the liquidity helper takes of the assets it was sent.              *)
LEMMA JoinPoolSpends ==
  ASSUME NEW amounts \in Amounts, JoinPool(amounts)
  PROVE  \E taken \in Amounts, out \in Nat \ {0} :
           /\ SpendAndGet(taken, BaseToken, out)
           /\ \A a \in Assets : a \notin PoolAssets => taken[a] = amounts[a]
           /\ \A a \in Assets : taken[a] <= amounts[a]
<1>0. PICK asset \in PoolAssets :
         \E left \in 0..amounts[asset] :
           \E out \in 1..(Total(amounts) - left) :
             SpendAndGet([amounts EXCEPT ![asset] = @ - left], BaseToken, out)
  BY DEF JoinPool
<1>1. PICK left \in 0..amounts[asset] :
         \E out \in 1..(Total(amounts) - left) :
           SpendAndGet([amounts EXCEPT ![asset] = @ - left], BaseToken, out)
  BY <1>0
<1>2. PICK out \in 1..(Total(amounts) - left) :
         SpendAndGet([amounts EXCEPT ![asset] = @ - left], BaseToken, out)
  BY <1>1
<1> DEFINE some == amounts[asset] - left
           taken == [amounts EXCEPT ![asset] = some]
<1>3. asset \in Assets /\ \A a \in Assets : amounts[a] \in Nat
  BY ConstantTypes DEF Amounts
<1>4. some \in Nat /\ some <= amounts[asset]
  BY <1>3
<1>5. out \in Nat \ {0}
  BY TotalType
<1>6. SpendAndGet(taken, BaseToken, out)
  BY <1>2
<1> HIDE DEF some
<1>7. /\ taken \in Amounts /\ taken[asset] = some
      /\ \A a \in Assets : a # asset => taken[a] = amounts[a]
  BY <1>3, <1>4 DEF Amounts
<1> HIDE DEF taken
<1>8. \A a \in Assets : taken[a] <= amounts[a]
  BY <1>3, <1>4, <1>7
<1> QED
  BY <1>5, <1>6, <1>7, <1>8

LEMMA JoinPoolType ==
  ASSUME CompoundingTypeOK, NEW amounts \in Amounts, JoinPool(amounts)
  PROVE  CompoundingTypeOK'
<1>1. holds' \in Amounts
  BY JoinPoolSpends, SpendAndGetType DEF CompoundingTypeOK
<1> QED
  BY <1>1 DEF JoinPool, CompoundingTypeOK, Amounts

LEMMA RewardsArriveType ==
  ASSUME CompoundingTypeOK, NEW amounts \in Amounts, RewardsArrive(amounts)
  PROVE  CompoundingTypeOK'
<1>1. \A a \in Assets : holds[a] + amounts[a] \in Nat /\ fresh[a] + amounts[a] \in Nat
  BY DEF CompoundingTypeOK, Amounts
<1>2. holds' \in Amounts /\ fresh' \in Amounts
  BY <1>1 DEF RewardsArrive, Amounts
<1> QED
  BY <1>2 DEF RewardsArrive, CompoundingTypeOK, Amounts

LEMMA MoveBaseTokensType ==
  ASSUME CompoundingTypeOK, NEW amount \in Int, holds[BaseToken] + amount \in Nat,
         MoveBaseTokens(amount)
  PROVE  /\ CompoundingTypeOK'
         /\ holds'[BaseToken] = holds[BaseToken] + amount
         /\ \A a \in Assets : a # BaseToken => holds'[a] = holds[a]
<1> DEFINE total == holds[BaseToken] + amount
<1>1. holds' = [holds EXCEPT ![BaseToken] = total] /\ BaseToken \in Assets
  BY ConstantTypes DEF MoveBaseTokens
<1>2. total \in Nat
  OBVIOUS
<1>4. total = holds[BaseToken] + amount
  OBVIOUS
<1> HIDE DEF total
<1>3. /\ holds' \in Amounts /\ holds'[BaseToken] = total
      /\ \A a \in Assets : a # BaseToken => holds'[a] = holds[a]
  BY <1>1, <1>2 DEF CompoundingTypeOK, Amounts
<1> QED
  BY <1>3, <1>4 DEF MoveBaseTokens, CompoundingTypeOK, Amounts

----------------------------------------------------------------------------
(* The shares.                                                             *)
LEMMA TransferType ==
  ASSUME cw20 \in Cw20Type, NEW from \in Accounts, NEW to \in Accounts, NEW amount,
         Transfer(from, to, amount)
  PROVE  /\ cw20' \in Cw20Type /\ amount \in Nat \ {0} /\ cw20'.supply = cw20.supply
         /\ amount <= cw20.balance[from]
         /\ LET sent == [cw20.balance EXCEPT ![from] = @ - amount]
            IN  cw20'.balance = [sent EXCEPT ![to] = @ + amount]
<1>1. /\ cw20.balance \in [Accounts -> Nat] /\ cw20.supply \in Nat
      /\ amount \in Nat \ {0} /\ amount <= cw20.balance[from]
  BY DEF Cw20Type, Transfer
<1> DEFINE rest == cw20.balance[from] - amount
           sent == [cw20.balance EXCEPT ![from] = rest]
           total == sent[to] + amount
           got == [sent EXCEPT ![to] = total]
<1>2. rest \in Nat
  BY <1>1
<1>3. cw20' = [cw20 EXCEPT !.balance = got]
  BY DEF Transfer
<1>6. LET paid == [cw20.balance EXCEPT ![from] = @ - amount]
      IN  got = [paid EXCEPT ![to] = @ + amount]
  OBVIOUS
<1> HIDE DEF rest
<1>4. sent \in [Accounts -> Nat]
  BY <1>1, <1>2
<1> HIDE DEF sent
<1>5. total \in Nat
  BY <1>1, <1>4
<1> HIDE DEF total
<1>7. got \in [Accounts -> Nat]
  BY <1>4, <1>5
<1>8. cw20' = [balance |-> got, supply |-> cw20.supply]
  BY <1>3 DEF Cw20Type
<1> HIDE DEF got
<1> QED
  BY <1>1, <1>6, <1>7, <1>8 DEF Cw20Type

(* Minting to an account, or burning from it.                              *)
LEMMA SupplyChangesType ==
  ASSUME cw20 \in Cw20Type, NEW account \in Accounts, NEW amount \in Int,
         cw20.balance[account] + amount \in Nat, cw20.supply + amount \in Nat,
         cw20' = [cw20 EXCEPT !.balance[account] = @ + amount,
                              !.supply = @ + amount]
  PROVE  /\ cw20' \in Cw20Type
         /\ cw20'.supply = cw20.supply + amount
         /\ cw20'.balance = [cw20.balance EXCEPT ![account] = @ + amount]
<1> DEFINE total == cw20.balance[account] + amount
           balance == [cw20.balance EXCEPT ![account] = total]
           supply == cw20.supply + amount
<1>1. cw20' = [balance |-> balance, supply |-> supply]
  BY DEF Cw20Type
<1>4. balance = [cw20.balance EXCEPT ![account] = @ + amount]
  OBVIOUS
<1>2. total \in Nat /\ supply \in Nat /\ supply = cw20.supply + amount
  OBVIOUS
<1> HIDE DEF total, supply
<1>3. balance \in [Accounts -> Nat]
  BY <1>2 DEF Cw20Type
<1> HIDE DEF balance
<1> QED
  BY <1>1, <1>2, <1>3, <1>4 DEF Cw20Type

LEMMA LpType ==
  ASSUME lp \in [Users -> Nat], NEW user, NEW total \in Nat,
         lp' = [lp EXCEPT ![user] = total]
  PROVE  lp' \in [Users -> Nat]
  OBVIOUS

----------------------------------------------------------------------------
(* The queue and the saved state, whatever the messages are.               *)
TxTypeOK ==
  /\ queue \in Seq(Message)
  /\ donated \in Nat
  /\ IF Idle THEN saved = NoTx ELSE SavedTypeOK

DataTypeOK ==
  /\ totalStaked \in Nat
  /\ cw20 \in Cw20Type
  /\ lp \in [Users -> Nat]
  /\ generator \in GeneratorType
  /\ CompoundingTypeOK

LEMMA TypePartsPrimed == (DataTypeOK /\ TxTypeOK)' => TypeOK'
  BY DEF TypeOK, DataTypeOK, TxTypeOK

LEMMA TypesAreFixed ==
  Cw20Type' = Cw20Type /\ GeneratorType' = GeneratorType /\ Amounts' = Amounts
  BY DEF Cw20Type, GeneratorType, Amounts, Accounts, Assets

LEMMA MessageIsFixed == Message' = Message
  BY DEF Message, Amounts, Assets

(* The head of the queue is a message, and the rest is a queue.            *)
LEMMA HeadAndTail ==
  ASSUME NEW S, queue \in Seq(S), ~Idle
  PROVE  /\ Head(queue) \in S
         /\ Head(queue) = queue[1]
         /\ Tail(queue) \in Seq(S)
         /\ Len(queue) \in Nat \ {0}
         /\ Len(Tail(queue)) = Len(queue) - 1
         /\ \A i \in 1..Len(Tail(queue)) : Tail(queue)[i] = queue[i + 1]
<1>1. queue # <<>>
  BY DEF Idle
<1>2. Len(queue) \in Nat \ {0}
  BY <1>1, LenProperties, EmptySeq
<1> QED
  BY <1>1, <1>2, HeadTailProperties

LEMMA ContinueIn ==
  ASSUME NEW S, queue \in Seq(S), ~Idle, NEW messages \in Seq(S), Continue(messages)
  PROVE  queue' \in Seq(S)
  BY HeadAndTail, ConcatProperties DEF Continue

LEMMA ContinueType ==
  ASSUME TypeOK, ~Idle, NEW messages \in Seq(Message), Continue(messages)
  PROVE  TxTypeOK'
<1>1. queue' \in Seq(Message)
  BY ContinueIn DEF TypeOK
<1>2. SavedTypeOK
  BY DEF TypeOK
<1>3. IF Idle' THEN saved' = NoTx ELSE saved' = saved
  BY DEF Continue, Idle
<1>4. Idle' \/ SavedTypeOK'
  BY <1>2, <1>3, TypesAreFixed DEF SavedTypeOK
<1> QED
  BY <1>1, <1>3, <1>4 DEF TxTypeOK, TypeOK, Continue

LEMMA DoneType ==
  ASSUME TypeOK, ~Idle, Continue(<<>>)
  PROVE  TxTypeOK'
  BY ContinueType, <<>> \in Seq(Message)

LEMMA BeginTxType ==
  ASSUME TypeOK, NEW messages \in Seq(Message), messages # <<>>, BeginTx(messages)
  PROVE  TxTypeOK'
<1>1. queue' \in Seq(Message) /\ ~Idle'
  BY DEF BeginTx, Idle
<1>2. saved' = Snapshot
  BY DEF BeginTx
<1>3. SavedTypeOK'
  BY <1>2, TypesAreFixed DEF TypeOK, CompoundingTypeOK, SavedTypeOK, Snapshot
<1> QED
  BY <1>1, <1>3 DEF TxTypeOK, TypeOK, BeginTx

LEMMA RevertType ==
  ASSUME TypeOK, ~Idle, Revert
  PROVE  TypeOK'
<1>1. SavedTypeOK
  BY DEF TypeOK
<1>2. TxTypeOK'
  BY EmptySeq DEF TypeOK, TxTypeOK, Revert, Idle
<1>3. DataTypeOK'
  BY <1>1, TypesAreFixed
  DEF TypeOK, DataTypeOK, CompoundingTypeOK, SavedTypeOK, Revert
<1> QED
  BY <1>2, <1>3, TypePartsPrimed

(* A step between transactions.                                            *)
LEMMA BetweenTxType ==
  ASSUME TypeOK, Idle, donated' \in Nat, UNCHANGED <<queue, saved>>
  PROVE  TxTypeOK'
  BY DEF TypeOK, TxTypeOK, Idle

LEMMA UnchangedParts ==
  ASSUME TypeOK
  PROVE  /\ UNCHANGED compoundingVars => CompoundingTypeOK'
         /\ UNCHANGED cw20 => cw20' \in Cw20Type
         /\ UNCHANGED generator => generator' \in GeneratorType
         /\ UNCHANGED lp => lp' \in [Users -> Nat]
         /\ UNCHANGED totalStaked => totalStaked' \in Nat
<1>1. UNCHANGED compoundingVars => CompoundingTypeOK'
  BY TypesAreFixed DEF TypeOK, CompoundingTypeOK, compoundingVars, assetVars
<1> QED
  BY <1>1 DEF TypeOK

(* The new state has the types if its parts have.                          *)
LEMMA NewParts ==
  ASSUME TxTypeOK', CompoundingTypeOK', cw20' \in Cw20Type,
         generator' \in GeneratorType, lp' \in [Users -> Nat], totalStaked' \in Nat
  PROVE  TypeOK'
  BY TypePartsPrimed, TypesAreFixed DEF DataTypeOK

LEMMA MessageFields ==
  ASSUME NEW m \in Message
  PROVE  /\ m.type \in {"Stake", "ToGenerator", "FromGenerator"} => m.amount \in Nat
         /\ m.type \in {"MintVaultToken", "Redeem", "ReceiveFrom", "SendTo"}
              => m.amount \in Nat /\ m.user \in Accounts
         /\ m.type = "ReceiveFrom" => m.user \in Users
         /\ m.type \in {"PayTreasury", "Swap", "JoinPool"} => m.amounts \in Amounts
         /\ m.type \in {"SellRewards", "ProvideLiquidity", "ClaimRewards", "Stake",
                        "ToGenerator", "FromGenerator", "MintVaultToken", "Redeem",
                        "ReceiveFrom", "SendTo", "PayTreasury", "Swap", "JoinPool"}
  BY ConstantTypes DEF Message

LEMMA MessageConstructors ==
  /\ SellRewards \in Message /\ ProvideLiquidity \in Message /\ ClaimRewards \in Message
  /\ \A n \in Nat : /\ Stake(n) \in Message
                    /\ ToGenerator(n) \in Message /\ FromGenerator(n) \in Message
  /\ \A n \in Nat, u \in Accounts :
       /\ MintVaultToken(n, u) \in Message /\ Redeem(n, u) \in Message
       /\ SendTo(u, n) \in Message
  /\ \A n \in Nat, u \in Users : ReceiveFrom(u, n) \in Message
  /\ \A amounts \in Amounts, type \in {"PayTreasury", "Swap", "JoinPool"} :
       Move(type, amounts) \in Message
  BY DEF Message, SellRewards, ProvideLiquidity, ClaimRewards, Stake, ToGenerator,
         FromGenerator, MintVaultToken, Redeem, ReceiveFrom, SendTo, Move

LEMMA NonEmptyType ==
  ASSUME NEW S, NEW amounts, NEW m \in S
  PROVE  NonEmpty(amounts, <<m>>) \in Seq(S)
<1>1. <<m>> \in Seq(S) /\ <<>> \in Seq(S)
  OBVIOUS
<1> QED
  BY <1>1 DEF NonEmpty

(* Messages in front of others: never an empty list.                       *)
LEMMA ConcatType ==
  ASSUME NEW S, NEW s \in Seq(S), NEW t \in Seq(S)
  PROVE  /\ s \o t \in Seq(S)
         /\ s # <<>> \/ t # <<>> => s \o t # <<>>
  BY ConcatProperties, ConcatEqualIffEmpty

LEMMA CompoundType ==
  ASSUME holds \in Amounts
  PROVE  Compound \in Seq(Message) /\ Compound # <<>>
<1> DEFINE rest == <<SellRewards, ProvideLiquidity, Stake(holds[BaseToken])>>
<1>1. /\ SellRewards \in Message /\ ProvideLiquidity \in Message
      /\ ClaimRewards \in Message /\ Stake(holds[BaseToken]) \in Message
  BY MessageConstructors, ConstantTypes DEF Amounts
<1>2. rest \in Seq(Message) /\ rest # <<>>
  BY <1>1
<1>3. NonEmpty(generator.pending, <<ClaimRewards>>) \in Seq(Message)
  BY <1>1, NonEmptyType
<1>4. Compound = NonEmpty(generator.pending, <<ClaimRewards>>) \o rest
  BY DEF Compound
<1> HIDE DEF rest
<1> QED
  BY <1>2, <1>3, <1>4, ConcatType

----------------------------------------------------------------------------
(* Every action keeps the types.                                           *)
LEMMA ExecuteDepositType ==
  ASSUME TypeOK, NEW user \in Users, NEW recipient \in Accounts, NEW amount \in Nat,
         ExecuteDeposit(user, amount, recipient)
  PROVE  TypeOK'
<1> DEFINE first == <<ReceiveFrom(user, amount)>>
           last == <<MintVaultToken(amount, recipient)>>
<1>1. first \in Seq(Message) /\ last \in Seq(Message) /\ first # <<>>
  BY MessageConstructors
<1>2. Compound \in Seq(Message)
  BY CompoundType DEF TypeOK, CompoundingTypeOK
<1>3. BeginTx(first \o Compound \o last)
  BY DEF ExecuteDeposit
<1> HIDE DEF first, last
<1>4. /\ first \o Compound \in Seq(Message) /\ first \o Compound # <<>>
      /\ first \o Compound \o last \in Seq(Message) /\ first \o Compound \o last # <<>>
  BY <1>1, <1>2, ConcatType
<1>5. TxTypeOK'
  BY <1>3, <1>4, BeginTxType
<1> QED
  BY <1>5, UnchangedParts, NewParts DEF ExecuteDeposit, tokenVars

LEMMA ExecuteRedeemType ==
  ASSUME TypeOK, NEW user \in Users, NEW recipient \in Accounts, NEW vaultTokens,
         ExecuteRedeem(user, vaultTokens, recipient)
  PROVE  TypeOK'
<1> DEFINE last == <<Redeem(vaultTokens, recipient)>>
<1>1. cw20' \in Cw20Type /\ vaultTokens \in Nat
  BY TransferType, ConstantTypes DEF ExecuteRedeem, TypeOK
<1>2. last \in Seq(Message) /\ last # <<>>
  BY <1>1, MessageConstructors
<1>3. Compound \in Seq(Message)
  BY CompoundType DEF TypeOK, CompoundingTypeOK
<1>4. BeginTx(Compound \o last)
  BY DEF ExecuteRedeem
<1> HIDE DEF last
<1>5. TxTypeOK'
  BY <1>2, <1>3, <1>4, ConcatType, BeginTxType
<1> QED
  BY <1>1, <1>5, UnchangedParts, NewParts DEF ExecuteRedeem

LEMMA ExecuteTransferType ==
  ASSUME TypeOK, NEW user \in Users, NEW to \in Accounts, NEW amount,
         ExecuteTransfer(user, to, amount)
  PROVE  TypeOK'
<1>1. cw20' \in Cw20Type
  BY TransferType, ConstantTypes DEF ExecuteTransfer, TypeOK
<1>2. TxTypeOK'
  BY BetweenTxType DEF ExecuteTransfer, TypeOK
<1> QED
  BY <1>1, <1>2, UnchangedParts, NewParts DEF ExecuteTransfer

LEMMA ExecuteUpdateConfigType ==
  ASSUME TypeOK, ExecuteUpdateConfig
  PROVE  TypeOK'
<1>1. CompoundingTypeOK'
  BY TypesAreFixed
  DEF ExecuteUpdateConfig, UpdateConfig, TypeOK, CompoundingTypeOK, assetVars
<1>2. TxTypeOK'
  BY BetweenTxType DEF ExecuteUpdateConfig, TypeOK
<1> QED
  BY <1>1, <1>2, UnchangedParts, NewParts DEF ExecuteUpdateConfig, tokenVars

(* What SellRewards sends: the fees first, then the sale.                  *)
SaleMessages ==
  NonEmpty(FeeToTreasury, <<Move("PayTreasury", FeeToTreasury)>>)
    \o NonEmpty(ToSell, <<Move("Swap", ToSell)>>)

LEMMA SaleMessagesType ==
  ASSUME CompoundingTypeOK
  PROVE  SaleMessages \in Seq(Message)
<1>1. FeeToTreasury \in Amounts /\ ToSell \in Amounts
  BY BasketsType
<1>2. Move("PayTreasury", FeeToTreasury) \in Message /\ Move("Swap", ToSell) \in Message
  BY <1>1, MessageConstructors
<1> QED
  BY <1>2, NonEmptyType, ConcatType DEF SaleMessages

LEMMA CallbackSellRewardsType ==
  ASSUME TypeOK, CallbackSellRewards
  PROVE  TypeOK'
<1>1. CompoundingTypeOK
  BY DEF TypeOK
<1>2. CompoundingTypeOK'
  BY <1>1, RewardsCountedType DEF CallbackSellRewards
<1>3. TxTypeOK'
  BY <1>1, SaleMessagesType, ContinueType
  DEF CallbackSellRewards, Handles, SaleMessages
<1> QED
  BY <1>2, <1>3, UnchangedParts, NewParts DEF CallbackSellRewards, tokenVars

LEMMA JoinMessageType ==
  ASSUME CompoundingTypeOK
  PROVE  NonEmpty(ToProvide, <<Move("JoinPool", ToProvide)>>) \in Seq(Message)
  BY BasketsType, MessageConstructors, NonEmptyType

LEMMA CallbackProvideLiquidityType ==
  ASSUME TypeOK, CallbackProvideLiquidity
  PROVE  TypeOK'
<1>1. TxTypeOK'
  BY JoinMessageType, ContinueType DEF CallbackProvideLiquidity, Handles, TypeOK
<1> QED
  BY <1>1, UnchangedParts, NewParts DEF CallbackProvideLiquidity, tokenVars

LEMMA AmountToStakeType ==
  ASSUME TypeOK, ~Idle, Head(queue).type = "Stake"
  PROVE  AmountToStake \in Nat /\ Amount \in Nat
<1>1. Amount \in Nat
  BY HeadAndTail, MessageFields DEF TypeOK, Amount
<1>2. holds[BaseToken] \in Nat
  BY ConstantTypes DEF TypeOK, CompoundingTypeOK, Amounts
<1> QED
  BY <1>1, <1>2 DEF AmountToStake

StakeMessages == IF AmountToStake = 0 THEN <<>> ELSE <<ToGenerator(AmountToStake)>>

LEMMA CallbackStakeType ==
  ASSUME TypeOK, CallbackStake
  PROVE  TypeOK'
<1>1. AmountToStake \in Nat /\ ~Idle
  BY AmountToStakeType DEF CallbackStake, Handles
<1>2. StakeMessages \in Seq(Message)
  BY <1>1, MessageConstructors, <<>> \in Seq(Message),
     <<ToGenerator(AmountToStake)>> \in Seq(Message) DEF StakeMessages
<1>3. TxTypeOK'
  BY <1>1, <1>2, ContinueType DEF CallbackStake, StakeMessages
<1>4. totalStaked' \in Nat
  BY <1>1 DEF TypeOK, CallbackStake
<1> QED
  BY <1>3, <1>4, UnchangedParts, NewParts DEF CallbackStake, tokenVars

LEMMA SharesToMintType ==
  ASSUME TypeOK, ~Idle, Head(queue).type = "MintVaultToken", Amount <= totalStaked
  PROVE  SharesToMint \in Nat /\ Amount \in Nat /\ Head(queue).user \in Accounts
<1>1. Amount \in Nat /\ Head(queue).user \in Accounts
  BY HeadAndTail, MessageFields DEF TypeOK, Amount
<1>2. totalStaked - Amount \in Nat /\ cw20.supply \in Nat
  BY <1>1 DEF TypeOK, Cw20Type
<1> QED
  BY <1>1, <1>2, CalculateVaultTokensType DEF SharesToMint

(* What the Mint callback does to the shares.                              *)
LEMMA MintedShares ==
  ASSUME TypeOK, CallbackMintVaultToken
  PROVE  LET user == Head(queue).user
         IN  /\ SharesToMint \in Nat \ {0} /\ user \in Accounts
             /\ cw20' \in Cw20Type
             /\ cw20'.supply = cw20.supply + SharesToMint
             /\ cw20'.balance = [cw20.balance EXCEPT ![user] = @ + SharesToMint]
<1> DEFINE user == Head(queue).user
           shares == SharesToMint
<1>1. shares \in Nat /\ user \in Accounts /\ shares > 0
  BY SharesToMintType, ConstantTypes DEF CallbackMintVaultToken, Handles, CanMintVaultToken
<1>2. cw20' = [cw20 EXCEPT !.balance[user] = @ + shares, !.supply = @ + shares]
  BY DEF CallbackMintVaultToken
<1>3. cw20.balance[user] \in Nat /\ cw20.supply \in Nat /\ cw20 \in Cw20Type
  BY <1>1 DEF TypeOK, Cw20Type
<1> HIDE DEF user, shares
<1>4. cw20.balance[user] + shares \in Nat /\ cw20.supply + shares \in Nat /\ shares \in Int
  BY <1>1, <1>3
<1>5. /\ cw20' \in Cw20Type /\ cw20'.supply = cw20.supply + shares
      /\ cw20'.balance = [cw20.balance EXCEPT ![user] = @ + shares]
  BY <1>1, <1>2, <1>3, <1>4, SupplyChangesType
<1> QED
  BY <1>1, <1>5 DEF user, shares

LEMMA CallbackMintVaultTokenType ==
  ASSUME TypeOK, CallbackMintVaultToken
  PROVE  TypeOK'
<1>1. TxTypeOK'
  BY DoneType DEF CallbackMintVaultToken, Handles
<1> QED
  BY <1>1, MintedShares, UnchangedParts, NewParts DEF CallbackMintVaultToken

(* What the Redeem callback does to the shares and the total.              *)
LEMMA BurnedShares ==
  ASSUME TypeOK, CallbackRedeem
  PROVE  /\ Amount \in Nat \ {0} /\ Amount <= cw20.balance[Vault] /\ Amount <= cw20.supply
         /\ Head(queue).user \in Accounts
         /\ BurnValue \in 0..totalStaked
         /\ cw20' \in Cw20Type
         /\ cw20'.supply = cw20.supply - Amount
         /\ cw20'.balance = [cw20.balance EXCEPT ![Vault] = @ - Amount]
<1> DEFINE burned == Amount
           change == -burned
<1>0. Head(queue) \in Message /\ Head(queue).type = "Redeem"
  BY HeadAndTail DEF TypeOK, CallbackRedeem, Handles
<1>1. /\ cw20 \in Cw20Type
      /\ cw20.balance[Vault] \in Nat /\ cw20.supply \in Nat /\ totalStaked \in Nat
  BY ConstantTypes DEF TypeOK, Cw20Type
<1>2. /\ burned \in Nat \ {0} /\ burned <= cw20.balance[Vault] /\ burned <= cw20.supply
      /\ BurnValue <= totalStaked
  BY <1>1 DEF CallbackRedeem, CanRedeem
<1>3. BurnValue \in Nat
  BY <1>1, <1>2, CalculateBaseTokensType DEF BurnValue
<1>4. Head(queue).user \in Accounts
  BY <1>0, MessageFields
<1>5. cw20' = [cw20 EXCEPT !.balance[Vault] = @ - burned, !.supply = @ - burned]
  BY DEF CallbackRedeem, Burn
<1>7. BurnValue \in 0..totalStaked
  BY <1>1, <1>2, <1>3
<1> HIDE DEF burned
<1>6. cw20' = [cw20 EXCEPT !.balance[Vault] = @ + change, !.supply = @ + change]
  BY <1>1, <1>2, <1>5
<1>8. /\ change \in Int /\ cw20.balance[Vault] + change \in Nat
      /\ cw20.supply + change \in Nat
      /\ cw20.supply + change = cw20.supply - burned
      /\ cw20.balance[Vault] + change = cw20.balance[Vault] - burned
  BY <1>1, <1>2
<1> HIDE DEF change
<1>9. /\ cw20' \in Cw20Type /\ cw20'.supply = cw20.supply + change
      /\ cw20'.balance = [cw20.balance EXCEPT ![Vault] = @ + change]
  BY <1>1, <1>6, <1>8, ConstantTypes, SupplyChangesType
<1> QED
  BY <1>2, <1>4, <1>7, <1>8, <1>9 DEF burned

LEMMA CallbackRedeemType ==
  ASSUME TypeOK, CallbackRedeem
  PROVE  TypeOK'
<1> DEFINE messages == <<FromGenerator(BurnValue), SendTo(Head(queue).user, BurnValue)>>
<1>1. BurnValue \in Nat /\ Head(queue).user \in Accounts /\ totalStaked - BurnValue \in Nat
  BY BurnedShares DEF TypeOK
<1>2. messages \in Seq(Message)
  BY <1>1, MessageConstructors
<1>3. Continue(messages) /\ ~Idle
  BY DEF CallbackRedeem, Handles
<1> HIDE DEF messages
<1>4. TxTypeOK'
  BY <1>2, <1>3, ContinueType
<1> QED
  BY <1>1, <1>4, BurnedShares, UnchangedParts, NewParts DEF CallbackRedeem

(* What the cw20 token, the generator and the vault pay each other.        *)
LEMMA PaymentType ==
  ASSUME TypeOK, ~Idle,
         Head(queue).type \in {"ReceiveFrom", "ToGenerator", "FromGenerator", "SendTo"}
  PROVE  /\ Amount \in Nat /\ -Amount \in Int
         /\ Head(queue).type = "ReceiveFrom" => Head(queue).user \in Users
         /\ Head(queue).type = "SendTo" => Head(queue).user \in Accounts
         /\ holds[BaseToken] \in Nat /\ generator.stake \in Nat
<1>1. Head(queue) \in Message
  BY HeadAndTail DEF TypeOK
<1>2. Amount \in Nat
  BY <1>1, MessageFields DEF Amount
<1>3. holds[BaseToken] \in Nat /\ generator.stake \in Nat
  BY ConstantTypes DEF TypeOK, CompoundingTypeOK, Amounts, GeneratorType
<1> QED
  BY <1>1, <1>2, <1>3, MessageFields

LEMMA StakeChangesType ==
  ASSUME generator \in GeneratorType, NEW stake \in Nat
  PROVE  [generator EXCEPT !.stake = stake] \in GeneratorType
  BY DEF GeneratorType

LEMMA HandleReceiveFromType ==
  ASSUME TypeOK, HandleReceiveFrom
  PROVE  /\ TypeOK' /\ Amount \in Nat
         /\ holds'[BaseToken] = holds[BaseToken] + Amount
         /\ \A a \in Assets : a # BaseToken => holds'[a] = holds[a]
<1> DEFINE amount == Amount
           user == Head(queue).user
<1>1. ~Idle /\ amount \in Nat /\ user \in Users /\ holds[BaseToken] \in Nat
  BY PaymentType DEF HandleReceiveFrom, Handles
<1>2. amount <= lp[user] /\ lp[user] \in Nat
  BY <1>1 DEF HandleReceiveFrom, CanReceive, TypeOK
<1>3. lp' = [lp EXCEPT ![user] = @ - amount] /\ MoveBaseTokens(amount)
  BY DEF HandleReceiveFrom
<1>4. TxTypeOK'
  BY <1>1, DoneType DEF HandleReceiveFrom
<1>9. amount = Amount
  OBVIOUS
<1> HIDE DEF amount, user
<1>5. lp' = [lp EXCEPT ![user] = lp[user] - amount] /\ lp[user] - amount \in Nat
  BY <1>1, <1>2, <1>3
<1>6. lp' \in [Users -> Nat]
  BY <1>1, <1>5, LpType DEF TypeOK
<1>7. amount \in Int /\ holds[BaseToken] + amount \in Nat /\ CompoundingTypeOK
  BY <1>1 DEF TypeOK
<1>8. /\ CompoundingTypeOK'
      /\ holds'[BaseToken] = holds[BaseToken] + amount
      /\ \A a \in Assets : a # BaseToken => holds'[a] = holds[a]
  BY <1>3, <1>7, MoveBaseTokensType
<1> QED
  BY <1>1, <1>4, <1>6, <1>8, <1>9, UnchangedParts, NewParts DEF HandleReceiveFrom

LEMMA HandleClaimRewardsType ==
  ASSUME TypeOK, HandleClaimRewards
  PROVE  TypeOK'
<1>1. generator.pending \in Amounts /\ CompoundingTypeOK
  BY DEF TypeOK, GeneratorType
<1>2. CompoundingTypeOK'
  BY <1>1, RewardsArriveType DEF HandleClaimRewards
<1>3. generator' \in GeneratorType
  BY NothingType DEF HandleClaimRewards, GeneratorType, TypeOK
<1>4. TxTypeOK'
  BY DoneType DEF HandleClaimRewards, Handles
<1> QED
  BY <1>2, <1>3, <1>4, UnchangedParts, NewParts DEF HandleClaimRewards, tokenVars

LEMMA HandleMoveType ==
  ASSUME TypeOK, HandleMove
  PROVE  TypeOK'
<1> DEFINE amounts == Head(queue).amounts
<1>1. ~Idle /\ amounts \in Amounts /\ CompoundingTypeOK
  BY HeadAndTail, MessageFields DEF HandleMove, Handles, TypeOK
<1>2. PayTreasury(amounts) \/ SwapBasket(amounts) \/ JoinPool(amounts)
  BY DEF HandleMove
<1>4. TxTypeOK'
  BY <1>1, DoneType DEF HandleMove
<1> HIDE DEF amounts
<1>3. CompoundingTypeOK'
  BY <1>1, <1>2, PayTreasuryType, SwapBasketType, JoinPoolType
<1> QED
  BY <1>3, <1>4, UnchangedParts, NewParts DEF HandleMove, tokenVars

LEMMA HandleToGeneratorType ==
  ASSUME TypeOK, HandleToGenerator
  PROVE  /\ TypeOK' /\ Amount \in Nat \ {0} /\ Amount <= holds[BaseToken]
         /\ generator' = [generator EXCEPT !.stake = generator.stake + Amount]
         /\ holds'[BaseToken] = holds[BaseToken] - Amount
         /\ \A a \in Assets : a # BaseToken => holds'[a] = holds[a]
<1> DEFINE amount == Amount
           back == -amount
           stake == generator.stake + amount
<1>1. ~Idle /\ amount \in Nat /\ holds[BaseToken] \in Nat /\ generator.stake \in Nat
  BY PaymentType DEF HandleToGenerator, Handles
<1>2. amount \in Nat \ {0} /\ amount <= holds[BaseToken] /\ MoveBaseTokens(back)
  BY <1>1 DEF HandleToGenerator, CanPayBaseTokens
<1>3. generator' = [generator EXCEPT !.stake = stake] /\ stake \in Nat
  BY <1>1 DEF HandleToGenerator
<1>4. TxTypeOK'
  BY <1>1, DoneType DEF HandleToGenerator
<1>5. generator' \in GeneratorType
  BY <1>3, StakeChangesType DEF TypeOK
<1>6. /\ back \in Int /\ holds[BaseToken] + back \in Nat /\ CompoundingTypeOK
      /\ holds[BaseToken] + back = holds[BaseToken] - amount
  BY <1>1, <1>2 DEF TypeOK
<1> HIDE DEF back
<1>7. /\ CompoundingTypeOK' /\ holds'[BaseToken] = holds[BaseToken] - amount
      /\ \A a \in Assets : a # BaseToken => holds'[a] = holds[a]
  BY <1>2, <1>6, MoveBaseTokensType
<1> QED
  BY <1>2, <1>3, <1>4, <1>5, <1>7, UnchangedParts, NewParts
  DEF HandleToGenerator, tokenVars

LEMMA HandleFromGeneratorType ==
  ASSUME TypeOK, HandleFromGenerator
  PROVE  /\ TypeOK' /\ Amount \in Nat
         /\ generator' = [generator EXCEPT !.stake = generator.stake - Amount]
         /\ holds'[BaseToken] = holds[BaseToken] + Amount
         /\ \A a \in Assets : a # BaseToken => holds'[a] = holds[a]
<1> DEFINE amount == Amount
           stake == generator.stake - amount
<1>1. ~Idle /\ amount \in Nat /\ holds[BaseToken] \in Nat /\ generator.stake \in Nat
  BY PaymentType DEF HandleFromGenerator, Handles
<1>2. amount <= generator.stake /\ MoveBaseTokens(amount)
  BY DEF HandleFromGenerator, CanUnstake
<1>3. generator' = [generator EXCEPT !.stake = stake] /\ stake \in Nat
  BY <1>1, <1>2 DEF HandleFromGenerator
<1>4. TxTypeOK'
  BY <1>1, DoneType DEF HandleFromGenerator
<1>5. generator' \in GeneratorType
  BY <1>3, StakeChangesType DEF TypeOK
<1>6. amount \in Int /\ holds[BaseToken] + amount \in Nat /\ CompoundingTypeOK
  BY <1>1 DEF TypeOK
<1>7. /\ CompoundingTypeOK' /\ holds'[BaseToken] = holds[BaseToken] + amount
      /\ \A a \in Assets : a # BaseToken => holds'[a] = holds[a]
  BY <1>2, <1>6, MoveBaseTokensType
<1> QED
  BY <1>1, <1>3, <1>4, <1>5, <1>7, UnchangedParts, NewParts
  DEF HandleFromGenerator, tokenVars

LEMMA HandleSendToType ==
  ASSUME TypeOK, HandleSendTo
  PROVE  /\ TypeOK' /\ Amount \in Nat /\ Amount <= holds[BaseToken]
         /\ holds'[BaseToken] = holds[BaseToken] - Amount
         /\ \A a \in Assets : a # BaseToken => holds'[a] = holds[a]
<1> DEFINE amount == Amount
           back == -amount
           user == Head(queue).user
<1>1. ~Idle /\ amount \in Nat /\ user \in Users /\ holds[BaseToken] \in Nat
  BY PaymentType DEF HandleSendTo, Handles, Accounts
<1>2. amount <= holds[BaseToken] /\ MoveBaseTokens(back) /\ lp[user] \in Nat
  BY <1>1 DEF HandleSendTo, CanPayBaseTokens, TypeOK
<1>3. lp' = [lp EXCEPT ![user] = lp[user] + amount]
  BY DEF HandleSendTo
<1>4. TxTypeOK'
  BY <1>1, DoneType DEF HandleSendTo
<1>5. lp[user] + amount \in Nat
  BY <1>1, <1>2
<1>6. lp' \in [Users -> Nat]
  BY <1>1, <1>3, <1>5, LpType DEF TypeOK
<1>7. /\ back \in Int /\ holds[BaseToken] + back \in Nat /\ CompoundingTypeOK
      /\ holds[BaseToken] + back = holds[BaseToken] - amount
  BY <1>1, <1>2 DEF TypeOK
<1> HIDE DEF back
<1>8. /\ CompoundingTypeOK' /\ holds'[BaseToken] = holds[BaseToken] - amount
      /\ \A a \in Assets : a # BaseToken => holds'[a] = holds[a]
  BY <1>2, <1>7, MoveBaseTokensType
<1> QED
  BY <1>1, <1>2, <1>4, <1>6, <1>8, UnchangedParts, NewParts DEF HandleSendTo

(* A redemption for the contract itself changes only what it was given.    *)
LEMMA SelfIsDone ==
  ASSUME TypeOK, HandleSendToSelf
  PROVE  /\ ~Idle /\ queue' = <<>> \o Tail(queue)
         /\ saved' = IF Idle' THEN NoTx ELSE saved
         /\ Amount \in Nat /\ Amount <= holds[BaseToken]
         /\ donated' = donated + Amount /\ donated' \in Nat
<1>1. ~Idle /\ Amount \in Nat /\ holds[BaseToken] \in Nat
  BY PaymentType DEF HandleSendToSelf, Handles
<1>2. Amount <= holds[BaseToken] /\ donated' = donated + Amount
  BY <1>1 DEF HandleSendToSelf, CanPayBaseTokens
<1>3. Tail(queue) \in Seq(Message)
  BY <1>1, HeadAndTail DEF TypeOK
<1>4. queue' = <<>> \o Tail(queue)
  BY <1>3, ConcatEmptySeq DEF HandleSendToSelf
<1>5. donated' \in Nat
  BY <1>1, <1>2 DEF TypeOK
<1> QED
  BY <1>1, <1>2, <1>4, <1>5 DEF HandleSendToSelf, Idle

LEMMA HandleSendToSelfType ==
  ASSUME TypeOK, HandleSendToSelf
  PROVE  TypeOK'
<1>1. queue' \in Seq(Message) /\ donated' \in Nat
  BY SelfIsDone, HeadAndTail DEF TypeOK, HandleSendToSelf
<1>2. IF Idle' THEN saved' = NoTx ELSE saved' = saved
  BY SelfIsDone
<1>3. SavedTypeOK
  BY SelfIsDone DEF TypeOK
<1>4. Idle' \/ SavedTypeOK'
  BY <1>2, <1>3, TypesAreFixed DEF SavedTypeOK
<1>5. TxTypeOK'
  BY <1>1, <1>2, <1>4 DEF TxTypeOK
<1> QED
  BY <1>5, UnchangedParts, NewParts DEF HandleSendToSelf, tokenVars

LEMMA HandleMessageType ==
  ASSUME TypeOK, HandleMessage \/ ExternalFailure
  PROVE  TypeOK'
  BY CallbackSellRewardsType, CallbackProvideLiquidityType, CallbackStakeType,
     CallbackMintVaultTokenType, CallbackRedeemType, HandleReceiveFromType,
     HandleClaimRewardsType, HandleMoveType, HandleToGeneratorType,
     HandleFromGeneratorType, HandleSendToType, HandleSendToSelfType, RevertType
  DEF HandleMessage, FailedMessage, ExternalFailure

LEMMA UserTxType ==
  ASSUME TypeOK, UserTx
  PROVE  TypeOK'
<1>1. PICK user \in Users :
        \/ \E recipient \in {user} \cup Recipients :
             \/ \E amount \in 1..lp[user] : ExecuteDeposit(user, amount, recipient)
             \/ \E vaultTokens \in 1..cw20.balance[user] :
                  ExecuteRedeem(user, vaultTokens, recipient)
        \/ \E to \in Accounts \ {user}, amount \in 1..cw20.balance[user] :
             ExecuteTransfer(user, to, amount)
  BY DEF UserTx
<1>2. lp[user] \in Nat /\ {user} \cup Recipients \subseteq Accounts
  BY ConstantTypes DEF TypeOK
<1>3. ASSUME NEW recipient \in {user} \cup Recipients, NEW amount \in 1..lp[user],
             ExecuteDeposit(user, amount, recipient)
      PROVE  TypeOK'
  BY <1>2, <1>3, ExecuteDepositType, amount \in Nat
<1>4. ASSUME NEW recipient \in {user} \cup Recipients, NEW vaultTokens,
             ExecuteRedeem(user, vaultTokens, recipient)
      PROVE  TypeOK'
  BY <1>2, <1>4, ExecuteRedeemType
<1>5. ASSUME NEW to \in Accounts, NEW amount, ExecuteTransfer(user, to, amount)
      PROVE  TypeOK'
  BY <1>5, ExecuteTransferType
<1> QED
  BY <1>1, <1>3, <1>4, <1>5

LEMMA RewardsAccrueType ==
  ASSUME TypeOK, NEW a \in RewardTokens, RewardsAccrue(a)
  PROVE  TypeOK'
<1> DEFINE more == generator.pending[a] + 1
           pending == [generator.pending EXCEPT ![a] = more]
           less == generator.incentives - 1
<1>1. /\ generator.pending \in Amounts /\ generator.pending[a] \in Nat
      /\ generator.incentives \in Nat /\ generator.incentives > 0 /\ generator \in GeneratorType
  BY ConstantTypes DEF TypeOK, GeneratorType, Amounts, RewardsAccrue
<1>2. more \in Nat /\ less \in Nat
  BY <1>1
<1>3. generator' = [generator EXCEPT !.incentives = less, !.pending = pending]
  BY <1>1 DEF RewardsAccrue, GeneratorType
<1> HIDE DEF more, less
<1>4. pending \in Amounts
  BY <1>1, <1>2 DEF Amounts
<1> HIDE DEF pending
<1>5. generator' \in GeneratorType
  BY <1>1, <1>2, <1>3, <1>4 DEF GeneratorType
<1>6. TxTypeOK'
  BY BetweenTxType DEF RewardsAccrue, TypeOK
<1> QED
  BY <1>5, <1>6, UnchangedParts, NewParts DEF RewardsAccrue, tokenVars

LEMMA DonateType ==
  ASSUME TypeOK, NEW user \in Users, NEW amount \in 1..lp[user], Idle, Donate(user, amount)
  PROVE  /\ TypeOK' /\ amount \in Nat
         /\ holds'[BaseToken] = holds[BaseToken] + amount
         /\ \A a \in Assets : a # BaseToken => holds'[a] = holds[a]
<1>1. lp[user] \in Nat /\ amount \in Nat /\ amount <= lp[user] /\ holds[BaseToken] \in Nat
  BY ConstantTypes DEF TypeOK, CompoundingTypeOK, Amounts
<1>2. MoveBaseTokens(amount) /\ lp' = [lp EXCEPT ![user] = @ - amount]
  BY DEF Donate
<1>3. lp' = [lp EXCEPT ![user] = lp[user] - amount] /\ lp[user] - amount \in Nat
  BY <1>1, <1>2
<1>4. lp' \in [Users -> Nat]
  BY <1>3, LpType DEF TypeOK
<1>5. amount \in Int /\ holds[BaseToken] + amount \in Nat /\ CompoundingTypeOK
  BY <1>1 DEF TypeOK
<1>6. /\ CompoundingTypeOK'
      /\ holds'[BaseToken] = holds[BaseToken] + amount
      /\ \A a \in Assets : a # BaseToken => holds'[a] = holds[a]
  BY <1>2, <1>5, MoveBaseTokensType
<1>7. TxTypeOK'
  BY <1>1, BetweenTxType DEF Donate, TypeOK
<1> QED
  BY <1>1, <1>4, <1>6, <1>7, UnchangedParts, NewParts DEF Donate

LEMMA EnvironmentType ==
  ASSUME TypeOK, Environment
  PROVE  TypeOK'
  BY ExecuteUpdateConfigType, RewardsAccrueType, DonateType
  DEF Environment, Donate

LEMMA InitType == Init => TypeOK
<1> SUFFICES ASSUME Init PROVE TypeOK
  OBVIOUS
<1>1. CompoundingTypeOK
  BY NothingType, ConstantTypes
  DEF Init, CompoundingInit, CompoundingTypeOK, Amounts
<1>2. cw20 \in Cw20Type /\ generator \in GeneratorType /\ lp \in [Users -> Nat]
  BY NothingType, ConstantTypes DEF Init, Cw20Type, GeneratorType
<1> QED
  BY <1>1, <1>2, ConstantTypes, EmptySeq DEF Init, TypeOK, Idle

LEMMA StutterType == TypeOK /\ UNCHANGED vars => TypeOK'
<1> SUFFICES ASSUME TypeOK, UNCHANGED vars PROVE TypeOK'
  OBVIOUS
<1>1. TxTypeOK'
  BY TypesAreFixed DEF vars, tokenVars, TypeOK, TxTypeOK, Idle, SavedTypeOK
<1> QED
  BY <1>1, UnchangedParts, NewParts DEF vars, tokenVars

LEMMA NextType == TypeOK /\ [Next]_vars => TypeOK'
  BY HandleMessageType, UserTxType, EnvironmentType, StutterType DEF Next

(* The vault's state, its queue and the state it would go back to keep     *)
(* their types: balances never go below zero (TypeOK).                     *)
THEOREM TypeCorrect == Spec => []TypeOK
  BY InitType, NextType, PTL DEF Spec

----------------------------------------------------------------------------
(* The order of the messages.                                              *)

(* What is handled next: the type of the head of the queue.                *)
Doing == IF Idle THEN "None" ELSE queue[1].type

LastOf(q) == q[Len(q)]

(* What may come next after a message, and what comes last.                *)
Follows ==
  {<<"ReceiveFrom", "ClaimRewards">>, <<"ReceiveFrom", "SellRewards">>,
   <<"ClaimRewards", "SellRewards">>, <<"SellRewards", "ProvideLiquidity">>,
   <<"PayTreasury", "Swap">>, <<"PayTreasury", "ProvideLiquidity">>,
   <<"Swap", "ProvideLiquidity">>, <<"ProvideLiquidity", "Stake">>,
   <<"JoinPool", "Stake">>, <<"Stake", "MintVaultToken">>, <<"Stake", "Redeem">>,
   <<"ToGenerator", "MintVaultToken">>, <<"ToGenerator", "Redeem">>,
   <<"FromGenerator", "SendTo">>}

LastTypes == {"MintVaultToken", "Redeem", "SendTo"}

InOrder(q) ==
  \A i \in 1..Len(q) : i < Len(q) => <<q[i].type, q[i + 1].type>> \in Follows

OrderInv == InOrder(queue) /\ (~Idle => LastOf(queue).type \in LastTypes)

(* Two lists in order are in order together, if the second may follow.     *)
LEMMA ConcatShape ==
  ASSUME NEW S, NEW s \in Seq(S), NEW t \in Seq(S), InOrder(s), InOrder(t),
         s # <<>> /\ t # <<>> => <<LastOf(s).type, t[1].type>> \in Follows
  PROVE  /\ InOrder(s \o t)
         /\ Len(s \o t) = Len(s) + Len(t) /\ Len(s) \in Nat /\ Len(t) \in Nat
         /\ s # <<>> \/ t # <<>> => s \o t # <<>>
         /\ s # <<>> => (s \o t)[1] = s[1] /\ Len(s) > 0
         /\ t # <<>> => LastOf(s \o t) = LastOf(t) /\ Len(t) > 0
         /\ s # <<>> /\ t # <<>> => (s \o t)[Len(s) + 1] = t[1]
         /\ s = <<>> => s \o t = t
         /\ t = <<>> => s \o t = s
<1> DEFINE st == s \o t
           m == Len(s)
           n == Len(t)
<1>1. /\ m \in Nat /\ n \in Nat
      /\ s # <<>> => m > 0
      /\ t # <<>> => n > 0
      /\ s = <<>> => m = 0
      /\ t = <<>> => n = 0
  BY LenProperties, EmptySeq
<1>2. /\ Len(st) = m + n
      /\ \A i \in 1..(m + n) : st[i] = IF i <= m THEN s[i] ELSE t[i - m]
  BY ConcatProperties
<1>3. s = <<>> => st = t
  BY ConcatEmptySeq
<1>4. t = <<>> => st = s
  BY ConcatEmptySeq
<1>5. s # <<>> \/ t # <<>> => st # <<>>
  BY ConcatEqualIffEmpty
<1>6. /\ \A i \in 1..m : i < m => <<s[i].type, s[i + 1].type>> \in Follows
      /\ \A i \in 1..n : i < n => <<t[i].type, t[i + 1].type>> \in Follows
      /\ s # <<>> /\ t # <<>> => <<s[m].type, t[1].type>> \in Follows
  BY DEF InOrder, LastOf
<1> HIDE DEF st, m, n
<1>7. ASSUME NEW i \in 1..(m + n), i < m + n
      PROVE  <<st[i].type, st[i + 1].type>> \in Follows
  <2>1. CASE i < m
    <3>1. st[i] = s[i] /\ st[i + 1] = s[i + 1] /\ i \in 1..m
      BY <1>1, <1>2, <1>7, <2>1
    <3> QED
      BY <1>6, <2>1, <3>1
  <2>2. CASE i = m
    <3>1. st[i] = s[m] /\ st[i + 1] = t[1] /\ m > 0 /\ n > 0
      BY <1>1, <1>2, <1>7, <2>2
    <3> QED
      BY <1>1, <1>6, <3>1
  <2>3. CASE i > m
    <3>1. i - m \in 1..n /\ i - m < n
      BY <1>1, <1>7, <2>3
    <3>2. st[i] = t[i - m] /\ st[i + 1] = t[(i - m) + 1]
      BY <1>1, <1>2, <1>7, <2>3, (i + 1) - m = (i - m) + 1
    <3> QED
      BY <1>6, <3>1, <3>2
  <2> QED
    BY <1>1, <2>1, <2>2, <2>3
<1>8. InOrder(st)
  BY <1>2, <1>7 DEF InOrder
<1>9. s # <<>> => st[1] = s[1]
  BY <1>1, <1>2
<1>10. t # <<>> => st[m + n] = t[n] /\ st[m + 1] = (IF m + 1 <= m THEN s[m + 1] ELSE t[1])
  <2> SUFFICES ASSUME t # <<>>
               PROVE  st[m + n] = t[n] /\ st[m + 1] = (IF m + 1 <= m THEN s[m + 1] ELSE t[1])
    OBVIOUS
  <2>1. m + n \in 1..(m + n) /\ ~(m + n <= m) /\ (m + n) - m = n
    BY <1>1
  <2>2. m + 1 \in 1..(m + n) /\ ~(m + 1 <= m) /\ (m + 1) - m = 1
    BY <1>1
  <2> QED
    BY <1>2, <2>1, <2>2
<1> QED
  BY <1>1, <1>2, <1>3, <1>4, <1>5, <1>8, <1>9, <1>10 DEF st, m, n, LastOf

LEMMA NoMessage == InOrder(<<>>) /\ Len(<<>>) = 0
  BY DEF InOrder

LEMMA OneMessage ==
  ASSUME NEW a
  PROVE  /\ InOrder(<<a>>) /\ Len(<<a>>) = 1 /\ <<a>> # <<>>
         /\ <<a>>[1] = a /\ LastOf(<<a>>) = a
  BY DEF InOrder, LastOf

LEMMA TwoMessages ==
  ASSUME NEW a, NEW b, <<a.type, b.type>> \in Follows
  PROVE  /\ InOrder(<<a, b>>) /\ Len(<<a, b>>) = 2 /\ <<a, b>> # <<>>
         /\ <<a, b>>[1] = a /\ <<a, b>>[2] = b /\ LastOf(<<a, b>>) = b
  BY DEF InOrder, LastOf

(* The queue after a step of a transaction: what the message sent, then    *)
(* what was waiting.                                                       *)
LEMMA QueueAfter ==
  ASSUME NEW S, queue \in Seq(S), NEW messages \in Seq(S), OrderInv, ~Idle,
         Continue(messages), InOrder(messages),
         messages # <<>> =>
           IF Len(queue) = 1 THEN LastOf(messages).type \in LastTypes
                             ELSE <<LastOf(messages).type, queue[2].type>> \in Follows
  PROVE  /\ OrderInv'
         /\ donated' = donated
         /\ Len(queue) = 1 => Doing \in LastTypes /\ LastOf(queue) = queue[1]
         /\ Len(queue) # 1 => <<Doing, queue[2].type>> \in Follows
         /\ Doing = Head(queue).type /\ Head(queue) = queue[1]
         /\ Idle' <=> messages = <<>> /\ Len(queue) = 1
         /\ Idle' => saved' = NoTx /\ Doing' = "None"
         /\ ~Idle' => saved' = saved
         /\ ~Idle' /\ messages = <<>> =>
              /\ queue'[1] = queue[2] /\ queue' = Tail(queue) /\ Doing' = queue[2].type
              /\ Head(queue') = queue[2]
         /\ messages # <<>> =>
              /\ queue'[1] = messages[1] /\ Doing' = messages[1].type
              /\ Head(queue') = messages[1]
         /\ messages # <<>> /\ Len(queue) # 1 =>
              queue'[Len(messages) + 1] = queue[2]
         /\ messages # <<>> /\ Len(queue) = 1 => queue' = messages
         /\ Len(queue) # 1 => LastOf(queue') = LastOf(queue)
<1> DEFINE rest == Tail(queue)
<1>1. /\ Head(queue) = queue[1] /\ rest \in Seq(S)
      /\ Len(queue) \in Nat \ {0} /\ Len(rest) = Len(queue) - 1
      /\ \A i \in 1..Len(rest) : rest[i] = queue[i + 1]
  BY HeadAndTail
<1>2. queue' = messages \o rest /\ donated' = donated
      /\ saved' = IF queue' = <<>> THEN NoTx ELSE saved
  BY DEF Continue
<1> HIDE DEF rest
<1>3. /\ rest = <<>> <=> Len(queue) = 1
      /\ Len(queue) # 1 => Len(rest) > 0 /\ rest[1] = queue[2]
  BY <1>1, EmptySeq
<1>4. InOrder(rest)
  <2> SUFFICES ASSUME NEW i \in 1..Len(rest), i < Len(rest)
               PROVE  <<rest[i].type, rest[i + 1].type>> \in Follows
    BY DEF InOrder
  <2> DEFINE k == Len(queue)
             l == Len(rest)
             j == i + 1
  <2>1. k \in Nat \ {0} /\ l = k - 1 /\ i \in 1..l /\ i < l
    BY <1>1
  <2>2. rest[i] = queue[j]
    BY <1>1
  <2> HIDE DEF k, l
  <2>3. j \in 1..l /\ j \in 1..k /\ j < k
    BY <2>1
  <2> HIDE DEF j
  <2>4. rest[j] = queue[j + 1]
    BY <1>1, <2>3 DEF l
  <2>5. <<queue[j].type, queue[j + 1].type>> \in Follows
    BY <2>3 DEF k, OrderInv, InOrder
  <2> QED
    BY <2>2, <2>4, <2>5 DEF j
<1>5. Len(queue) # 1 => LastOf(rest) = LastOf(queue)
  BY <1>1, <1>3, Len(queue) - 1 + 1 = Len(queue) DEF LastOf
<1>6. messages # <<>> /\ rest # <<>> => <<LastOf(messages).type, rest[1].type>> \in Follows
  BY <1>3
<1>7. /\ InOrder(queue')
      /\ messages # <<>> \/ rest # <<>> => queue' # <<>>
      /\ messages # <<>> => queue'[1] = messages[1]
      /\ rest # <<>> => LastOf(queue') = LastOf(rest)
      /\ messages # <<>> /\ rest # <<>> => queue'[Len(messages) + 1] = rest[1]
      /\ messages = <<>> => queue' = rest
      /\ rest = <<>> => queue' = messages
  BY <1>1, <1>2, <1>4, <1>6, ConcatShape
<1>8. Idle' <=> messages = <<>> /\ Len(queue) = 1
  BY <1>3, <1>7 DEF Idle
<1>9. /\ LastOf(queue).type \in LastTypes
      /\ Len(queue) = 1 => LastOf(queue) = queue[1]
      /\ Len(queue) # 1 => <<queue[1].type, queue[2].type>> \in Follows
  BY <1>1, 1 \in 1..Len(queue), 1 + 1 = 2 DEF OrderInv, InOrder, LastOf
<1>10. OrderInv'
  <2>1. ~Idle' => LastOf(queue').type \in LastTypes
    BY <1>3, <1>5, <1>7, <1>8, <1>9
  <2> QED
    BY <1>7, <2>1 DEF OrderInv, InOrder, LastOf
<1>11. queue' # <<>> => Head(queue') = queue'[1]
  <2>1. queue' \in Seq(S)
    BY ContinueIn
  <2> QED
    BY <2>1, HeadTailProperties, LenProperties, EmptySeq
<1> QED
  BY <1>1, <1>2, <1>3, <1>5, <1>7, <1>8, <1>9, <1>10, <1>11 DEF Doing, Idle, rest

(* Of no message that is sent itself ...                                   *)
LEMMA DoneFlow ==
  ASSUME TypeOK, OrderInv, ~Idle, Continue(<<>>)
  PROVE  /\ OrderInv' /\ donated' = donated
         /\ Doing = Head(queue).type /\ Head(queue) = queue[1]
         /\ Doing \in LastTypes =>
              Idle' /\ saved' = NoTx /\ Doing' = "None" /\ LastOf(queue) = queue[1]
         /\ Doing \notin LastTypes =>
              /\ ~Idle' /\ saved' = saved /\ <<Doing, Doing'>> \in Follows
              /\ queue'[1] = queue[2] /\ Head(queue') = queue[2]
              /\ LastOf(queue') = LastOf(queue)
<1>0. queue \in Seq(Message) /\ InOrder(<<>>)
  BY NoMessage DEF TypeOK
<1>1. <<>> \in Seq(Message)
  OBVIOUS
<1>2. /\ OrderInv' /\ donated' = donated
      /\ Doing = Head(queue).type /\ Head(queue) = queue[1]
      /\ Len(queue) = 1 => Doing \in LastTypes /\ LastOf(queue) = queue[1]
      /\ Len(queue) # 1 => <<Doing, queue[2].type>> \in Follows
      /\ Idle' <=> Len(queue) = 1
      /\ Idle' => saved' = NoTx /\ Doing' = "None"
      /\ ~Idle' => saved' = saved
      /\ ~Idle' => queue'[1] = queue[2] /\ Doing' = queue[2].type /\ Head(queue') = queue[2]
      /\ Len(queue) # 1 => LastOf(queue') = LastOf(queue)
  BY <1>1, <1>0, QueueAfter
<1>3. Len(queue) # 1 => Doing \notin LastTypes
  BY <1>2 DEF Follows, LastTypes
<1> QED
  BY <1>2, <1>3

(* A redemption for the contract itself ends the transaction as well.      *)
LEMMA SelfFlow ==
  ASSUME TypeOK, OrderInv, HandleSendToSelf
  PROVE  /\ OrderInv' /\ Idle' /\ saved' = NoTx /\ Doing' = "None"
         /\ ~Idle /\ Doing = "SendTo" /\ Head(queue) = queue[1]
         /\ LastOf(queue) = queue[1]
<1>1. ~Idle /\ queue \in Seq(Message) /\ Head(queue).type = "SendTo"
  BY DEF HandleSendToSelf, Handles, TypeOK
<1>2. /\ Head(queue) = queue[1] /\ Tail(queue) \in Seq(Message)
      /\ Len(queue) \in Nat \ {0} /\ Len(Tail(queue)) = Len(queue) - 1
  BY <1>1, HeadAndTail
<1>3. Len(queue) # 1 => <<queue[1].type, queue[2].type>> \in Follows
  BY <1>2, 1 \in 1..Len(queue), 1 + 1 = 2 DEF OrderInv, InOrder
<1>4. Len(queue) = 1
  BY <1>1, <1>2, <1>3 DEF Follows
<1> DEFINE rest == Tail(queue)
<1>5. rest \in Seq(Message) /\ Len(rest) = 0
  BY <1>2, <1>4
<1> HIDE DEF rest
<1>6. rest = <<>>
  BY <1>5, EmptySeq
<1>7. queue' = <<>> /\ saved' = NoTx
  BY <1>6 DEF HandleSendToSelf, rest
<1>8. OrderInv'
  BY <1>7 DEF OrderInv, InOrder, Idle
<1> QED
  BY <1>1, <1>2, <1>4, <1>7, <1>8 DEF Doing, Idle, LastOf

(* ... and of one that sends some.                                         *)
LEMMA SentFlow ==
  ASSUME TypeOK, OrderInv, ~Idle, NEW messages \in Seq(Message), messages # <<>>,
         Continue(messages), InOrder(messages), Head(queue).type \notin LastTypes,
         \A type : <<Head(queue).type, type>> \in Follows
                     => <<LastOf(messages).type, type>> \in Follows
  PROVE  /\ OrderInv' /\ donated' = donated
         /\ Doing = Head(queue).type /\ Head(queue) = queue[1]
         /\ ~Idle' /\ saved' = saved
         /\ <<Doing, queue[2].type>> \in Follows
         /\ queue'[1] = messages[1] /\ Head(queue') = messages[1]
         /\ Doing' = messages[1].type
         /\ queue'[Len(messages) + 1] = queue[2]
         /\ LastOf(queue') = LastOf(queue)
<1>1. queue \in Seq(Message)
  BY DEF TypeOK
<1>2. Head(queue) = queue[1] /\ Len(queue) \in Nat \ {0}
  BY <1>1, HeadAndTail
<1>3. /\ Len(queue) # 1
      /\ <<Head(queue).type, queue[2].type>> \in Follows
  BY <1>2, 1 \in 1..Len(queue), 1 + 1 = 2 DEF OrderInv, InOrder, LastOf, Idle
<1>4. <<LastOf(messages).type, queue[2].type>> \in Follows
  BY <1>3
<1>5. /\ OrderInv' /\ donated' = donated
      /\ Doing = Head(queue).type
      /\ ~Idle' /\ (~Idle' => saved' = saved)
      /\ queue'[1] = messages[1] /\ Doing' = messages[1].type
      /\ Head(queue') = messages[1]
      /\ queue'[Len(messages) + 1] = queue[2]
      /\ LastOf(queue') = LastOf(queue)
  BY <1>1, <1>3, <1>4, QueueAfter
<1> QED
  BY <1>2, <1>3, <1>5

LEMMA OneSentFlow ==
  ASSUME TypeOK, OrderInv, ~Idle, NEW m \in Message, Continue(<<m>>),
         Head(queue).type \notin LastTypes,
         \A type : <<Head(queue).type, type>> \in Follows => <<m.type, type>> \in Follows
  PROVE  /\ OrderInv' /\ donated' = donated
         /\ Doing = Head(queue).type /\ Head(queue) = queue[1]
         /\ ~Idle' /\ saved' = saved
         /\ <<Doing, queue[2].type>> \in Follows
         /\ queue'[1] = m /\ Head(queue') = m /\ Doing' = m.type
         /\ queue'[2] = queue[2]
         /\ LastOf(queue') = LastOf(queue)
<1> DEFINE messages == <<m>>
<1>1. /\ messages \in Seq(Message) /\ messages # <<>> /\ InOrder(messages)
      /\ messages[1] = m /\ LastOf(messages) = m /\ Len(messages) + 1 = 2
  BY OneMessage
<1>2. Continue(messages)
  OBVIOUS
<1> HIDE DEF messages
<1> QED
  BY <1>1, <1>2, SentFlow

LEMMA PairIs ==
  ASSUME NEW a, NEW b
  PROVE  <<a>> \o <<b>> = <<a, b>>
<1> DEFINE S == {a, b}
           s == <<a>> \o <<b>>
           t == <<a, b>>
<1>1. <<a>> \in Seq(S) /\ <<b>> \in Seq(S) /\ t \in Seq(S)
  OBVIOUS
<1>2. Len(<<a>>) = 1 /\ Len(<<b>>) = 1 /\ Len(t) = 2 /\ t[1] = a /\ t[2] = b
  OBVIOUS
<1>3. s \in Seq(S) /\ Len(s) = 2 /\ s[1] = a /\ s[2] = b
  <2>1. /\ s \in Seq(S) /\ Len(s) = Len(<<a>>) + Len(<<b>>)
        /\ \A i \in 1..Len(<<a>>) + Len(<<b>>) :
             s[i] = IF i <= Len(<<a>>) THEN <<a>>[i] ELSE <<b>>[i - Len(<<a>>)]
    BY <1>1, ConcatProperties
  <2> QED
    BY <1>2, <2>1
<1> HIDE DEF s, t, S
<1>4. s = t
  BY <1>1, <1>2, <1>3, SeqEqual
<1> QED
  BY <1>4 DEF s, t

(* The amounts still to be paid to the treasury and to be sold, of those   *)
(* that SellRewards read from the balances.                                *)
PendingFee(a) == IF Doing = "PayTreasury" THEN queue[1].amounts[a] ELSE 0

PendingSale(a) ==
  IF Doing = "Swap" THEN queue[1].amounts[a]
  ELSE IF Doing = "PayTreasury" /\ queue[2].type = "Swap" THEN queue[2].amounts[a]
  ELSE 0

(* A message that does not close a transaction has another one behind it.  *)
LEMMA NextMessage ==
  ASSUME TypeOK, OrderInv, ~Idle, Doing \notin LastTypes
  PROVE  queue[2] \in Message
<1> DEFINE k == Len(queue)
<1>1. queue \in Seq(Message) /\ k \in Nat \ {0} /\ Doing = queue[1].type
  BY HeadAndTail DEF TypeOK, Doing
<1>2. k # 1
  BY <1>1 DEF OrderInv, LastOf
<1> HIDE DEF k
<1>3. 2 \in 1..k
  BY <1>1, <1>2
<1> QED
  BY <1>1, <1>3, ElementOfSeq DEF k

LEMMA SaleType ==
  ASSUME TypeOK, OrderInv, NEW a \in Assets
  PROVE  PendingSale(a) \in Nat
<1>1. ~Idle => queue[1] \in Message
  BY HeadAndTail DEF TypeOK
<1>2. CASE Doing = "Swap"
  BY <1>1, <1>2, MessageFields DEF PendingSale, Doing, Amounts
<1>3. CASE Doing = "PayTreasury" /\ queue[2].type = "Swap"
  <2>1. queue[2] \in Message
    BY <1>3, NextMessage DEF Doing, LastTypes
  <2> QED
    BY <1>3, <2>1, MessageFields DEF PendingSale, Amounts
<1> QED
  BY <1>2, <1>3 DEF PendingSale

LEMMA SaleFlow ==
  ASSUME TypeOK, OrderInv, CallbackSellRewards
  PROVE  /\ OrderInv' /\ donated' = donated
         /\ Doing = "SellRewards" /\ ~Idle' /\ saved' = saved
         /\ LastOf(queue') = LastOf(queue)
         /\ Doing' \in {"PayTreasury", "Swap", "ProvideLiquidity"}
         /\ \A a \in Assets : /\ PendingFee(a)' = FeeToTreasury[a]
                              /\ PendingSale(a)' = ToSell[a]
<1> DEFINE pay == Move("PayTreasury", FeeToTreasury)
           swap == Move("Swap", ToSell)
<1>1. /\ ~Idle /\ Head(queue).type = "SellRewards" /\ CompoundingTypeOK
      /\ Continue(SaleMessages)
  BY DEF CallbackSellRewards, Handles, SaleMessages, TypeOK
<1>2. SaleMessages \in Seq(Message) /\ pay \in Message /\ swap \in Message
  BY <1>1, SaleMessagesType, BasketsType, MessageConstructors
<1>3. /\ pay.type = "PayTreasury" /\ pay.amounts = FeeToTreasury
      /\ swap.type = "Swap" /\ swap.amounts = ToSell
  BY DEF Move
<1>4. SaleMessages = NonEmpty(FeeToTreasury, <<pay>>) \o NonEmpty(ToSell, <<swap>>)
  BY DEF SaleMessages
<1>5. \A a \in Assets : Nothing[a] = 0
  BY DEF Nothing
<1>6. \A type : <<"SellRewards", type>> \in Follows => type = "ProvideLiquidity"
  BY DEF Follows
<1>7. /\ <<"PayTreasury", "Swap">> \in Follows
      /\ <<"PayTreasury", "ProvideLiquidity">> \in Follows
      /\ <<"Swap", "ProvideLiquidity">> \in Follows /\ "SellRewards" \notin LastTypes
  BY DEF Follows, LastTypes
<1> HIDE DEF pay, swap
<1>8. CASE FeeToTreasury = Nothing /\ ToSell = Nothing
  <2>1. SaleMessages = <<>>
    BY <1>4, <1>8 DEF NonEmpty
  <2>2. /\ OrderInv' /\ donated' = donated /\ Doing = "SellRewards"
        /\ ~Idle' /\ saved' = saved /\ <<Doing, Doing'>> \in Follows
        /\ LastOf(queue') = LastOf(queue)
    BY <1>1, <1>7, <2>1, DoneFlow
  <2>3. Doing' = "ProvideLiquidity"
    BY <1>6, <2>2
  <2> QED
    BY <1>5, <1>8, <2>2, <2>3 DEF PendingFee, PendingSale
<1>9. CASE FeeToTreasury # Nothing /\ ToSell = Nothing
  <2>1. SaleMessages = <<pay>>
    BY <1>2, <1>4, <1>9, ConcatEmptySeq, <<pay>> \in Seq(Message) DEF NonEmpty
  <2>2. /\ OrderInv' /\ donated' = donated /\ Doing = "SellRewards"
        /\ ~Idle' /\ saved' = saved /\ <<Doing, queue[2].type>> \in Follows
        /\ queue'[1] = pay /\ Doing' = pay.type /\ queue'[2] = queue[2]
        /\ LastOf(queue') = LastOf(queue)
    BY <1>1, <1>2, <1>3, <1>6, <1>7, <2>1, OneSentFlow
  <2>3. Doing' = "PayTreasury" /\ queue'[1].amounts = FeeToTreasury
        /\ queue'[2].type = "ProvideLiquidity"
    BY <1>3, <1>6, <2>2
  <2> QED
    BY <1>5, <1>9, <2>2, <2>3 DEF PendingFee, PendingSale
<1>10. CASE FeeToTreasury = Nothing /\ ToSell # Nothing
  <2>1. SaleMessages = <<swap>>
    BY <1>2, <1>4, <1>10, ConcatEmptySeq, <<swap>> \in Seq(Message) DEF NonEmpty
  <2>2. /\ OrderInv' /\ donated' = donated /\ Doing = "SellRewards"
        /\ ~Idle' /\ saved' = saved
        /\ queue'[1] = swap /\ Doing' = swap.type
        /\ LastOf(queue') = LastOf(queue)
    BY <1>1, <1>2, <1>3, <1>6, <1>7, <2>1, OneSentFlow
  <2>3. Doing' = "Swap" /\ queue'[1].amounts = ToSell
    BY <1>3, <2>2
  <2> QED
    BY <1>5, <1>10, <2>2, <2>3 DEF PendingFee, PendingSale
<1>11. CASE FeeToTreasury # Nothing /\ ToSell # Nothing
  <2>1. SaleMessages = <<pay, swap>>
    BY <1>4, <1>11, PairIs DEF NonEmpty
  <2>2. InOrder(<<pay, swap>>) /\ LastOf(<<pay, swap>>) = swap
        /\ <<pay, swap>>[1] = pay /\ <<pay, swap>>[2] = swap /\ <<pay, swap>> # <<>>
    BY <1>3, <1>7, TwoMessages
  <2>3. /\ OrderInv' /\ donated' = donated /\ Doing = "SellRewards"
        /\ ~Idle' /\ saved' = saved
        /\ queue'[1] = pay /\ Doing' = pay.type
        /\ LastOf(queue') = LastOf(queue)
    BY <1>1, <1>2, <1>3, <1>6, <1>7, <2>1, <2>2, SentFlow
  <2>4. queue'[2] = swap
    <3>1. queue' = <<pay, swap>> \o Tail(queue)
      BY <1>1, <2>1 DEF Continue
    <3>2. Tail(queue) \in Seq(Message) /\ <<pay, swap>> \in Seq(Message)
          /\ Len(<<pay, swap>>) = 2 /\ Len(Tail(queue)) \in Nat
      BY <1>1, <1>2, <2>1, HeadAndTail, LenProperties DEF TypeOK
    <3> QED
      BY <2>2, <3>1, <3>2, ConcatProperties, 2 \in 1..(2 + Len(Tail(queue)))
  <2>5. /\ Doing' = "PayTreasury" /\ queue'[1].amounts = FeeToTreasury
        /\ queue'[2].type = "Swap" /\ queue'[2].amounts = ToSell
    BY <1>3, <2>3, <2>4
  <2> QED
    BY <2>3, <2>5 DEF PendingFee, PendingSale
<1> QED
  BY <1>8, <1>9, <1>10, <1>11

LEMMA ProvideFlow ==
  ASSUME TypeOK, OrderInv, CallbackProvideLiquidity
  PROVE  /\ OrderInv' /\ donated' = donated
         /\ Doing = "ProvideLiquidity" /\ ~Idle' /\ saved' = saved
         /\ LastOf(queue') = LastOf(queue)
         /\ \/ Doing' = "JoinPool" /\ queue'[1].amounts = ToProvide
            \/ Doing' = "Stake"
<1> DEFINE join == Move("JoinPool", ToProvide)
<1>1. /\ ~Idle /\ Head(queue).type = "ProvideLiquidity" /\ join \in Message
      /\ Continue(NonEmpty(ToProvide, <<join>>))
  BY BasketsType, MessageConstructors DEF CallbackProvideLiquidity, Handles, TypeOK
<1>2. join.type = "JoinPool" /\ join.amounts = ToProvide
  BY DEF Move
<1>3. /\ \A type : <<"ProvideLiquidity", type>> \in Follows => type = "Stake"
      /\ <<"JoinPool", "Stake">> \in Follows /\ "ProvideLiquidity" \notin LastTypes
  BY DEF Follows, LastTypes
<1> HIDE DEF join
<1>4. CASE Continue(<<>>)
  <2>1. /\ OrderInv' /\ donated' = donated /\ Doing = "ProvideLiquidity"
        /\ ~Idle' /\ saved' = saved /\ <<Doing, Doing'>> \in Follows
        /\ LastOf(queue') = LastOf(queue)
    BY <1>1, <1>3, <1>4, DoneFlow
  <2> QED
    BY <1>3, <2>1
<1>5. CASE Continue(<<join>>)
  <2>1. /\ OrderInv' /\ donated' = donated /\ Doing = "ProvideLiquidity"
        /\ ~Idle' /\ saved' = saved
        /\ queue'[1] = join /\ Doing' = join.type
        /\ LastOf(queue') = LastOf(queue)
    BY <1>1, <1>2, <1>3, <1>5, OneSentFlow
  <2> QED
    BY <1>2, <2>1
<1> QED
  BY <1>1, <1>4, <1>5 DEF NonEmpty

LEMMA StakeFlow ==
  ASSUME TypeOK, OrderInv, CallbackStake
  PROVE  /\ OrderInv' /\ donated' = donated
         /\ Doing = "Stake" /\ Head(queue) = queue[1] /\ ~Idle' /\ saved' = saved
         /\ LastOf(queue') = LastOf(queue)
         /\ AmountToStake \in Nat
         /\ IF AmountToStake = 0
            THEN Doing' \in {"MintVaultToken", "Redeem"}
            ELSE Doing' = "ToGenerator" /\ Head(queue').amount = AmountToStake
<1> DEFINE m == ToGenerator(AmountToStake)
<1>1. ~Idle /\ Head(queue).type = "Stake" /\ AmountToStake \in Nat
  BY AmountToStakeType DEF CallbackStake, Handles
<1>2. m \in Message /\ m.type = "ToGenerator" /\ m.amount = AmountToStake
  BY <1>1, MessageConstructors DEF ToGenerator
<1>3. Continue(IF AmountToStake = 0 THEN <<>> ELSE <<m>>)
  BY DEF CallbackStake
<1>4. /\ \A type : <<"Stake", type>> \in Follows
                     => /\ type \in {"MintVaultToken", "Redeem"}
                        /\ <<"ToGenerator", type>> \in Follows
      /\ "Stake" \notin LastTypes
  BY DEF Follows, LastTypes
<1> HIDE DEF m
<1>5. CASE AmountToStake = 0
  <2>1. Continue(<<>>)
    BY <1>3, <1>5
  <2>2. /\ OrderInv' /\ donated' = donated /\ Doing = "Stake" /\ Head(queue) = queue[1]
        /\ ~Idle' /\ saved' = saved /\ <<Doing, Doing'>> \in Follows
        /\ LastOf(queue') = LastOf(queue)
    BY <1>1, <1>4, <2>1, DoneFlow
  <2> QED
    BY <1>1, <1>4, <1>5, <2>2
<1>6. CASE AmountToStake # 0
  <2>1. Continue(<<m>>)
    BY <1>3, <1>6
  <2>2. /\ OrderInv' /\ donated' = donated /\ Doing = "Stake" /\ Head(queue) = queue[1]
        /\ ~Idle' /\ saved' = saved
        /\ Head(queue') = m /\ Doing' = m.type
        /\ LastOf(queue') = LastOf(queue)
    BY <1>1, <1>2, <1>4, <2>1, OneSentFlow
  <2> QED
    BY <1>1, <1>2, <1>6, <2>2
<1> QED
  BY <1>5, <1>6

(* A redemption sends what it unstakes to the recipient.                   *)
LEMMA RedeemFlow ==
  ASSUME TypeOK, OrderInv, CallbackRedeem
  PROVE  /\ OrderInv' /\ donated' = donated
         /\ Doing = "Redeem" /\ Head(queue) = queue[1] /\ LastOf(queue) = queue[1]
         /\ ~Idle' /\ saved' = saved
         /\ Doing' = "FromGenerator" /\ Head(queue').amount = BurnValue
         /\ queue'[2].amount = BurnValue /\ LastOf(queue').type = "SendTo"
<1> DEFINE m == FromGenerator(BurnValue)
           n == SendTo(Head(queue).user, BurnValue)
           messages == <<m, n>>
<1>1. ~Idle /\ Head(queue).type = "Redeem" /\ queue \in Seq(Message)
  BY DEF CallbackRedeem, Handles, TypeOK
<1>2. BurnValue \in Nat /\ Head(queue).user \in Accounts
  BY BurnedShares DEF TypeOK
<1>3. /\ m \in Message /\ m.type = "FromGenerator" /\ m.amount = BurnValue
      /\ n \in Message /\ n.type = "SendTo" /\ n.amount = BurnValue
  BY <1>2, MessageConstructors DEF FromGenerator, SendTo
<1>4. Continue(messages)
  BY DEF CallbackRedeem
<1>5. /\ \A type : <<"Redeem", type>> \notin Follows
      /\ <<"FromGenerator", "SendTo">> \in Follows /\ "SendTo" \in LastTypes
  BY DEF Follows, LastTypes
<1>6. Head(queue) = queue[1] /\ Len(queue) \in Nat \ {0}
  BY <1>1, HeadAndTail
<1>7. Len(queue) = 1
  <2> SUFFICES ASSUME Len(queue) # 1 PROVE FALSE
    OBVIOUS
  <2> DEFINE k == Len(queue)
  <2>3. k \in Nat \ {0} /\ k # 1
    BY <1>6
  <2> HIDE DEF k
  <2>4. 1 \in 1..k /\ 1 < k
    BY <2>3
  <2>1. 1 \in 1..Len(queue) /\ 1 < Len(queue)
    BY <2>4 DEF k
  <2>2. <<queue[1].type, queue[1 + 1].type>> \in Follows
    BY <2>1 DEF OrderInv, InOrder
  <2> QED
    BY <1>1, <1>5, <1>6, <2>2
<1> HIDE DEF m, n
<1>8. /\ InOrder(messages) /\ Len(messages) = 2 /\ messages # <<>>
      /\ messages[1] = m /\ messages[2] = n /\ LastOf(messages) = n
  BY <1>3, <1>5, TwoMessages
<1>9. messages \in Seq(Message)
  BY <1>3
<1> HIDE DEF messages
<1>10. /\ OrderInv' /\ donated' = donated
       /\ Doing = Head(queue).type /\ LastOf(queue) = queue[1]
       /\ ~Idle' /\ (~Idle' => saved' = saved)
       /\ Doing' = messages[1].type /\ Head(queue') = messages[1]
       /\ queue' = messages
  BY <1>1, <1>3, <1>4, <1>5, <1>7, <1>8, <1>9, QueueAfter
<1> QED
  BY <1>1, <1>3, <1>6, <1>8, <1>10

(* The messages of a transaction, when it begins.                          *)
CountsFrom(amount) == {m \in Message : m.type = "Stake" => m.amount = amount}

LEMMA CompoundShape ==
  ASSUME holds \in Amounts
  PROVE  /\ Compound \in Seq(CountsFrom(holds[BaseToken]))
         /\ InOrder(Compound) /\ Compound # <<>>
         /\ Compound[1].type \in {"ClaimRewards", "SellRewards"}
         /\ LastOf(Compound).type = "Stake"
<1> DEFINE stake == Stake(holds[BaseToken])
           rest == <<SellRewards, ProvideLiquidity, stake>>
           first == NonEmpty(generator.pending, <<ClaimRewards>>)
           S == CountsFrom(holds[BaseToken])
<1>1. /\ SellRewards \in Message /\ ProvideLiquidity \in Message
      /\ ClaimRewards \in Message /\ stake \in Message
  BY MessageConstructors, ConstantTypes DEF Amounts
<1>2. /\ SellRewards.type = "SellRewards" /\ ProvideLiquidity.type = "ProvideLiquidity"
      /\ ClaimRewards.type = "ClaimRewards"
      /\ stake.type = "Stake" /\ stake.amount = holds[BaseToken]
  BY DEF SellRewards, ProvideLiquidity, ClaimRewards, Stake
<1>3. SellRewards \in S /\ ProvideLiquidity \in S /\ ClaimRewards \in S /\ stake \in S
  BY <1>1, <1>2 DEF CountsFrom
<1>4. Compound = first \o rest
  BY DEF Compound
<1>5. first = <<>> \/ first = <<ClaimRewards>>
  BY DEF NonEmpty
<1>6. /\ <<"ClaimRewards", "SellRewards">> \in Follows
      /\ <<"SellRewards", "ProvideLiquidity">> \in Follows
      /\ <<"ProvideLiquidity", "Stake">> \in Follows
  BY DEF Follows
<1> HIDE DEF stake, S, first
<1>7. rest \in Seq(S) /\ rest # <<>> /\ rest[1] = SellRewards /\ LastOf(rest) = stake
  BY <1>3 DEF LastOf
<1>8. InOrder(rest)
  BY <1>2, <1>6 DEF InOrder
<1> HIDE DEF rest
<1>9. first \in Seq(S)
  BY <1>3, <1>5, <<>> \in Seq(S), <<ClaimRewards>> \in Seq(S)
<1>10. /\ InOrder(first)
       /\ first # <<>> => first[1] = ClaimRewards /\ LastOf(first) = ClaimRewards
  BY <1>5, NoMessage, OneMessage
<1>11. first # <<>> /\ rest # <<>> => <<LastOf(first).type, rest[1].type>> \in Follows
  BY <1>2, <1>6, <1>7, <1>10
<1>12. /\ InOrder(Compound) /\ Compound # <<>>
       /\ first # <<>> => Compound[1] = first[1]
       /\ LastOf(Compound) = LastOf(rest)
       /\ first = <<>> => Compound = rest
  BY <1>4, <1>7, <1>8, <1>9, <1>10, <1>11, ConcatShape
<1>13. Compound \in Seq(S)
  BY <1>4, <1>7, <1>9, ConcatProperties
<1> QED
  BY <1>2, <1>7, <1>10, <1>12, <1>13 DEF S

LEMMA DepositFlow ==
  ASSUME TypeOK, NEW user \in Users, NEW recipient \in Accounts, NEW amount \in Nat,
         ExecuteDeposit(user, amount, recipient)
  PROVE  /\ OrderInv' /\ donated' = donated /\ ~Idle' /\ saved' = Snapshot
         /\ queue' \in Seq(CountsFrom(holds[BaseToken]))
         /\ Doing' = "ReceiveFrom" /\ Head(queue') = ReceiveFrom(user, amount)
         /\ LastOf(queue') = MintVaultToken(amount, recipient)
<1> DEFINE S == CountsFrom(holds[BaseToken])
           r == ReceiveFrom(user, amount)
           m == MintVaultToken(amount, recipient)
           first == <<r>>
           last == <<m>>
           start == first \o Compound
<1>1. holds \in Amounts
  BY DEF TypeOK, CompoundingTypeOK
<1>2. /\ Compound \in Seq(S) /\ InOrder(Compound) /\ Compound # <<>>
      /\ Compound[1].type \in {"ClaimRewards", "SellRewards"}
      /\ LastOf(Compound).type = "Stake"
  BY <1>1, CompoundShape
<1>3. r \in Message /\ m \in Message /\ r.type = "ReceiveFrom" /\ m.type = "MintVaultToken"
  BY MessageConstructors DEF ReceiveFrom, MintVaultToken
<1>4. r \in S /\ m \in S
  BY <1>3 DEF CountsFrom
<1>5. BeginTx(first \o Compound \o last)
  BY DEF ExecuteDeposit
<1>6. /\ <<"ReceiveFrom", "ClaimRewards">> \in Follows
      /\ <<"ReceiveFrom", "SellRewards">> \in Follows
      /\ <<"Stake", "MintVaultToken">> \in Follows /\ "MintVaultToken" \in LastTypes
  BY DEF Follows, LastTypes
<1> HIDE DEF r, m, S
<1>7. /\ first \in Seq(S) /\ InOrder(first) /\ first # <<>> /\ first[1] = r /\ LastOf(first) = r
      /\ last \in Seq(S) /\ InOrder(last) /\ last # <<>> /\ last[1] = m /\ LastOf(last) = m
  BY <1>4, OneMessage
<1> HIDE DEF first, last
<1>8. /\ start \in Seq(S) /\ InOrder(start) /\ start # <<>> /\ start[1] = r
      /\ LastOf(start).type = "Stake"
  <2>1. /\ <<LastOf(first).type, Compound[1].type>> \in Follows
    BY <1>2, <1>3, <1>6, <1>7
  <2> QED
    BY <1>2, <1>7, <2>1, ConcatShape, ConcatProperties
<1> HIDE DEF start
<1> DEFINE all == start \o last
<1>9. all \in Seq(S) /\ InOrder(all) /\ all # <<>> /\ all[1] = r /\ LastOf(all) = m
  BY <1>3, <1>6, <1>7, <1>8, ConcatShape, ConcatProperties
<1>10. BeginTx(all)
  BY <1>5 DEF start
<1> HIDE DEF all
<1>11. Head(all) = all[1]
  BY <1>9, HeadTailProperties
<1> QED
  BY <1>3, <1>6, <1>9, <1>10, <1>11
  DEF BeginTx, OrderInv, Idle, Doing, InOrder, LastOf, S, r, m

LEMMA StartRedeemFlow ==
  ASSUME TypeOK, NEW user \in Users, NEW recipient \in Accounts, NEW vaultTokens,
         ExecuteRedeem(user, vaultTokens, recipient)
  PROVE  /\ OrderInv' /\ donated' = donated /\ ~Idle' /\ saved' = Snapshot
         /\ queue' \in Seq(CountsFrom(holds[BaseToken]))
         /\ Doing' \in {"ClaimRewards", "SellRewards"}
         /\ LastOf(queue') = Redeem(vaultTokens, recipient)
<1> DEFINE S == CountsFrom(holds[BaseToken])
           m == Redeem(vaultTokens, recipient)
           last == <<m>>
           all == Compound \o last
<1>1. holds \in Amounts /\ vaultTokens \in Nat
  BY TransferType, ConstantTypes DEF ExecuteRedeem, TypeOK, CompoundingTypeOK
<1>2. /\ Compound \in Seq(S) /\ InOrder(Compound) /\ Compound # <<>>
      /\ Compound[1].type \in {"ClaimRewards", "SellRewards"}
      /\ LastOf(Compound).type = "Stake"
  BY <1>1, CompoundShape
<1>3. m \in Message /\ m.type = "Redeem"
  BY <1>1, MessageConstructors DEF Redeem
<1>4. m \in S
  BY <1>3 DEF CountsFrom
<1>5. BeginTx(all)
  BY DEF ExecuteRedeem
<1>6. <<"Stake", "Redeem">> \in Follows /\ "Redeem" \in LastTypes
  BY DEF Follows, LastTypes
<1> HIDE DEF m, S
<1>7. last \in Seq(S) /\ InOrder(last) /\ last # <<>> /\ last[1] = m /\ LastOf(last) = m
  BY <1>4, OneMessage
<1> HIDE DEF last
<1>9. /\ all \in Seq(S) /\ InOrder(all) /\ all # <<>> /\ all[1] = Compound[1]
      /\ LastOf(all) = m
  BY <1>2, <1>3, <1>6, <1>7, ConcatShape, ConcatProperties
<1> HIDE DEF all
<1> QED
  BY <1>2, <1>3, <1>5, <1>6, <1>9
  DEF BeginTx, OrderInv, Idle, Doing, InOrder, LastOf, S, m

(* A transaction that fails leaves no message; nothing else touches the    *)
(* queue between transactions.                                             *)
LEMMA RevertFlow ==
  ASSUME Revert
  PROVE  /\ OrderInv' /\ Idle' /\ Doing' = "None" /\ donated' = donated
         /\ saved' = NoTx
<1>1. queue' = <<>>
  BY DEF Revert
<1>2. OrderInv'
  BY <1>1 DEF OrderInv, InOrder, Idle
<1> QED
  BY <1>1, <1>2 DEF Revert, Idle, Doing

LEMMA QuietFlow ==
  ASSUME OrderInv, UNCHANGED <<queue, saved>>
  PROVE  OrderInv' /\ (Idle' <=> Idle) /\ Doing' = Doing
  BY DEF OrderInv, InOrder, LastOf, Idle, Doing

(* What a message may be followed by, one at a time.                       *)
LEMMA FollowsIs ==
  ASSUME NEW a, NEW b, <<a, b>> \in Follows
  PROVE  /\ a = "ReceiveFrom" => b \in {"ClaimRewards", "SellRewards"}
         /\ a = "ClaimRewards" => b = "SellRewards"
         /\ a = "SellRewards" => b = "ProvideLiquidity"
         /\ a = "PayTreasury" => b \in {"Swap", "ProvideLiquidity"}
         /\ a = "Swap" => b = "ProvideLiquidity"
         /\ a = "ProvideLiquidity" => b = "Stake"
         /\ a = "JoinPool" => b = "Stake"
         /\ a \in {"Stake", "ToGenerator"} => b \in {"MintVaultToken", "Redeem"}
         /\ a = "FromGenerator" => b = "SendTo"
         /\ a \notin LastTypes /\ b \notin {"JoinPool", "ReceiveFrom"}
         /\ b = "Swap" => a = "PayTreasury"
         /\ b # "PayTreasury"
  BY DEF Follows, LastTypes

----------------------------------------------------------------------------
(* Rewards are split between the treasury and the sale.                    *)

(* The fee that is due on a balance is what the balance loses.             *)
LEMMA FeeIsTheRest ==
  ASSUME config \in Configs, NEW balance \in Nat
  PROVE  FeeOn(balance) = balance - BalanceAfterFee(balance, config.performanceFee)
<1> DEFINE D == DecimalOne
           f == config.performanceFee
           p == balance * f
           keep == balance * (D - f)
           q == keep \div D
           e == balance - q
           top == p + D - 1
           r == top \div D
<1>1. D \in Nat \ {0} /\ f \in Nat /\ f <= D /\ D - f \in Nat
  BY ConfigType, ConstantTypes
<1>2. p \in Nat /\ keep \in Nat /\ keep = balance * D - p
  BY <1>1, Z3
<1>3. q = BalanceAfterFee(balance, f)
  BY DEF BalanceAfterFee, MultiplyRatio
<1>4. r = FeeOn(balance)
  BY DEF FeeOn
<1>5. top \in Nat
  BY <1>1, <1>2
<1>6. top = p + D - 1
  OBVIOUS
<1> HIDE DEF p, keep, f, top, D
<1>7. q \in Nat /\ D * q <= keep /\ keep < D * q + D
  BY <1>1, <1>2, Z3
<1>8. r \in Nat /\ D * r <= top /\ top < D * r + D
  BY <1>1, <1>5, Z3
<1>9. e \in Int /\ e = balance - q
  BY <1>7
<1> HIDE DEF q, r, e
<1>10. D * e = balance * D - D * q
  BY <1>1, <1>7, <1>9, Z3
<1>11. D * e < D * r + D /\ D * r < D * e + D
  BY <1>1, <1>2, <1>6, <1>7, <1>8, <1>10, balance * D \in Nat, D * q \in Nat, D * r \in Nat
<1>12. e < r + 1 /\ r < e + 1
  BY <1>1, <1>8, <1>9, <1>11, Z3
<1>13. e = r
  BY <1>8, <1>9, <1>12
<1> QED
  BY <1>3, <1>4, <1>9, <1>13 DEF f

(* Either the accounts of a sold reward agree, with the fee and the sale   *)
(* that are still to come, or more is to be paid out than there is, and    *)
(* the transaction is going to fail (an asset that is listed twice).       *)
SplitInv ==
  \A a \in OtherAssets :
    \/ /\ treasury[a] + PendingFee(a) = due[a]
       /\ holds[a] = fresh[a] + PendingFee(a) + PendingSale(a)
    \/ PendingFee(a) + PendingSale(a) > holds[a]

(* Only assets of the pool are brought to it.                              *)
JoinInv ==
  Doing = "JoinPool" => \A a \in Assets \ PoolAssets : queue[1].amounts[a] = 0

SavedSplitInv ==
  ~Idle => \A a \in OtherAssets :
             saved.holds[a] = saved.fresh[a] /\ saved.treasury[a] = saved.due[a]

SplitIInv == OrderInv /\ SplitInv /\ JoinInv /\ SavedSplitInv

Baskets == {"PayTreasury", "Swap"}

LEMMA NothingPending ==
  ASSUME TypeOK, Doing \notin Baskets
  PROVE  /\ \A a \in Assets : PendingFee(a) = 0 /\ PendingSale(a) = 0
         /\ SplitInv => \A a \in OtherAssets : treasury[a] = due[a] /\ holds[a] = fresh[a]
<1>1. \A a : PendingFee(a) = 0 /\ PendingSale(a) = 0
  BY DEF PendingFee, PendingSale, Baskets
<1>2. \A a \in OtherAssets :
        holds[a] \in Nat /\ fresh[a] \in Nat /\ treasury[a] \in Nat /\ due[a] \in Nat
  BY ConstantTypes DEF TypeOK, CompoundingTypeOK, Amounts
<1> QED
  BY <1>1, <1>2 DEF SplitInv

LEMMA SettledSplit ==
  ASSUME TypeOK', Doing' \notin Baskets,
         \A a \in OtherAssets : treasury'[a] = due'[a] /\ holds'[a] = fresh'[a]
  PROVE  SplitInv'
<1>1. \A a : PendingFee(a)' = 0 /\ PendingSale(a)' = 0
  BY DEF PendingFee, PendingSale, Baskets
<1>2. \A a \in OtherAssets : fresh'[a] \in Nat /\ treasury'[a] \in Nat
  BY ConstantTypes, TypesAreFixed DEF TypeOK, CompoundingTypeOK, Amounts
<1> QED
  BY <1>1, <1>2 DEF SplitInv

(* A step of a transaction that leaves the reward accounts alone.          *)
LEMMA SplitKept ==
  ASSUME TypeOK, TypeOK', SplitIInv, OrderInv', Doing \notin Baskets, Doing' \notin Baskets,
         \A a \in OtherAssets : holds'[a] = holds[a],
         UNCHANGED <<treasury, fresh, due>>,
         JoinInv', SavedSplitInv'
  PROVE  SplitIInv'
<1>1. \A a \in OtherAssets : treasury[a] = due[a] /\ holds[a] = fresh[a]
  BY NothingPending DEF SplitIInv
<1>2. SplitInv'
  BY <1>1, SettledSplit
<1> QED
  BY <1>2 DEF SplitIInv

LEMMA SavedSplitKept ==
  ASSUME SavedSplitInv, ~Idle, saved' = saved
  PROVE  SavedSplitInv'
  BY DEF SavedSplitInv

LEMMA SellRewardsSplit ==
  ASSUME TypeOK, SplitIInv, CallbackSellRewards
  PROVE  SplitIInv'
<1>1. /\ OrderInv' /\ Doing = "SellRewards" /\ ~Idle' /\ saved' = saved
      /\ Doing' \in {"PayTreasury", "Swap", "ProvideLiquidity"}
      /\ \A a \in Assets : PendingFee(a)' = FeeToTreasury[a] /\ PendingSale(a)' = ToSell[a]
  BY SaleFlow DEF SplitIInv
<1>2. \A a \in OtherAssets : treasury[a] = due[a] /\ holds[a] = fresh[a]
  BY <1>1, NothingPending DEF SplitIInv, Baskets
<1>3. /\ holds' = holds /\ treasury' = treasury
      /\ \A a \in Assets :
           /\ due'[a] = IF Listed(a) > 0 THEN due[a] + FeeOn(fresh[a]) ELSE due[a]
           /\ fresh'[a] = IF Listed(a) > 0 THEN 0 ELSE fresh[a]
  BY DEF CallbackSellRewards, RewardsCounted
<1>4. ASSUME NEW a \in OtherAssets
      PROVE  \/ /\ treasury[a] + FeeToTreasury[a] = due'[a]
                /\ holds[a] = fresh'[a] + FeeToTreasury[a] + ToSell[a]
             \/ FeeToTreasury[a] + ToSell[a] > holds[a]
  <2> DEFINE rest == AfterFee(a)
             n == Listed(a)
             h == holds[a]
             fee == h - rest
  <2>1. a \in Assets /\ a # BaseToken /\ a \notin PoolAssets
    BY ConstantTypes
  <2>2. /\ n \in Nat /\ rest \in 0..h /\ h \in Nat /\ due[a] \in Nat
        /\ config \in Configs
    BY <2>1, ListedType, AfterFeeType DEF TypeOK, CompoundingTypeOK, Amounts
  <2>3. FeeToTreasury[a] = n * fee /\ ToSell[a] = n * rest
    BY <2>1 DEF FeeToTreasury, ToSell, IsSold
  <2>4. FeeOn(h) = fee
    BY <2>2, FeeIsTheRest DEF AfterFee
  <2>5. /\ due'[a] = IF n > 0 THEN due[a] + fee ELSE due[a]
        /\ fresh'[a] = IF n > 0 THEN 0 ELSE h
        /\ treasury[a] = due[a]
    BY <1>2, <1>3, <2>1, <2>4
  <2>6. fee \in Nat /\ fee + rest = h /\ rest \in Nat
    BY <2>2
  <2> HIDE DEF rest, n, fee
  <2>7. CASE n = 0
    <3>1. n * fee = 0 /\ n * rest = 0
      BY <2>6, <2>7
    <3> QED
      BY <2>2, <2>3, <2>5, <2>7, <3>1
  <2>8. CASE n = 1
    <3>1. n * fee = fee /\ n * rest = rest
      BY <2>6, <2>8
    <3> QED
      BY <2>2, <2>3, <2>5, <2>6, <2>8, <3>1
  <2>9. CASE n > 1 /\ h = 0
    <3>1. fee = 0 /\ rest = 0
      BY <2>6, <2>9
    <3>2. n * fee = 0 /\ n * rest = 0
      BY <2>2, <3>1
    <3> QED
      BY <2>2, <2>3, <2>5, <2>9, <3>1, <3>2
  <2>10. CASE n > 1 /\ h # 0
    <3>1. n * fee \in Nat /\ n * rest \in Nat /\ n * fee + n * rest = n * h
      BY <2>2, <2>6, Z3
    <3>2. n * h > h
      BY <2>2, <2>10, Z3
    <3> QED
      BY <2>3, <3>1, <3>2
  <2> QED
    BY <2>2, <2>7, <2>8, <2>9, <2>10
<1>5. SplitInv'
  BY <1>1, <1>3, <1>4, ConstantTypes DEF SplitInv
<1>6. JoinInv' /\ SavedSplitInv'
  BY <1>1, SavedSplitKept DEF SplitIInv, JoinInv, CallbackSellRewards, Handles
<1> QED
  BY <1>1, <1>5, <1>6 DEF SplitIInv

(* The treasury is paid, and then the rest is sold.                        *)
LEMMA PayTreasurySplit ==
  ASSUME TypeOK, TypeOK', SplitIInv, HandleMove, Doing = "PayTreasury"
  PROVE  SplitIInv'
<1> DEFINE amounts == queue[1].amounts
<1>1. ~Idle /\ Continue(<<>>) /\ OrderInv
  BY DEF HandleMove, Handles, SplitIInv
<1>2. /\ OrderInv' /\ Doing = Head(queue).type /\ Head(queue) = queue[1]
      /\ ~Idle' /\ saved' = saved /\ <<Doing, Doing'>> \in Follows /\ queue'[1] = queue[2]
  BY <1>1, DoneFlow DEF LastTypes
<1>3. PayTreasury(amounts)
  BY <1>2 DEF HandleMove, Handles
<1>4. Doing' \in {"Swap", "ProvideLiquidity"} /\ Doing' = queue[2].type
  BY <1>2, FollowsIs DEF Doing
<1>5. amounts \in Amounts
  BY <1>2, HeadAndTail, MessageFields, <1>1 DEF TypeOK
<1>6. ASSUME NEW a \in OtherAssets
      PROVE  /\ PendingFee(a) = amounts[a] /\ PendingFee(a)' = 0
             /\ PendingSale(a)' = PendingSale(a)
             /\ amounts[a] <= holds[a] /\ holds'[a] = holds[a] - amounts[a]
             /\ treasury'[a] = treasury[a] + amounts[a]
             /\ fresh' = fresh /\ due' = due
  <2>1. a \in Assets /\ a # BaseToken
    BY ConstantTypes
  <2>2. amounts[a] <= holds[a] /\ holds'[a] = holds[a] - amounts[a] + 0
        /\ treasury'[a] = treasury[a] + amounts[a] /\ fresh' = fresh /\ due' = due
    BY <1>3, <2>1 DEF PayTreasury, SpendAndGet, CanSpend
  <2>3. holds[a] \in Nat /\ amounts[a] \in Nat
    BY <1>5, <2>1 DEF TypeOK, CompoundingTypeOK, Amounts
  <2>4. PendingFee(a) = amounts[a] /\ PendingFee(a)' = 0 /\ PendingSale(a)' = PendingSale(a)
    BY <1>2, <1>4 DEF PendingFee, PendingSale
  <2> QED
    BY <2>2, <2>3, <2>4
<1>7. ASSUME NEW a \in OtherAssets
      PROVE  \/ /\ treasury'[a] + PendingFee(a)' = due'[a]
                /\ holds'[a] = fresh'[a] + PendingFee(a)' + PendingSale(a)'
             \/ PendingFee(a)' + PendingSale(a)' > holds'[a]
  <2> DEFINE sale == PendingSale(a)
  <2>1. /\ holds[a] \in Nat /\ fresh[a] \in Nat /\ treasury[a] \in Nat /\ due[a] \in Nat
        /\ amounts[a] \in Nat
    BY <1>5, ConstantTypes DEF TypeOK, CompoundingTypeOK, Amounts
  <2>2. sale \in Nat
    BY <1>1, SaleType, ConstantTypes
  <2>3. \/ treasury[a] + amounts[a] = due[a] /\ holds[a] = fresh[a] + amounts[a] + sale
        \/ amounts[a] + sale > holds[a]
    BY <1>6 DEF SplitIInv, SplitInv
  <2> HIDE DEF sale
  <2> QED
    BY <1>6, <2>1, <2>2, <2>3 DEF sale
<1>8. SplitInv'
  BY <1>7, ConstantTypes DEF SplitInv
<1>9. JoinInv' /\ SavedSplitInv'
  BY <1>1, <1>2, <1>4, SavedSplitKept DEF SplitIInv, JoinInv
<1> QED
  BY <1>2, <1>8, <1>9 DEF SplitIInv

LEMMA SwapSplit ==
  ASSUME TypeOK, TypeOK', SplitIInv, HandleMove, Doing = "Swap"
  PROVE  SplitIInv'
<1> DEFINE amounts == queue[1].amounts
<1>1. ~Idle /\ Continue(<<>>) /\ OrderInv
  BY DEF HandleMove, Handles, SplitIInv
<1>2. /\ OrderInv' /\ Doing = Head(queue).type /\ Head(queue) = queue[1]
      /\ ~Idle' /\ saved' = saved /\ <<Doing, Doing'>> \in Follows
  BY <1>1, DoneFlow DEF LastTypes
<1>3. SwapBasket(amounts)
  BY <1>2 DEF HandleMove, Handles
<1>4. Doing' = "ProvideLiquidity"
  BY <1>2, FollowsIs
<1>5. amounts \in Amounts
  BY <1>2, HeadAndTail, MessageFields, <1>1 DEF TypeOK
<1>6. PICK target \in Assets, out \in Nat :
        /\ SpendAndGet(amounts, target, out)
        /\ \A a \in Assets :
              fresh'[a] = fresh[a] + (IF a = target /\ IsSold(a) THEN out ELSE 0)
        /\ UNCHANGED <<treasury, due>>
  BY <1>3, <1>5, SwapBasketIs DEF TypeOK, CompoundingTypeOK
<1>7. ASSUME NEW a \in OtherAssets
      PROVE  treasury'[a] = due'[a] /\ holds'[a] = fresh'[a]
  <2> DEFINE more == IF a = target THEN out ELSE 0
  <2>1. a \in Assets /\ IsSold(a) /\ more \in Nat
    BY ConstantTypes DEF IsSold
  <2>2. /\ amounts[a] <= holds[a] /\ holds'[a] = holds[a] - amounts[a] + more
        /\ treasury' = treasury /\ fresh'[a] = fresh[a] + more /\ due' = due
    BY <1>6, <2>1 DEF SpendAndGet, CanSpend
  <2> HIDE DEF more
  <2>3. /\ holds[a] \in Nat /\ amounts[a] \in Nat /\ fresh[a] \in Nat
        /\ treasury[a] \in Nat /\ due[a] \in Nat
    BY <1>5, <2>1 DEF TypeOK, CompoundingTypeOK, Amounts
  <2>4. PendingFee(a) = 0 /\ PendingSale(a) = amounts[a]
    BY DEF PendingFee, PendingSale
  <2>5. \/ treasury[a] + 0 = due[a] /\ holds[a] = fresh[a] + 0 + amounts[a]
        \/ 0 + amounts[a] > holds[a]
    BY <2>4 DEF SplitIInv, SplitInv
  <2> QED
    BY <2>1, <2>2, <2>3, <2>5
<1>8. SplitInv'
  BY <1>4, <1>7, SettledSplit DEF Baskets
<1>9. JoinInv' /\ SavedSplitInv'
  BY <1>1, <1>2, <1>4, SavedSplitKept DEF SplitIInv, JoinInv
<1> QED
  BY <1>2, <1>8, <1>9 DEF SplitIInv

LEMMA JoinPoolSplit ==
  ASSUME TypeOK, TypeOK', SplitIInv, HandleMove, Doing = "JoinPool"
  PROVE  SplitIInv'
<1> DEFINE amounts == queue[1].amounts
<1>1. ~Idle /\ Continue(<<>>) /\ OrderInv
  BY DEF HandleMove, Handles, SplitIInv
<1>2. /\ OrderInv' /\ Doing = Head(queue).type /\ Head(queue) = queue[1]
      /\ ~Idle' /\ saved' = saved /\ <<Doing, Doing'>> \in Follows
  BY <1>1, DoneFlow DEF LastTypes
<1>3. JoinPool(amounts)
  BY <1>2 DEF HandleMove, Handles
<1>4. Doing' = "Stake"
  BY <1>2, FollowsIs
<1>5. amounts \in Amounts
  BY <1>2, HeadAndTail, MessageFields, <1>1 DEF TypeOK
<1>6. PICK taken \in Amounts, out \in Nat \ {0} :
        /\ SpendAndGet(taken, BaseToken, out)
        /\ \A a \in Assets : a \notin PoolAssets => taken[a] = amounts[a]
  BY <1>3, <1>5, JoinPoolSpends
<1>7. ASSUME NEW a \in OtherAssets
      PROVE  holds'[a] = holds[a]
  <2>1. a \in Assets /\ a # BaseToken /\ a \notin PoolAssets /\ holds[a] \in Nat
    BY ConstantTypes DEF TypeOK, CompoundingTypeOK, Amounts
  <2>2. amounts[a] = 0
    BY <2>1 DEF SplitIInv, JoinInv
  <2>3. holds'[a] = holds[a] - 0 + 0
    BY <1>6, <2>1, <2>2 DEF SpendAndGet
  <2> QED
    BY <2>1, <2>3
<1>8. JoinInv' /\ SavedSplitInv'
  BY <1>1, <1>2, <1>4, SavedSplitKept DEF SplitIInv, JoinInv
<1>9. UNCHANGED <<treasury, fresh, due>>
  BY <1>3 DEF JoinPool
<1> QED
  BY <1>2, <1>4, <1>7, <1>8, <1>9, SplitKept DEF Baskets

(* A message that has nothing to do with the rewards and sends none.       *)
LEMMA QuietMessageSplit ==
  ASSUME TypeOK, TypeOK', SplitIInv, ~Idle, Continue(<<>>),
         Head(queue).type \notin {"PayTreasury", "Swap"},
         \A a \in Assets : a # BaseToken => holds'[a] = holds[a],
         UNCHANGED <<treasury, fresh, due>>
  PROVE  SplitIInv'
<1>1. /\ OrderInv' /\ Doing = Head(queue).type
      /\ Doing \in LastTypes => Idle' /\ saved' = NoTx /\ Doing' = "None"
      /\ Doing \notin LastTypes => ~Idle' /\ saved' = saved /\ <<Doing, Doing'>> \in Follows
  BY DoneFlow DEF SplitIInv
<1>2. Doing' \notin {"PayTreasury", "Swap", "JoinPool"}
  <2>1. CASE Doing \in LastTypes
    BY <1>1, <2>1
  <2>2. CASE Doing \notin LastTypes
    BY <1>1, <2>2, FollowsIs
  <2> QED
    BY <2>1, <2>2
<1>3. JoinInv' /\ SavedSplitInv'
  BY <1>1, <1>2, SavedSplitKept DEF SplitIInv, JoinInv, SavedSplitInv
<1>4. \A a \in OtherAssets : holds'[a] = holds[a]
  BY ConstantTypes
<1> QED
  BY <1>1, <1>2, <1>3, <1>4, SplitKept DEF Baskets

LEMMA ProvideLiquiditySplit ==
  ASSUME TypeOK, TypeOK', SplitIInv, CallbackProvideLiquidity
  PROVE  SplitIInv'
<1>1. /\ OrderInv' /\ Doing = "ProvideLiquidity" /\ ~Idle' /\ saved' = saved
      /\ \/ Doing' = "JoinPool" /\ queue'[1].amounts = ToProvide
         \/ Doing' = "Stake"
  BY ProvideFlow DEF SplitIInv
<1>2. UNCHANGED <<holds, treasury, fresh, due>> /\ ~Idle
  BY DEF CallbackProvideLiquidity, Handles, compoundingVars, assetVars
<1>3. \A a \in Assets \ PoolAssets : ToProvide[a] = 0
  BY DEF ToProvide
<1>4. JoinInv' /\ SavedSplitInv'
  BY <1>1, <1>2, <1>3, SavedSplitKept DEF SplitIInv, JoinInv
<1> QED
  BY <1>1, <1>2, <1>4, SplitKept DEF Baskets

LEMMA StakeSplit ==
  ASSUME TypeOK, TypeOK', SplitIInv, CallbackStake
  PROVE  SplitIInv'
<1>1. /\ OrderInv' /\ Doing = "Stake" /\ ~Idle' /\ saved' = saved
      /\ Doing' \in {"MintVaultToken", "Redeem", "ToGenerator"}
  BY StakeFlow DEF SplitIInv
<1>2. UNCHANGED <<holds, treasury, fresh, due>> /\ ~Idle
  BY DEF CallbackStake, Handles, compoundingVars, assetVars
<1>3. JoinInv' /\ SavedSplitInv'
  BY <1>1, <1>2, SavedSplitKept DEF SplitIInv, JoinInv
<1> QED
  BY <1>1, <1>2, <1>3, SplitKept DEF Baskets

LEMMA RedeemSplit ==
  ASSUME TypeOK, TypeOK', SplitIInv, CallbackRedeem
  PROVE  SplitIInv'
<1>1. /\ OrderInv' /\ Doing = "Redeem" /\ ~Idle' /\ saved' = saved
      /\ Doing' = "FromGenerator"
  BY RedeemFlow DEF SplitIInv
<1>2. UNCHANGED <<holds, treasury, fresh, due>> /\ ~Idle
  BY DEF CallbackRedeem, Handles, compoundingVars, assetVars
<1>3. JoinInv' /\ SavedSplitInv'
  BY <1>1, <1>2, SavedSplitKept DEF SplitIInv, JoinInv
<1> QED
  BY <1>1, <1>2, <1>3, SplitKept DEF Baskets

LEMMA ClaimRewardsSplit ==
  ASSUME TypeOK, TypeOK', SplitIInv, HandleClaimRewards
  PROVE  SplitIInv'
<1>1. ~Idle /\ Continue(<<>>) /\ Head(queue).type = "ClaimRewards"
  BY DEF HandleClaimRewards, Handles
<1>2. /\ OrderInv' /\ Doing = "ClaimRewards"
      /\ ~Idle' /\ saved' = saved /\ <<Doing, Doing'>> \in Follows
  BY <1>1, DoneFlow DEF SplitIInv, LastTypes
<1>3. Doing' = "SellRewards"
  BY <1>2, FollowsIs
<1>4. \A a \in OtherAssets : treasury[a] = due[a] /\ holds[a] = fresh[a]
  BY <1>2, NothingPending DEF SplitIInv, Baskets
<1>5. \A a \in OtherAssets : treasury'[a] = due'[a] /\ holds'[a] = fresh'[a]
  BY <1>4, ConstantTypes DEF HandleClaimRewards, RewardsArrive
<1>6. SplitInv'
  BY <1>3, <1>5, SettledSplit DEF Baskets
<1>7. JoinInv' /\ SavedSplitInv'
  BY <1>1, <1>2, <1>3, SavedSplitKept DEF SplitIInv, JoinInv
<1> QED
  BY <1>2, <1>6, <1>7 DEF SplitIInv

LEMMA RevertSplit ==
  ASSUME TypeOK, TypeOK', SplitIInv, ~Idle, Revert
  PROVE  SplitIInv'
<1>1. OrderInv' /\ Idle' /\ Doing' = "None"
  BY RevertFlow
<1>2. \A a \in OtherAssets : treasury'[a] = due'[a] /\ holds'[a] = fresh'[a]
  BY DEF Revert, SplitIInv, SavedSplitInv
<1>3. SplitInv'
  BY <1>1, <1>2, SettledSplit DEF Baskets
<1> QED
  BY <1>1, <1>3 DEF SplitIInv, JoinInv, SavedSplitInv

(* A transaction begins, with the state to go back to.                     *)
LEMMA BeginSplit ==
  ASSUME TypeOK, TypeOK', SplitIInv, Idle, OrderInv', saved' = Snapshot,
         Doing' \in {"ReceiveFrom", "ClaimRewards", "SellRewards"},
         UNCHANGED compoundingVars
  PROVE  SplitIInv'
<1>1. \A a \in OtherAssets : treasury[a] = due[a] /\ holds[a] = fresh[a]
  BY NothingPending DEF SplitIInv, Baskets, Doing
<1>2. SavedSplitInv' /\ JoinInv'
  BY <1>1 DEF Snapshot, SavedSplitInv, JoinInv
<1> QED
  BY <1>2, SplitKept DEF Baskets, Doing, compoundingVars, assetVars

(* A step between transactions.                                            *)
LEMMA IdleSplit ==
  ASSUME TypeOK, TypeOK', SplitIInv, Idle, UNCHANGED <<queue, saved>>,
         \A a \in Assets : a # BaseToken => holds'[a] = holds[a],
         UNCHANGED <<treasury, fresh, due>>
  PROVE  SplitIInv'
<1>1. OrderInv' /\ Idle' /\ Doing = "None" /\ Doing' = "None"
  BY QuietFlow DEF SplitIInv, Doing
<1>2. \A a \in OtherAssets : holds'[a] = holds[a]
  BY ConstantTypes
<1>3. JoinInv' /\ SavedSplitInv'
  BY <1>1 DEF JoinInv, SavedSplitInv
<1> QED
  BY <1>1, <1>2, <1>3, SplitKept DEF Baskets

LEMMA HandleMessageSplit ==
  ASSUME TypeOK, TypeOK', SplitIInv, HandleMessage \/ ExternalFailure
  PROVE  SplitIInv'
<1>1. CASE CallbackMintVaultToken
  <2>1. UNCHANGED <<holds, treasury, fresh, due>>
    BY <1>1 DEF CallbackMintVaultToken, compoundingVars, assetVars
  <2> QED
    BY <1>1, <2>1, QuietMessageSplit DEF CallbackMintVaultToken, Handles
<1>2. CASE HandleReceiveFrom
  BY <1>2, HandleReceiveFromType, QuietMessageSplit
  DEF HandleReceiveFrom, Handles, MoveBaseTokens
<1>3. CASE HandleToGenerator
  BY <1>3, HandleToGeneratorType, QuietMessageSplit
  DEF HandleToGenerator, Handles, MoveBaseTokens
<1>4. CASE HandleFromGenerator
  BY <1>4, HandleFromGeneratorType, QuietMessageSplit
  DEF HandleFromGenerator, Handles, MoveBaseTokens
<1>5. CASE HandleSendTo
  BY <1>5, HandleSendToType, QuietMessageSplit
  DEF HandleSendTo, Handles, MoveBaseTokens
<1>6. CASE HandleMove
  <2>1. Doing \in {"PayTreasury", "Swap", "JoinPool"}
    BY <1>6, HeadAndTail DEF HandleMove, Handles, Doing, TypeOK
  <2> QED
    BY <1>6, <2>1, PayTreasurySplit, SwapSplit, JoinPoolSplit
<1>8. CASE HandleSendToSelf
  <2>1. OrderInv' /\ Idle' /\ Doing = "SendTo" /\ Doing' = "None"
    BY <1>8, SelfFlow DEF SplitIInv
  <2>2. UNCHANGED <<holds, treasury, fresh, due>>
    BY <1>8 DEF HandleSendToSelf, compoundingVars, assetVars
  <2>3. JoinInv' /\ SavedSplitInv'
    BY <2>1 DEF JoinInv, SavedSplitInv
  <2> QED
    BY <2>1, <2>2, <2>3, SplitKept DEF Baskets
<1>7. CASE FailedMessage \/ ExternalFailure
  BY <1>7, RevertSplit DEF FailedMessage, ExternalFailure
<1> QED
  BY <1>1, <1>2, <1>3, <1>4, <1>5, <1>6, <1>7, <1>8, SellRewardsSplit,
     ProvideLiquiditySplit, StakeSplit, RedeemSplit, ClaimRewardsSplit
  DEF HandleMessage

(* The users' transactions, one at a time.                                 *)
LEMMA UserTxIs ==
  ASSUME TypeOK, UserTx
  PROVE  \E user \in Users :
           \/ \E recipient \in Accounts, amount \in Nat \ {0} :
                amount <= lp[user] /\ ExecuteDeposit(user, amount, recipient)
           \/ \E recipient \in Accounts, vaultTokens \in Nat \ {0} :
                ExecuteRedeem(user, vaultTokens, recipient)
           \/ \E to \in Accounts, amount \in Nat \ {0} : ExecuteTransfer(user, to, amount)
<1>1. PICK user \in Users :
        \/ \E recipient \in {user} \cup Recipients :
             \/ \E amount \in 1..lp[user] : ExecuteDeposit(user, amount, recipient)
             \/ \E vaultTokens \in 1..cw20.balance[user] :
                  ExecuteRedeem(user, vaultTokens, recipient)
        \/ \E to \in Accounts \ {user}, amount \in 1..cw20.balance[user] :
             ExecuteTransfer(user, to, amount)
  BY DEF UserTx
<1>2. /\ lp[user] \in Nat /\ cw20.balance[user] \in Nat
      /\ {user} \cup Recipients \subseteq Accounts
  BY ConstantTypes DEF TypeOK, Cw20Type
<1>3. /\ \A n \in 1..lp[user] : n \in Nat \ {0} /\ n <= lp[user]
      /\ \A n \in 1..cw20.balance[user] : n \in Nat \ {0}
  BY <1>2
<1> QED
  BY <1>1, <1>2, <1>3

LEMMA UserTxSplit ==
  ASSUME TypeOK, TypeOK', SplitIInv, UserTx
  PROVE  SplitIInv'
<1>1. PICK user \in Users :
        \/ \E recipient \in Accounts, amount \in Nat \ {0} :
             amount <= lp[user] /\ ExecuteDeposit(user, amount, recipient)
        \/ \E recipient \in Accounts, vaultTokens \in Nat \ {0} :
             ExecuteRedeem(user, vaultTokens, recipient)
        \/ \E to \in Accounts, amount \in Nat \ {0} : ExecuteTransfer(user, to, amount)
  BY UserTxIs
<1>2. ASSUME NEW recipient \in Accounts, NEW amount \in Nat \ {0},
             ExecuteDeposit(user, amount, recipient)
      PROVE  SplitIInv'
  <2>1. OrderInv' /\ saved' = Snapshot /\ Doing' = "ReceiveFrom"
    BY <1>2, DepositFlow, amount \in Nat
  <2> QED
    BY <1>2, <2>1, BeginSplit DEF ExecuteDeposit, BeginTx
<1>3. ASSUME NEW recipient \in Accounts, NEW vaultTokens \in Nat \ {0},
             ExecuteRedeem(user, vaultTokens, recipient)
      PROVE  SplitIInv'
  <2>1. OrderInv' /\ saved' = Snapshot /\ Doing' \in {"ClaimRewards", "SellRewards"}
    BY <1>3, StartRedeemFlow
  <2> QED
    BY <1>3, <2>1, BeginSplit DEF ExecuteRedeem, BeginTx
<1>4. ASSUME NEW to \in Accounts, NEW amount, ExecuteTransfer(user, to, amount)
      PROVE  SplitIInv'
  BY <1>4, IdleSplit DEF ExecuteTransfer, compoundingVars, assetVars
<1> QED
  BY <1>1, <1>2, <1>3, <1>4

LEMMA EnvironmentSplit ==
  ASSUME TypeOK, TypeOK', SplitIInv, Environment
  PROVE  SplitIInv'
<1>1. CASE ExecuteUpdateConfig
  BY <1>1, IdleSplit DEF ExecuteUpdateConfig, UpdateConfig, assetVars
<1>2. ASSUME NEW a \in RewardTokens, RewardsAccrue(a)
      PROVE  SplitIInv'
  BY <1>2, IdleSplit DEF RewardsAccrue, compoundingVars, assetVars
<1>3. ASSUME NEW user \in Users, NEW amount \in 1..lp[user], Donate(user, amount)
      PROVE  SplitIInv'
  <2>1. Idle /\ UNCHANGED <<queue, saved, treasury, fresh, due>>
    BY <1>3 DEF Donate, MoveBaseTokens
  <2>2. \A a \in Assets : a # BaseToken => holds'[a] = holds[a]
    BY <1>3, <2>1, DonateType
  <2> QED
    BY <2>1, <2>2, IdleSplit
<1> QED
  BY <1>1, <1>2, <1>3 DEF Environment

LEMMA InitSplit == Init => SplitIInv
<1> SUFFICES ASSUME Init PROVE SplitIInv
  OBVIOUS
<1>1. Idle /\ Doing = "None" /\ queue = <<>>
  BY DEF Init, Idle, Doing
<1>2. OrderInv
  BY <1>1 DEF OrderInv, InOrder
<1>3. \A a \in OtherAssets : holds[a] = 0 /\ fresh[a] = 0 /\ treasury[a] = 0 /\ due[a] = 0
  BY ConstantTypes DEF Init, CompoundingInit, Nothing
<1> QED
  BY <1>1, <1>2, <1>3
  DEF SplitIInv, SplitInv, JoinInv, SavedSplitInv, PendingFee, PendingSale

LEMMA StutterSplit ==
  ASSUME SplitIInv, UNCHANGED vars
  PROVE  SplitIInv'
<1>1. OrderInv' /\ (Idle' <=> Idle) /\ Doing' = Doing
  BY QuietFlow DEF SplitIInv, vars
<1>2. \A a : PendingFee(a)' = PendingFee(a) /\ PendingSale(a)' = PendingSale(a)
  BY <1>1 DEF PendingFee, PendingSale, vars
<1> QED
  BY <1>1, <1>2
  DEF SplitIInv, SplitInv, JoinInv, SavedSplitInv, vars, compoundingVars, assetVars

(* The inductive invariant behind RewardsAreSplit: it also says where the  *)
(* rewards are while they are being split.                                 *)
THEOREM SplitInvariant == Spec => []SplitIInv
<1>1. TypeOK /\ TypeOK' /\ SplitIInv /\ [Next]_vars => SplitIInv'
  BY HandleMessageSplit, UserTxSplit, EnvironmentSplit, StutterSplit DEF Next
<1> QED
  BY <1>1, InitSplit, TypeCorrect, PTL DEF Spec

(* Between transactions, whatever configs were in force and however many   *)
(* transactions failed: of every asset that is sold when it is listed the  *)
(* vault has the income since it was last charged, sales for a target      *)
(* outside the pool included, and the treasury the fee on the income       *)
(* before (execute_callback_sell_rewards, execute_update_config).          *)
THEOREM RewardsSplit == Spec => []RewardsAreSplit
<1>1. TypeOK /\ SplitIInv => RewardsAreSplit
  BY NothingPending DEF SplitIInv, RewardsAreSplit, Doing, Baskets
<1> QED
  BY <1>1, TypeCorrect, SplitInvariant, PTL

----------------------------------------------------------------------------
(* The shares, and what the message at the end of the queue is about.      *)

(* The supply is what the accounts hold, now and in the state to go back   *)
(* to; the shares that will be burned lie on the contract's account.       *)
SharesInv ==
  /\ cw20.supply = SumOver(cw20.balance, Accounts)
  /\ ~Idle => saved.cw20.supply = SumOver(saved.cw20.balance, Accounts)
  /\ ~Idle /\ LastOf(queue).type = "Redeem"
       => LastOf(queue).amount \in 1..cw20.balance[Vault]
  /\ ~Idle /\ LastOf(queue).type = "MintVaultToken" => LastOf(queue).amount > 0

(* The handlers that do not touch the shares.                              *)
LeavesShares ==
  \/ CallbackSellRewards \/ CallbackProvideLiquidity \/ CallbackStake
  \/ HandleReceiveFrom \/ HandleClaimRewards \/ HandleMove
  \/ HandleToGenerator \/ HandleFromGenerator \/ HandleSendTo

LEMMA LeavesSharesFlow ==
  ASSUME TypeOK, OrderInv, LeavesShares
  PROVE  /\ OrderInv' /\ donated' = donated /\ ~Idle /\ cw20' = cw20
         /\ Doing = Head(queue).type /\ Head(queue) = queue[1]
         /\ \/ Idle' /\ Doing = "SendTo"
            \/ ~Idle' /\ saved' = saved /\ LastOf(queue') = LastOf(queue)
<1>0. /\ ~Idle /\ cw20' = cw20 /\ Head(queue) = queue[1] /\ Doing = Head(queue).type
  <2>1. ~Idle /\ cw20' = cw20
    BY DEF LeavesShares, CallbackSellRewards, CallbackProvideLiquidity, CallbackStake,
           HandleReceiveFrom, HandleClaimRewards, HandleMove, HandleToGenerator,
           HandleFromGenerator, HandleSendTo, Handles, tokenVars
  <2> QED
    BY <2>1, HeadAndTail DEF Doing, TypeOK
<1>1. ASSUME Continue(<<>>), Head(queue).type \notin {"MintVaultToken", "Redeem"}
      PROVE  /\ OrderInv' /\ donated' = donated
             /\ \/ Idle' /\ Doing = "SendTo"
                \/ ~Idle' /\ saved' = saved /\ LastOf(queue') = LastOf(queue)
  BY <1>0, <1>1, DoneFlow DEF LastTypes
<1>2. CASE CallbackSellRewards \/ CallbackProvideLiquidity \/ CallbackStake
  BY <1>0, <1>2, SaleFlow, ProvideFlow, StakeFlow
<1>3. CASE HandleReceiveFrom \/ HandleClaimRewards \/ HandleMove
             \/ HandleToGenerator \/ HandleFromGenerator \/ HandleSendTo
  BY <1>0, <1>1, <1>3
  DEF HandleReceiveFrom, HandleClaimRewards, HandleMove, HandleToGenerator,
      HandleFromGenerator, HandleSendTo, Handles
<1> QED
  BY <1>0, <1>2, <1>3 DEF LeavesShares

LEMMA LeavesSharesKeeps ==
  ASSUME TypeOK, OrderInv, SharesInv, LeavesShares
  PROVE  SharesInv'
<1>1. /\ ~Idle /\ cw20' = cw20
      /\ \/ Idle'
         \/ ~Idle' /\ saved' = saved /\ LastOf(queue') = LastOf(queue)
  BY LeavesSharesFlow
<1>2. Accounts' = Accounts
  BY DEF Accounts
<1>3. SumOver(cw20.balance, Accounts)' = SumOver(cw20.balance, Accounts)
  BY <1>1, <1>2 DEF SumOver, MapThenSumSet, MapThenFoldSet
<1>4. saved' = saved => SumOver(saved.cw20.balance, Accounts)' = SumOver(saved.cw20.balance, Accounts)
  BY <1>2 DEF SumOver, MapThenSumSet, MapThenFoldSet
<1> QED
  BY <1>1, <1>3, <1>4 DEF SharesInv, LastOf

LEMMA SumsAreFixed ==
  /\ SumOver(cw20.balance, Accounts)' = SumOver(cw20'.balance, Accounts)
  /\ SumOver(saved.cw20.balance, Accounts)' = SumOver(saved'.cw20.balance, Accounts)
<1>1. Accounts' = Accounts
  BY DEF Accounts
<1> QED
  BY <1>1 DEF SumOver, MapThenSumSet, MapThenFoldSet

(* One balance changes, and the sum of the balances with it.               *)
LEMMA BalanceChanges ==
  ASSUME NEW balance \in [Accounts -> Nat], NEW account \in Accounts, NEW n \in Nat
  PROVE  SumOver([balance EXCEPT ![account] = n], Accounts)
           = SumOver(balance, Accounts) + n - balance[account]
<1> DEFINE new == [balance EXCEPT ![account] = n]
<1>1. /\ \A a \in Accounts : balance[a] \in Nat /\ new[a] \in Nat
      /\ \A a \in Accounts \ {account} : balance[a] = new[a]
      /\ new[account] = n
  OBVIOUS
<1> HIDE DEF new
<1>2. SumOver(new, Accounts) = SumOver(balance, Accounts) + new[account] - balance[account]
  BY <1>1, FiniteSets, SumChanges
<1> QED
  BY <1>1, <1>2 DEF new

LEMMA BalanceSumType ==
  ASSUME NEW balance \in [Accounts -> Nat]
  PROVE  /\ SumOver(balance, Accounts) \in Nat
         /\ \A a \in Accounts : balance[a] <= SumOver(balance, Accounts)
  BY FiniteSets, SumType, SumBounds

LEMMA TransferKeepsSum ==
  ASSUME TypeOK, NEW from \in Accounts, NEW to \in Accounts, NEW amount,
         Transfer(from, to, amount)
  PROVE  /\ SumOver(cw20'.balance, Accounts) = SumOver(cw20.balance, Accounts)
         /\ to # from => cw20'.balance[to] = cw20.balance[to] + amount
<1> DEFINE rest == cw20.balance[from] - amount
           sent == [cw20.balance EXCEPT ![from] = rest]
           total == sent[to] + amount
<1>1. /\ cw20 \in Cw20Type /\ cw20.balance \in [Accounts -> Nat]
      /\ amount \in Nat \ {0} /\ amount <= cw20.balance[from]
      /\ cw20'.balance = [sent EXCEPT ![to] = total]
  BY TransferType DEF TypeOK, Cw20Type
<1>2. rest \in Nat /\ cw20.balance[from] \in Nat /\ cw20.balance[to] \in Nat
  BY <1>1
<1>3. rest = cw20.balance[from] - amount
  OBVIOUS
<1> HIDE DEF rest
<1>4. /\ sent \in [Accounts -> Nat] /\ sent[to] \in Nat
      /\ to # from => sent[to] = cw20.balance[to]
  BY <1>1, <1>2
<1>5. SumOver(sent, Accounts) = SumOver(cw20.balance, Accounts) + rest - cw20.balance[from]
  BY <1>1, <1>2, BalanceChanges
<1> HIDE DEF sent
<1>6. total \in Nat /\ total = sent[to] + amount
  BY <1>1, <1>4
<1> HIDE DEF total
<1>9. SumOver([sent EXCEPT ![to] = total], Accounts)
        = SumOver(sent, Accounts) + total - sent[to]
  BY <1>4, <1>6, BalanceChanges
<1>7. SumOver(cw20'.balance, Accounts) = SumOver(sent, Accounts) + total - sent[to]
  BY <1>1, <1>9
<1>8. SumOver(cw20.balance, Accounts) \in Nat
  BY <1>1, BalanceSumType
<1> QED
  BY <1>1, <1>2, <1>3, <1>4, <1>5, <1>6, <1>7, <1>8

LEMMA MintKeepsShares ==
  ASSUME TypeOK, OrderInv, SharesInv, CallbackMintVaultToken
  PROVE  SharesInv'
<1> DEFINE user == Head(queue).user
           total == cw20.balance[user] + SharesToMint
<1>1. /\ SharesToMint \in Nat \ {0} /\ user \in Accounts
      /\ cw20'.supply = cw20.supply + SharesToMint
      /\ cw20'.balance = [cw20.balance EXCEPT ![user] = total]
  BY MintedShares
<1>2. cw20.balance \in [Accounts -> Nat] /\ cw20.balance[user] \in Nat
  BY <1>1 DEF TypeOK, Cw20Type
<1>3. total \in Nat /\ total = cw20.balance[user] + SharesToMint
  BY <1>1, <1>2
<1>6. Idle'
  BY DoneFlow DEF CallbackMintVaultToken, Handles, LastTypes
<1> HIDE DEF user, total
<1>4. SumOver(cw20'.balance, Accounts) = SumOver(cw20.balance, Accounts) + total - cw20.balance[user]
  BY <1>1, <1>2, <1>3, BalanceChanges
<1>5. SumOver(cw20.balance, Accounts) \in Nat
  BY <1>2, BalanceSumType
<1> QED
  BY <1>1, <1>2, <1>3, <1>4, <1>5, <1>6, SumsAreFixed DEF SharesInv

LEMMA RedeemKeepsShares ==
  ASSUME TypeOK, OrderInv, SharesInv, CallbackRedeem
  PROVE  SharesInv'
<1> DEFINE total == cw20.balance[Vault] - Amount
<1>1. /\ Amount \in Nat \ {0} /\ Amount <= cw20.balance[Vault]
      /\ cw20'.supply = cw20.supply - Amount
      /\ cw20'.balance = [cw20.balance EXCEPT ![Vault] = total]
  BY BurnedShares
<1>2. cw20.balance \in [Accounts -> Nat] /\ cw20.balance[Vault] \in Nat /\ Vault \in Accounts
  BY ConstantTypes DEF TypeOK, Cw20Type
<1>3. total \in Nat /\ total = cw20.balance[Vault] - Amount
  BY <1>1, <1>2
<1> HIDE DEF total
<1>4. SumOver(cw20'.balance, Accounts) = SumOver(cw20.balance, Accounts) + total - cw20.balance[Vault]
  BY <1>1, <1>2, <1>3, BalanceChanges
<1>5. SumOver(cw20.balance, Accounts) \in Nat
  BY <1>2, BalanceSumType
<1>6. ~Idle /\ ~Idle' /\ saved' = saved /\ LastOf(queue').type = "SendTo"
  BY RedeemFlow DEF CallbackRedeem, Handles
<1>7. cw20'.supply = SumOver(cw20'.balance, Accounts)
  BY <1>1, <1>2, <1>3, <1>4, <1>5 DEF SharesInv
<1> QED
  BY <1>6, <1>7, SumsAreFixed DEF SharesInv, LastOf

LEMMA ExecuteRedeemKeepsShares ==
  ASSUME TypeOK, SharesInv,
         NEW user \in Users, NEW recipient \in Accounts, NEW vaultTokens \in Nat \ {0},
         ExecuteRedeem(user, vaultTokens, recipient)
  PROVE  SharesInv'
<1>1. /\ saved' = Snapshot /\ LastOf(queue') = Redeem(vaultTokens, recipient)
  BY StartRedeemFlow
<1>2. Redeem(vaultTokens, recipient).type = "Redeem"
      /\ Redeem(vaultTokens, recipient).amount = vaultTokens
  BY DEF Redeem
<1>3. user \in Accounts /\ Vault \in Accounts /\ user # Vault
      /\ Transfer(user, Vault, vaultTokens)
  BY ConstantTypes DEF ExecuteRedeem
<1>4. /\ cw20'.supply = cw20.supply
      /\ SumOver(cw20'.balance, Accounts) = SumOver(cw20.balance, Accounts)
      /\ cw20'.balance[Vault] = cw20.balance[Vault] + vaultTokens
  <2>1. cw20'.supply = cw20.supply
    BY <1>3, TransferType DEF TypeOK
  <2> QED
    BY <1>3, <2>1, TransferKeepsSum
<1>5. cw20.balance[Vault] \in Nat
  BY <1>3 DEF TypeOK, Cw20Type
<1>6. vaultTokens \in 1..cw20'.balance[Vault]
  BY <1>4, <1>5
<1>7. saved'.cw20 = cw20
  BY <1>1 DEF Snapshot
<1> QED
  BY <1>1, <1>2, <1>4, <1>6, <1>7, SumsAreFixed DEF SharesInv, LastOf

LEMMA DepositKeepsShares ==
  ASSUME TypeOK, SharesInv,
         NEW user \in Users, NEW recipient \in Accounts, NEW amount \in Nat \ {0},
         ExecuteDeposit(user, amount, recipient)
  PROVE  SharesInv'
<1>1. saved' = Snapshot /\ LastOf(queue') = MintVaultToken(amount, recipient)
  BY DepositFlow, amount \in Nat
<1>2. MintVaultToken(amount, recipient).type = "MintVaultToken"
      /\ MintVaultToken(amount, recipient).amount = amount
  BY DEF MintVaultToken
<1>3. cw20' = cw20 /\ saved'.cw20 = cw20
  BY <1>1 DEF ExecuteDeposit, tokenVars, Snapshot
<1> QED
  BY <1>1, <1>2, <1>3, SumsAreFixed DEF SharesInv, LastOf

LEMMA NextKeepsShares == TypeOK /\ OrderInv /\ SharesInv /\ [Next]_vars => SharesInv'
<1> SUFFICES ASSUME TypeOK, OrderInv, SharesInv, [Next]_vars PROVE SharesInv'
  OBVIOUS
<1>1. ASSUME ~Idle, Revert PROVE SharesInv'
  <2>1. Idle' /\ cw20' = saved.cw20
    BY <1>1, RevertFlow DEF Revert
  <2> QED
    BY <1>1, <2>1, SumsAreFixed DEF SharesInv
<1>2. CASE HandleMessage \/ ExternalFailure
  <2>1. CASE HandleSendToSelf
    <3>1. Idle' /\ cw20' = cw20
      BY <2>1, SelfFlow DEF HandleSendToSelf, tokenVars
    <3> QED
      BY <3>1, SumsAreFixed DEF SharesInv
  <2> QED
    BY <1>1, <1>2, <2>1, LeavesSharesKeeps, MintKeepsShares, RedeemKeepsShares
    DEF HandleMessage, LeavesShares, FailedMessage, ExternalFailure
<1>3. ASSUME UNCHANGED <<queue, saved>>, cw20'.supply = cw20.supply, Idle,
             SumOver(cw20'.balance, Accounts) = SumOver(cw20.balance, Accounts)
      PROVE  SharesInv'
  BY <1>3, SumsAreFixed DEF SharesInv, Idle
<1>4. CASE UserTx
  <2>1. PICK user \in Users :
          \/ \E recipient \in Accounts, amount \in Nat \ {0} :
               amount <= lp[user] /\ ExecuteDeposit(user, amount, recipient)
          \/ \E recipient \in Accounts, vaultTokens \in Nat \ {0} :
               ExecuteRedeem(user, vaultTokens, recipient)
          \/ \E to \in Accounts, amount \in Nat \ {0} : ExecuteTransfer(user, to, amount)
    BY <1>4, UserTxIs
  <2>2. ASSUME NEW to \in Accounts, NEW amount, ExecuteTransfer(user, to, amount)
        PROVE  SharesInv'
    <3>1. Transfer(user, to, amount) /\ user \in Accounts
      BY <2>2, ConstantTypes DEF ExecuteTransfer
    <3>2. cw20'.supply = cw20.supply
          /\ SumOver(cw20'.balance, Accounts) = SumOver(cw20.balance, Accounts)
      BY <3>1, TransferType, TransferKeepsSum DEF TypeOK
    <3> QED
      BY <1>3, <2>2, <3>2 DEF ExecuteTransfer
  <2> QED
    BY <2>1, <2>2, DepositKeepsShares, ExecuteRedeemKeepsShares
<1>5. CASE Environment
  BY <1>3, <1>5
  DEF Environment, ExecuteUpdateConfig, RewardsAccrue, Donate, tokenVars
<1>6. CASE UNCHANGED vars
  BY <1>6, SumsAreFixed DEF SharesInv, vars, tokenVars, Idle, LastOf
<1> QED
  BY <1>2, <1>4, <1>5, <1>6 DEF Next

LEMMA InitShares == Init => SharesInv
<1> SUFFICES ASSUME Init PROVE SharesInv
  OBVIOUS
<1>1. cw20.supply = 0 /\ Idle /\ \A a \in Accounts : cw20.balance[a] = 0
  BY DEF Init, Idle
<1>2. SumOver(cw20.balance, Accounts) = 0
  BY <1>1, FiniteSets, SumOfZeros
<1> QED
  BY <1>1, <1>2 DEF SharesInv

(* The supply of the cw20 shares is what the accounts hold, at every       *)
(* message, and what a redemption will burn lies on the vault's account    *)
(* (ExecuteMsg::Transfer, execute_redeem, mint and burn).                  *)
THEOREM SharesInvariant == Spec => []SharesInv
<1>1. Init => OrderInv
  BY InitSplit DEF SplitIInv
<1>2. Spec => []OrderInv
  <2>1. SplitIInv => OrderInv
    BY DEF SplitIInv
  <2> QED
    BY <2>1, SplitInvariant, PTL
<1> QED
  BY <1>2, InitShares, NextKeepsShares, TypeCorrect, PTL DEF Spec

----------------------------------------------------------------------------
(* What is spent is there.                                                 *)

(* With every reward listed once, the fees and the sale are together       *)
(* within the balances, whichever of them is already paid; so is what is   *)
(* brought to the pool; and the depositor has what the vault pulls in.     *)
SpendInv ==
  /\ ListedOnce => \A a \in Assets : PendingFee(a) + PendingSale(a) <= holds[a]
  /\ Doing = "JoinPool" => \A a \in Assets : queue[1].amounts[a] <= holds[a]
  /\ Doing = "ReceiveFrom" => CanReceive

LEMMA NothingToSpend ==
  ASSUME TypeOK', Doing' \notin {"PayTreasury", "Swap", "JoinPool", "ReceiveFrom"}
  PROVE  SpendInv'
<1>1. \A a : PendingFee(a)' = 0 /\ PendingSale(a)' = 0
  BY DEF PendingFee, PendingSale
<1>2. \A a \in Assets : holds'[a] \in Nat
  BY TypesAreFixed DEF TypeOK, CompoundingTypeOK, Amounts
<1>3. Assets' = Assets
  BY DEF Assets
<1> QED
  BY <1>1, <1>2, <1>3 DEF SpendInv

(* Only SellRewards and ProvideLiquidity send baskets.                     *)
LEMMA NoBasketNext ==
  ASSUME TypeOK, OrderInv, HandleMessage \/ ExternalFailure,
         Doing \notin {"SellRewards", "PayTreasury", "ProvideLiquidity"}
  PROVE  Doing' \notin {"PayTreasury", "Swap", "JoinPool", "ReceiveFrom"}
<1>0. ASSUME ~Idle, Continue(<<>>)
      PROVE  Doing' \notin {"PayTreasury", "Swap", "JoinPool", "ReceiveFrom"}
  <2>1. /\ Doing \in LastTypes => Doing' = "None"
        /\ Doing \notin LastTypes => <<Doing, Doing'>> \in Follows
    BY <1>0, DoneFlow
  <2> QED
    BY <2>1, FollowsIs
<1>1. CASE CallbackSellRewards \/ CallbackProvideLiquidity
  BY <1>1, SaleFlow, ProvideFlow
<1>2. CASE CallbackStake \/ CallbackRedeem
  BY <1>2, StakeFlow, RedeemFlow
<1>3. CASE FailedMessage \/ ExternalFailure
  BY <1>3, RevertFlow DEF FailedMessage, ExternalFailure
<1>4. CASE \/ CallbackMintVaultToken \/ HandleReceiveFrom \/ HandleClaimRewards
           \/ HandleMove \/ HandleToGenerator \/ HandleFromGenerator \/ HandleSendTo
  BY <1>0, <1>4
  DEF CallbackMintVaultToken, HandleReceiveFrom, HandleClaimRewards, HandleMove,
      HandleToGenerator, HandleFromGenerator, HandleSendTo, Handles
<1>5. CASE HandleSendToSelf
  BY <1>5, SelfFlow
<1> QED
  BY <1>1, <1>2, <1>3, <1>4, <1>5 DEF HandleMessage

LEMMA SellRewardsSpend ==
  ASSUME TypeOK, TypeOK', OrderInv, CallbackSellRewards
  PROVE  SpendInv'
<1>1. /\ Doing' \in {"PayTreasury", "Swap", "ProvideLiquidity"}
      /\ \A a \in Assets : PendingFee(a)' = FeeToTreasury[a] /\ PendingSale(a)' = ToSell[a]
  BY SaleFlow
<1>2. holds' = holds /\ config' = config
  BY DEF CallbackSellRewards, RewardsCounted
<1>3. ListedOnce' = ListedOnce /\ Assets' = Assets
  BY <1>2 DEF ListedOnce, Listed, Assets
<1>4. ASSUME NEW a \in Assets, ListedOnce
      PROVE  FeeToTreasury[a] + ToSell[a] <= holds[a]
  <2> DEFINE n == Listed(a)
             rest == AfterFee(a)
             fee == holds[a] - rest
  <2>1. n \in {0, 1} /\ rest \in 0..holds[a] /\ holds[a] \in Nat
    BY <1>4, ListedType, AfterFeeType DEF ListedOnce, TypeOK, CompoundingTypeOK, Amounts
  <2>2. FeeToTreasury[a] = n * fee /\ ToSell[a] = (IF IsSold(a) THEN n * rest ELSE 0)
    BY DEF FeeToTreasury, ToSell
  <2>3. fee \in Nat /\ rest \in Nat /\ fee + rest = holds[a]
    BY <2>1
  <2> HIDE DEF n, rest, fee
  <2>4. n * fee \in {0, fee} /\ n * rest \in {0, rest}
    BY <2>1, <2>3
  <2> QED
    BY <2>1, <2>2, <2>3, <2>4
<1>5. ListedOnce => \A a \in Assets : FeeToTreasury[a] + ToSell[a] <= holds[a]
  BY <1>4
<1> QED
  BY <1>1, <1>2, <1>3, <1>5 DEF SpendInv

LEMMA PayTreasurySpend ==
  ASSUME TypeOK, TypeOK', OrderInv, SpendInv, HandleMove, Doing = "PayTreasury"
  PROVE  SpendInv'
<1> DEFINE amounts == queue[1].amounts
<1>1. ~Idle /\ Continue(<<>>)
  BY DEF HandleMove, Handles
<1>2. /\ Doing = Head(queue).type /\ Head(queue) = queue[1] /\ ~Idle'
      /\ <<Doing, Doing'>> \in Follows /\ queue'[1] = queue[2]
  BY <1>1, DoneFlow DEF LastTypes
<1>3. PayTreasury(amounts)
  BY <1>2 DEF HandleMove, Handles
<1>4. Doing' \in {"Swap", "ProvideLiquidity"} /\ Doing' = queue[2].type
  BY <1>2, FollowsIs DEF Doing
<1>5. amounts \in Amounts
  BY <1>1, <1>2, HeadAndTail, MessageFields DEF TypeOK
<1>6. ListedOnce' = ListedOnce /\ Assets' = Assets
  BY <1>3 DEF ListedOnce, Listed, Assets, PayTreasury
<1>7. ASSUME NEW a \in Assets, ListedOnce
      PROVE  PendingFee(a)' + PendingSale(a)' <= holds'[a]
  <2> DEFINE sale == PendingSale(a)
             more == IF a = BaseToken THEN 0 ELSE 0
  <2>1. PendingFee(a) = amounts[a] /\ PendingFee(a)' = 0 /\ PendingSale(a)' = sale
    BY <1>2, <1>4 DEF PendingFee, PendingSale
  <2>2. holds'[a] = holds[a] - amounts[a] + more /\ more = 0
    BY <1>3 DEF PayTreasury, SpendAndGet
  <2>3. holds[a] \in Nat /\ amounts[a] \in Nat
    BY <1>5 DEF TypeOK, CompoundingTypeOK, Amounts
  <2>4. sale \in Nat
    BY <1>1, SaleType, ConstantTypes
  <2>5. amounts[a] + sale <= holds[a]
    BY <1>7, <2>1 DEF SpendInv
  <2> HIDE DEF sale, more
  <2> QED
    BY <2>1, <2>2, <2>3, <2>4, <2>5
<1> QED
  BY <1>4, <1>6, <1>7 DEF SpendInv

LEMMA ProvideLiquiditySpend ==
  ASSUME TypeOK, TypeOK', OrderInv, CallbackProvideLiquidity
  PROVE  SpendInv'
<1>1. \/ Doing' = "JoinPool" /\ queue'[1].amounts = ToProvide
      \/ Doing' = "Stake"
  BY ProvideFlow
<1>2. CASE Doing' = "Stake"
  BY <1>2, NothingToSpend
<1>3. CASE Doing' = "JoinPool" /\ queue'[1].amounts = ToProvide
  <2>1. \A a : PendingFee(a)' = 0 /\ PendingSale(a)' = 0
    BY <1>3 DEF PendingFee, PendingSale
  <2>2. /\ holds' = holds /\ Assets' = Assets
        /\ \A a \in Assets : holds[a] \in Nat /\ ToProvide[a] <= holds[a]
    BY DEF CallbackProvideLiquidity, compoundingVars, assetVars, Assets, ToProvide,
           TypeOK, CompoundingTypeOK, Amounts
  <2> QED
    BY <1>3, <2>1, <2>2 DEF SpendInv
<1> QED
  BY <1>1, <1>2, <1>3

LEMMA DepositSpend ==
  ASSUME TypeOK, NEW user \in Users, NEW recipient \in Accounts, NEW amount \in Nat \ {0},
         amount <= lp[user], ExecuteDeposit(user, amount, recipient), TypeOK'
  PROVE  SpendInv'
<1>1. Doing' = "ReceiveFrom" /\ Head(queue') = ReceiveFrom(user, amount)
  BY DepositFlow, amount \in Nat
<1>2. \A a : PendingFee(a)' = 0 /\ PendingSale(a)' = 0
  BY <1>1 DEF PendingFee, PendingSale
<1>3. \A a \in Assets : holds'[a] \in Nat
  BY TypesAreFixed DEF TypeOK, CompoundingTypeOK, Amounts
<1>4. CanReceive'
  <2>1. lp' = lp /\ lp[user] \in Nat
    BY DEF ExecuteDeposit, tokenVars, TypeOK
  <2>2. ReceiveFrom(user, amount).user = user /\ ReceiveFrom(user, amount).amount = amount
    BY DEF ReceiveFrom
  <2> QED
    BY <1>1, <2>1, <2>2 DEF CanReceive, Amount
<1>5. Assets' = Assets
  BY DEF Assets
<1> QED
  BY <1>1, <1>2, <1>3, <1>4, <1>5 DEF SpendInv

LEMMA NextKeepsSpend ==
  TypeOK /\ TypeOK' /\ OrderInv /\ SpendInv /\ [Next]_vars => SpendInv'
<1> SUFFICES ASSUME TypeOK, TypeOK', OrderInv, SpendInv, [Next]_vars PROVE SpendInv'
  OBVIOUS
<1>1. CASE HandleMessage \/ ExternalFailure
  <2>1. CASE Doing \notin {"SellRewards", "PayTreasury", "ProvideLiquidity"}
    BY <1>1, <2>1, NoBasketNext, NothingToSpend
  <2>2. CASE Doing \in {"SellRewards", "PayTreasury", "ProvideLiquidity"}
    <3>1. Doing = Head(queue).type
      BY <2>2, HeadAndTail DEF Doing, TypeOK
    <3>2. \/ CallbackSellRewards \/ CallbackProvideLiquidity
          \/ HandleMove /\ Doing = "PayTreasury"
          \/ FailedMessage \/ ExternalFailure
      BY <1>1, <2>2, <3>1
      DEF HandleMessage, CallbackStake, CallbackMintVaultToken, CallbackRedeem,
          HandleReceiveFrom, HandleClaimRewards, HandleMove, HandleToGenerator,
          HandleFromGenerator, HandleSendTo, HandleSendToSelf, Handles
    <3>3. CASE FailedMessage \/ ExternalFailure
      <4>1. Doing' = "None"
        BY <3>3, RevertFlow DEF FailedMessage, ExternalFailure
      <4> QED
        BY <4>1, NothingToSpend
    <3> QED
      BY <3>2, <3>3, SellRewardsSpend, PayTreasurySpend, ProvideLiquiditySpend
  <2> QED
    BY <2>1, <2>2
<1>2. ASSUME Idle, UNCHANGED <<queue, saved>>
      PROVE  SpendInv'
  <2>1. Doing' = "None"
    BY <1>2 DEF Doing, Idle
  <2> QED
    BY <2>1, NothingToSpend
<1>3. CASE UserTx
  <2>1. PICK user \in Users :
          \/ \E recipient \in Accounts, amount \in Nat \ {0} :
               amount <= lp[user] /\ ExecuteDeposit(user, amount, recipient)
          \/ \E recipient \in Accounts, vaultTokens \in Nat \ {0} :
               ExecuteRedeem(user, vaultTokens, recipient)
          \/ \E to \in Accounts, amount \in Nat \ {0} : ExecuteTransfer(user, to, amount)
    BY <1>3, UserTxIs
  <2>2. ASSUME NEW recipient \in Accounts, NEW vaultTokens,
               ExecuteRedeem(user, vaultTokens, recipient)
        PROVE  SpendInv'
    <3>1. Doing' \in {"ClaimRewards", "SellRewards"}
      BY <2>2, StartRedeemFlow
    <3> QED
      BY <3>1, NothingToSpend
  <2>3. ASSUME NEW to, NEW amount, ExecuteTransfer(user, to, amount)
        PROVE  SpendInv'
    BY <1>2, <2>3 DEF ExecuteTransfer
  <2> QED
    BY <2>1, <2>2, <2>3, DepositSpend
<1>4. CASE Environment
  BY <1>2, <1>4 DEF Environment, ExecuteUpdateConfig, RewardsAccrue, Donate
<1>5. CASE UNCHANGED vars
  <2>1. Doing' = Doing
    BY <1>5 DEF Doing, Idle, vars
  <2>2. \A a : PendingFee(a)' = PendingFee(a) /\ PendingSale(a)' = PendingSale(a)
    BY <1>5, <2>1 DEF PendingFee, PendingSale, vars
  <2> QED
    BY <1>5, <2>1, <2>2
    DEF SpendInv, CanReceive, Amount, ListedOnce, Listed, Assets, vars, tokenVars,
        compoundingVars, assetVars
<1> QED
  BY <1>1, <1>3, <1>4, <1>5 DEF Next

LEMMA InitSpend == Init => SpendInv
<1> SUFFICES ASSUME Init PROVE SpendInv
  OBVIOUS
<1>1. Doing = "None"
  BY DEF Init, Doing, Idle
<1>2. \A a : PendingFee(a) = 0 /\ PendingSale(a) = 0
  BY <1>1 DEF PendingFee, PendingSale
<1>3. \A a \in Assets : holds[a] \in Nat
  BY InitType DEF TypeOK, CompoundingTypeOK, Amounts
<1> QED
  BY <1>1, <1>2, <1>3 DEF SpendInv

(* The messages of SellRewards and ProvideLiquidity never ask for more     *)
(* than the balances have when they are handled, although the amounts were *)
(* read before: if no reward asset is listed twice                         *)
(* (execute_callback_sell_rewards, execute_callback_provide_liquidity).    *)
THEOREM SpendInvariant == Spec => []SpendInv
<1>1. SplitIInv => OrderInv
  BY DEF SplitIInv
<1> QED
  BY <1>1, InitSpend, NextKeepsSpend, TypeCorrect, SplitInvariant, PTL DEF Spec

----------------------------------------------------------------------------
(* The base tokens: where they are at every message.                       *)

(* The base token itself is not listed as a reward.  If it were, the fee   *)
(* on "the whole balance" would be taken from a deposit that lies on the   *)
(* vault's account while it waits to be staked.                            *)
BaseTokenIsNoReward ==
  \A c \in Configs : \A i \in DOMAIN c.rewardAssets : c.rewardAssets[i] # BaseToken

BeforeStake ==
  {"ReceiveFrom", "ClaimRewards", "SellRewards", "PayTreasury", "Swap",
   "ProvideLiquidity", "JoinPool", "Stake"}
AfterStake == {"ToGenerator", "MintVaultToken", "Redeem"}
AfterRedeem == {"FromGenerator", "SendTo"}

AmountIf(type) == IF Doing = type THEN queue[1].amount ELSE 0

(* What the depositor still owes, and what the deposit at the end of the   *)
(* queue is about.                                                         *)
Owed == AmountIf("ReceiveFrom")

Coming == IF LastOf(queue).type = "MintVaultToken" THEN LastOf(queue).amount ELSE 0

(* The stake callback counts from the base tokens that are not part of any *)
(* deposit.                                                                *)
CountInv == queue \in Seq(CountsFrom(donated))

NoBaseInv == PendingFee(BaseToken) = 0 /\ PendingSale(BaseToken) = 0

SettledNow ==
  /\ totalStaked = generator.stake
  /\ holds[BaseToken] = donated
  /\ totalStaked = 0 <=> cw20.supply = 0

SettledBefore ==
  /\ saved.totalStaked = saved.generator.stake
  /\ saved.holds[BaseToken] = donated
  /\ saved.totalStaked = 0 <=> saved.cw20.supply = 0

SettledInv == IF Idle THEN SettledNow ELSE SettledBefore

(* Until the stake callback the deposit adds to what lies there ...        *)
BeforeInv ==
  Doing \in BeforeStake =>
    /\ totalStaked = saved.totalStaked /\ totalStaked = generator.stake
    /\ cw20.supply = saved.cw20.supply
    /\ holds[BaseToken] + Owed >= donated + Coming

(* ... after it all of that is counted, and staked by the next message ... *)
StakedInv ==
  Doing \in AfterStake =>
    /\ Doing = "ToGenerator" => queue[1].amount > 0
    /\ totalStaked = generator.stake + AmountIf("ToGenerator")
    /\ holds[BaseToken] = donated + AmountIf("ToGenerator")
    /\ totalStaked >= saved.totalStaked + Coming
    /\ cw20.supply = saved.cw20.supply
    /\ Fits(totalStaked)

(* ... and a redemption unstakes and sends what the burned shares are      *)
(* worth after compounding.                                                *)
Redeemed(vaultTokens, yield) ==
  /\ Fits(saved.totalStaked + yield)
  /\ queue[1].amount =
       CalculateBaseTokens(vaultTokens, saved.totalStaked + yield, saved.cw20.supply)
  /\ totalStaked = saved.totalStaked + yield - queue[1].amount
  /\ cw20.supply = saved.cw20.supply - vaultTokens

RedeemedInv ==
  Doing \in AfterRedeem =>
    /\ Doing = "FromGenerator" => queue[2].amount = queue[1].amount
    /\ generator.stake = totalStaked + AmountIf("FromGenerator")
    /\ holds[BaseToken] = donated + AmountIf("SendTo")
    /\ \E vaultTokens \in 1..saved.cw20.supply, yield \in 0..MaxUint128 :
         Redeemed(vaultTokens, yield)

MoneyInv ==
  CountInv /\ NoBaseInv /\ SettledInv /\ BeforeInv /\ StakedInv /\ RedeemedInv

(* The list of the messages that are not Stake.                            *)
LEMMA OtherMessages ==
  ASSUME NEW n
  PROVE  /\ \A m \in Message : m.type # "Stake" => m \in CountsFrom(n)
         /\ CountsFrom(n) \subseteq Message
  BY DEF CountsFrom

LEMMA SentCount ==
  ASSUME NEW n, NEW m \in Message, m.type # "Stake", NEW amounts
  PROVE  <<m>> \in Seq(CountsFrom(n)) /\ NonEmpty(amounts, <<m>>) \in Seq(CountsFrom(n))
<1>1. m \in CountsFrom(n)
  BY OtherMessages
<1> HIDE DEF CountsFrom
<1> QED
  BY <1>1, NonEmptyType, <<m>> \in Seq(CountsFrom(n))

LEMMA CountKept ==
  ASSUME TypeOK, OrderInv, CountInv, HandleMessage \/ ExternalFailure
  PROVE  CountInv'
<1> DEFINE S == CountsFrom(donated)
<1>1. queue \in Seq(S) /\ CountsFrom(donated)' = CountsFrom(donated')
  BY MessageIsFixed DEF CountInv, CountsFrom
<1>2. ASSUME NEW messages \in Seq(S), ~Idle, Continue(messages)
      PROVE  CountInv'
  <2>1. queue' \in Seq(S)
    BY <1>1, <1>2, ContinueIn
  <2>2. donated' = donated
    BY <1>2 DEF Continue
  <2> QED
    BY <1>1, <2>1, <2>2 DEF CountInv
<1>3. CASE FailedMessage \/ ExternalFailure
  <2>1. queue' = <<>> /\ <<>> \in Seq(CountsFrom(donated'))
    BY <1>3 DEF FailedMessage, ExternalFailure, Revert
  <2> QED
    BY <1>1, <2>1 DEF CountInv
<1>4. CASE CallbackSellRewards
  <2> DEFINE pay == Move("PayTreasury", FeeToTreasury)
             swap == Move("Swap", ToSell)
  <2>1. pay \in Message /\ swap \in Message /\ pay.type # "Stake" /\ swap.type # "Stake"
    BY BasketsType, MessageConstructors DEF TypeOK, Move
  <2>2. /\ ~Idle
        /\ Continue(NonEmpty(FeeToTreasury, <<pay>>) \o NonEmpty(ToSell, <<swap>>))
    BY <1>4 DEF CallbackSellRewards, Handles
  <2> HIDE DEF pay, swap, S
  <2>3. NonEmpty(FeeToTreasury, <<pay>>) \in Seq(S) /\ NonEmpty(ToSell, <<swap>>) \in Seq(S)
    BY <2>1, SentCount DEF S
  <2>4. NonEmpty(FeeToTreasury, <<pay>>) \o NonEmpty(ToSell, <<swap>>) \in Seq(S)
    BY <2>3, ConcatType
  <2> QED
    BY <1>2, <2>2, <2>4
<1>5. CASE CallbackProvideLiquidity
  <2> DEFINE join == Move("JoinPool", ToProvide)
  <2>1. join \in Message /\ join.type # "Stake"
    BY BasketsType, MessageConstructors DEF TypeOK, Move
  <2>2. ~Idle /\ Continue(NonEmpty(ToProvide, <<join>>))
    BY <1>5 DEF CallbackProvideLiquidity, Handles
  <2> HIDE DEF join, S
  <2>3. NonEmpty(ToProvide, <<join>>) \in Seq(S)
    BY <2>1, SentCount DEF S
  <2> QED
    BY <1>2, <2>2, <2>3
<1>6. CASE CallbackStake
  <2> DEFINE m == ToGenerator(AmountToStake)
  <2>1. ~Idle /\ m \in Message /\ m.type # "Stake"
    BY <1>6, AmountToStakeType, MessageConstructors DEF CallbackStake, Handles, ToGenerator
  <2>2. Continue(IF AmountToStake = 0 THEN <<>> ELSE <<m>>)
    BY <1>6 DEF CallbackStake
  <2> HIDE DEF m
  <2>3. m \in S
    BY <2>1, OtherMessages
  <2> HIDE DEF S
  <2>4. <<m>> \in Seq(S) /\ <<>> \in Seq(S)
    BY <2>3
  <2> QED
    BY <1>2, <2>1, <2>2, <2>4
<1>7. CASE CallbackRedeem
  <2> DEFINE m == FromGenerator(BurnValue)
             n == SendTo(Head(queue).user, BurnValue)
  <2>1. BurnValue \in Nat /\ Head(queue).user \in Accounts
    BY <1>7, BurnedShares DEF TypeOK
  <2>2. m \in Message /\ n \in Message /\ m.type # "Stake" /\ n.type # "Stake"
    BY <2>1, MessageConstructors DEF FromGenerator, SendTo
  <2>3. ~Idle /\ Continue(<<m, n>>)
    BY <1>7 DEF CallbackRedeem, Handles
  <2> HIDE DEF m, n
  <2>4. m \in S /\ n \in S
    BY <2>2, OtherMessages
  <2> HIDE DEF S
  <2>5. <<m, n>> \in Seq(S)
    BY <2>4
  <2> QED
    BY <1>2, <2>3, <2>5
<1>8. CASE \/ CallbackMintVaultToken \/ HandleReceiveFrom \/ HandleClaimRewards
           \/ HandleMove \/ HandleToGenerator \/ HandleFromGenerator \/ HandleSendTo
  <2>1. ~Idle /\ Continue(<<>>)
    BY <1>8
    DEF CallbackMintVaultToken, HandleReceiveFrom, HandleClaimRewards, HandleMove,
        HandleToGenerator, HandleFromGenerator, HandleSendTo, Handles
  <2> QED
    BY <1>2, <2>1, <<>> \in Seq(S)
<1>9. CASE HandleSendToSelf
  <2>1. queue' = <<>> /\ <<>> \in Seq(CountsFrom(donated'))
    BY <1>9, SelfFlow DEF Idle
  <2> QED
    BY <1>1, <2>1 DEF CountInv
<1> QED
  BY <1>3, <1>4, <1>5, <1>6, <1>7, <1>8, <1>9 DEF HandleMessage

(* The base token is in no basket.                                         *)
LEMMA BaseTokenNotListed ==
  ASSUME BaseTokenIsNoReward, TypeOK
  PROVE  FeeToTreasury[BaseToken] = 0 /\ ToSell[BaseToken] = 0
<1>1. config \in Configs /\ BaseToken \in Assets
  BY ConstantTypes DEF TypeOK, CompoundingTypeOK
<1>2. Listed(BaseToken) = 0
  BY <1>1, ListedType DEF BaseTokenIsNoReward
<1>3. holds[BaseToken] \in Nat /\ AfterFee(BaseToken) \in Int
  BY <1>1, AfterFeeType DEF TypeOK, CompoundingTypeOK, Amounts
<1>4. 0 * (holds[BaseToken] - AfterFee(BaseToken)) = 0
  BY <1>3
<1> QED
  BY <1>1, <1>2, <1>4 DEF FeeToTreasury, ToSell, IsSold

LEMMA NoBaseKept ==
  ASSUME BaseTokenIsNoReward, TypeOK, OrderInv, NoBaseInv, HandleMessage \/ ExternalFailure
  PROVE  NoBaseInv'
<1>1. ASSUME Doing' \notin Baskets
      PROVE  NoBaseInv'
  BY <1>1 DEF NoBaseInv, PendingFee, PendingSale, Baskets
<1>2. CASE Doing \notin {"SellRewards", "PayTreasury", "ProvideLiquidity"}
  BY <1>1, <1>2, NoBasketNext DEF Baskets
<1>3. CASE FailedMessage \/ ExternalFailure
  <2>1. Doing' = "None"
    BY <1>3, RevertFlow DEF FailedMessage, ExternalFailure
  <2> QED
    BY <1>1, <2>1 DEF Baskets
<1>4. CASE CallbackProvideLiquidity
  BY <1>1, <1>4, ProvideFlow DEF Baskets
<1>5. CASE CallbackSellRewards
  BY <1>5, SaleFlow, BaseTokenNotListed, ConstantTypes DEF NoBaseInv
<1>6. CASE HandleMove /\ Doing = "PayTreasury"
  <2>1. ~Idle /\ Continue(<<>>)
    BY <1>6 DEF HandleMove, Handles
  <2>2. ~Idle' /\ <<Doing, Doing'>> \in Follows /\ queue'[1] = queue[2]
    BY <1>6, <2>1, DoneFlow DEF LastTypes
  <2>3. Doing' \in {"Swap", "ProvideLiquidity"} /\ Doing' = queue[2].type
    BY <1>6, <2>2, FollowsIs DEF Doing
  <2> QED
    BY <1>6, <2>2, <2>3 DEF NoBaseInv, PendingFee, PendingSale
<1>7. CASE Doing \in {"SellRewards", "PayTreasury", "ProvideLiquidity"}
  <2>1. Doing = Head(queue).type
    BY <1>7, HeadAndTail DEF Doing, TypeOK
  <2>2. \/ CallbackSellRewards \/ CallbackProvideLiquidity
        \/ HandleMove /\ Doing = "PayTreasury"
        \/ FailedMessage \/ ExternalFailure
    BY <1>7, <2>1
    DEF HandleMessage, CallbackStake, CallbackMintVaultToken, CallbackRedeem,
        HandleReceiveFrom, HandleClaimRewards, HandleMove, HandleToGenerator,
        HandleFromGenerator, HandleSendTo, HandleSendToSelf, Handles
  <2> QED
    BY <1>3, <1>4, <1>5, <1>6, <2>2
<1> QED
  BY <1>2, <1>7

LEMMA MoneyTypes ==
  ASSUME TypeOK
  PROVE  /\ totalStaked \in Nat /\ generator.stake \in Nat /\ holds[BaseToken] \in Nat
         /\ cw20.supply \in Nat /\ donated \in Nat
         /\ ~Idle => saved.totalStaked \in Nat /\ saved.cw20.supply \in Nat
  BY ConstantTypes
  DEF TypeOK, CompoundingTypeOK, SavedTypeOK, Amounts, GeneratorType, Cw20Type

LEMMA ComingType ==
  ASSUME TypeOK, ~Idle
  PROVE  Coming \in Nat
<1>1. queue \in Seq(Message) /\ Len(queue) \in Nat \ {0}
  BY HeadAndTail DEF TypeOK
<1> DEFINE k == Len(queue)
<1>2. k \in 1..Len(queue)
  BY <1>1
<1> HIDE DEF k
<1>3. queue[k] \in Message
  BY <1>1, <1>2, ElementOfSeq
<1> QED
  BY <1>3, MessageFields DEF Coming, LastOf, k

(* The first message is one of the list that CountInv is about.            *)
LEMMA StakeCounts ==
  ASSUME CountInv, Doing = "Stake"
  PROVE  queue[1].amount = donated
<1>1. ~Idle /\ queue[1].type = "Stake"
  BY DEF Doing
<1> DEFINE S == CountsFrom(donated)
<1>2. queue \in Seq(S)
  BY DEF CountInv
<1> HIDE DEF S
<1>3. queue[1] \in S
  BY <1>1, <1>2, HeadAndTail
<1> QED
  BY <1>1, <1>3 DEF S, CountsFrom

(* In the middle of a transaction it is known what there was before it.    *)
LEMMA SettledKept ==
  ASSUME SettledInv, ~Idle, ~Idle', saved' = saved, donated' = donated
  PROVE  SettledInv' /\ SettledBefore
  BY DEF SettledInv, SettledBefore

(* A message before the stake callback leaves what is staked alone, and    *)
(* takes no base tokens.                                                   *)
LEMMA BeforeStep ==
  ASSUME TypeOK, TypeOK', OrderInv, MoneyInv, LeavesShares, Doing \in BeforeStake,
         Doing' \in BeforeStake \ {"ReceiveFrom"},
         CountInv', NoBaseInv',
         totalStaked' = totalStaked, generator'.stake = generator.stake,
         holds'[BaseToken] >= holds[BaseToken] + Owed
  PROVE  MoneyInv'
<1>1. /\ ~Idle /\ ~Idle' /\ saved' = saved /\ donated' = donated
      /\ cw20' = cw20 /\ LastOf(queue') = LastOf(queue)
  BY LeavesSharesFlow DEF BeforeStake
<1>2. SettledInv'
  BY <1>1, SettledKept DEF MoneyInv
<1>3. Coming' = Coming /\ Owed' = 0
  BY <1>1 DEF Coming, LastOf, Owed, AmountIf
<1>4. Coming \in Nat /\ Owed \in Nat
  <2>1. Doing = "ReceiveFrom" => queue[1].amount \in Nat
    BY <1>1, HeadAndTail, MessageFields DEF TypeOK, Doing
  <2> QED
    BY <1>1, <2>1, ComingType DEF Owed, AmountIf
<1>5. /\ holds[BaseToken] \in Nat /\ holds'[BaseToken] \in Nat /\ donated \in Nat
  BY ConstantTypes, TypesAreFixed DEF TypeOK, CompoundingTypeOK, Amounts
<1>6. BeforeInv'
  BY <1>1, <1>3, <1>4, <1>5 DEF MoneyInv, BeforeInv
<1>7. StakedInv' /\ RedeemedInv'
  BY DEF StakedInv, RedeemedInv, BeforeStake, AfterStake, AfterRedeem
<1> QED
  BY <1>2, <1>6, <1>7 DEF MoneyInv

LEMMA ReceiveFromMoney ==
  ASSUME TypeOK, TypeOK', OrderInv, MoneyInv, HandleReceiveFrom, CountInv', NoBaseInv'
  PROVE  MoneyInv'
<1>1. /\ ~Idle /\ Continue(<<>>) /\ Head(queue).type = "ReceiveFrom"
      /\ totalStaked' = totalStaked /\ generator' = generator
  BY DEF HandleReceiveFrom, Handles
<1>2. /\ Doing = "ReceiveFrom" /\ Head(queue) = queue[1] /\ <<Doing, Doing'>> \in Follows
  BY <1>1, DoneFlow DEF LastTypes
<1>3. Doing' \in BeforeStake \ {"ReceiveFrom"} /\ Doing \in BeforeStake
  BY <1>2, FollowsIs DEF BeforeStake
<1>4. /\ holds'[BaseToken] = holds[BaseToken] + Amount /\ Amount \in Nat
      /\ holds[BaseToken] \in Nat /\ Owed = Amount
  BY <1>2, HandleReceiveFromType, MoneyTypes DEF Owed, AmountIf, Amount
<1>5. holds'[BaseToken] >= holds[BaseToken] + Owed
  BY <1>4
<1> QED
  BY <1>1, <1>3, <1>5, BeforeStep DEF LeavesShares

LEMMA ClaimRewardsMoney ==
  ASSUME TypeOK, TypeOK', OrderInv, MoneyInv, HandleClaimRewards, CountInv', NoBaseInv'
  PROVE  MoneyInv'
<1>1. /\ ~Idle /\ Continue(<<>>) /\ Head(queue).type = "ClaimRewards"
      /\ totalStaked' = totalStaked /\ generator'.stake = generator.stake
  BY DEF HandleClaimRewards, Handles, TypeOK, GeneratorType
<1>2. Doing = "ClaimRewards" /\ <<Doing, Doing'>> \in Follows
  BY <1>1, DoneFlow DEF LastTypes
<1>3. Doing' \in BeforeStake \ {"ReceiveFrom"} /\ Doing \in BeforeStake
  BY <1>2, FollowsIs DEF BeforeStake
<1>4. /\ holds'[BaseToken] = holds[BaseToken] + generator.pending[BaseToken]
      /\ generator.pending[BaseToken] \in Nat /\ holds[BaseToken] \in Nat /\ Owed = 0
  BY <1>2, ConstantTypes, MoneyTypes
  DEF HandleClaimRewards, RewardsArrive, TypeOK, GeneratorType, Amounts, Owed, AmountIf
<1>5. holds'[BaseToken] >= holds[BaseToken] + Owed
  BY <1>4
<1> QED
  BY <1>1, <1>3, <1>5, BeforeStep DEF LeavesShares

LEMMA SellRewardsMoney ==
  ASSUME TypeOK, TypeOK', OrderInv, MoneyInv, CallbackSellRewards, CountInv', NoBaseInv'
  PROVE  MoneyInv'
<1>1. /\ Doing = "SellRewards" /\ Doing' \in {"PayTreasury", "Swap", "ProvideLiquidity"}
  BY SaleFlow
<1>2. Doing' \in BeforeStake \ {"ReceiveFrom"} /\ Doing \in BeforeStake
  BY <1>1 DEF BeforeStake
<1>3. totalStaked' = totalStaked /\ generator' = generator /\ holds' = holds
  BY DEF CallbackSellRewards, RewardsCounted
<1>4. holds'[BaseToken] >= holds[BaseToken] + Owed
  BY <1>1, <1>3, MoneyTypes DEF Owed, AmountIf
<1> QED
  BY <1>2, <1>3, <1>4, BeforeStep DEF LeavesShares

LEMMA ProvideLiquidityMoney ==
  ASSUME TypeOK, TypeOK', OrderInv, MoneyInv, CallbackProvideLiquidity,
         CountInv', NoBaseInv'
  PROVE  MoneyInv'
<1>1. Doing = "ProvideLiquidity" /\ Doing' \in {"JoinPool", "Stake"}
  BY ProvideFlow
<1>2. Doing' \in BeforeStake \ {"ReceiveFrom"} /\ Doing \in BeforeStake
  BY <1>1 DEF BeforeStake
<1>3. totalStaked' = totalStaked /\ generator' = generator /\ holds' = holds
  BY DEF CallbackProvideLiquidity, compoundingVars, assetVars
<1>4. holds'[BaseToken] >= holds[BaseToken] + Owed
  BY <1>1, <1>3, MoneyTypes DEF Owed, AmountIf
<1> QED
  BY <1>2, <1>3, <1>4, BeforeStep DEF LeavesShares

LEMMA MoveMoney ==
  ASSUME TypeOK, TypeOK', OrderInv, JoinInv, MoneyInv, HandleMove, CountInv', NoBaseInv'
  PROVE  MoneyInv'
<1> DEFINE amounts == queue[1].amounts
<1>1. /\ ~Idle /\ Continue(<<>>)
      /\ totalStaked' = totalStaked /\ generator' = generator
      /\ Head(queue).type \in {"PayTreasury", "Swap", "JoinPool"}
  BY DEF HandleMove, Handles
<1>2. /\ Doing = Head(queue).type /\ Head(queue) = queue[1] /\ <<Doing, Doing'>> \in Follows
  BY <1>1, DoneFlow DEF LastTypes
<1>3. Doing' \in BeforeStake \ {"ReceiveFrom"} /\ Doing \in BeforeStake
  BY <1>1, <1>2, FollowsIs DEF BeforeStake
<1>4. amounts \in Amounts
  BY <1>1, <1>2, HeadAndTail, MessageFields DEF TypeOK
<1>5. amounts[BaseToken] = 0
  <2>1. CASE Doing = "JoinPool"
    BY <2>1, ConstantTypes DEF JoinInv
  <2>2. CASE Doing \in {"PayTreasury", "Swap"}
    BY <2>2 DEF MoneyInv, NoBaseInv, PendingFee, PendingSale
  <2> QED
    BY <1>1, <1>2, <2>1, <2>2
<1>6. holds[BaseToken] \in Nat /\ Owed = 0 /\ BaseToken \in Assets \ PoolAssets
  BY <1>1, <1>2, MoneyTypes, ConstantTypes DEF Owed, AmountIf
<1>7. holds'[BaseToken] >= holds[BaseToken]
  <2>1. CASE Doing = "PayTreasury"
    <3>1. PayTreasury(amounts)
      BY <1>2, <2>1 DEF HandleMove, Handles
    <3>2. holds'[BaseToken] = holds[BaseToken] - 0 + 0
      BY <1>5, <1>6, <3>1 DEF PayTreasury, SpendAndGet
    <3> QED
      BY <1>6, <3>2
  <2>2. CASE Doing = "Swap"
    <3>1. SwapBasket(amounts)
      BY <1>2, <2>2 DEF HandleMove, Handles
    <3>2. PICK target \in Assets, out \in Nat : SpendAndGet(amounts, target, out)
      BY <1>4, <3>1, SwapBasketIs DEF TypeOK, CompoundingTypeOK
    <3> DEFINE more == IF BaseToken = target THEN out ELSE 0
    <3>3. holds'[BaseToken] = holds[BaseToken] - 0 + more /\ more \in Nat
      BY <1>5, <1>6, <3>2 DEF SpendAndGet
    <3> HIDE DEF more
    <3> QED
      BY <1>6, <3>3
  <2>3. CASE Doing = "JoinPool"
    <3>1. JoinPool(amounts)
      BY <1>2, <2>3 DEF HandleMove, Handles
    <3>2. PICK taken \in Amounts, out \in Nat \ {0} :
            /\ SpendAndGet(taken, BaseToken, out)
            /\ \A a \in Assets : a \notin PoolAssets => taken[a] = amounts[a]
      BY <1>4, <3>1, JoinPoolSpends
    <3>3. holds'[BaseToken] = holds[BaseToken] - 0 + out
      BY <1>5, <1>6, <3>2 DEF SpendAndGet
    <3> QED
      BY <1>6, <3>2, <3>3
  <2> QED
    BY <1>1, <1>2, <2>1, <2>2, <2>3
<1>8. holds'[BaseToken] >= holds[BaseToken] + Owed
  BY <1>6, <1>7
<1> QED
  BY <1>1, <1>3, <1>8, BeforeStep DEF LeavesShares

(* The stake callback counts what lies on the account beyond what the      *)
(* vault was given: the deposit and what was compounded.                   *)
LEMMA StakeMoney ==
  ASSUME TypeOK, TypeOK', OrderInv, MoneyInv, CallbackStake, CountInv', NoBaseInv'
  PROVE  MoneyInv'
<1>1. /\ Doing = "Stake" /\ Head(queue) = queue[1] /\ ~Idle /\ ~Idle' /\ saved' = saved
      /\ donated' = donated /\ LastOf(queue') = LastOf(queue)
      /\ AmountToStake \in Nat
      /\ IF AmountToStake = 0
         THEN Doing' \in {"MintVaultToken", "Redeem"}
         ELSE Doing' = "ToGenerator" /\ Head(queue').amount = AmountToStake
  BY StakeFlow DEF CallbackStake, Handles
<1>2. Head(queue') = queue'[1]
  <2>1. queue' \in Seq(Message) /\ queue' # <<>>
    BY <1>1, MessageIsFixed DEF TypeOK, Idle
  <2> QED
    BY <2>1, HeadTailProperties, EmptySeq, LenProperties
<1>3. SettledInv'
  BY <1>1, SettledKept DEF MoneyInv
<1>4. Amount = donated
  BY <1>1, StakeCounts DEF MoneyInv, Amount
<1>5. /\ totalStaked = saved.totalStaked /\ totalStaked = generator.stake
      /\ cw20.supply = saved.cw20.supply
      /\ holds[BaseToken] + Owed >= donated + Coming /\ Owed = 0
  BY <1>1 DEF MoneyInv, BeforeInv, BeforeStake, Owed, AmountIf
<1>6. /\ totalStaked \in Nat /\ holds[BaseToken] \in Nat /\ donated \in Nat
      /\ Coming \in Nat /\ Coming' = Coming
  BY <1>1, MoneyTypes, ComingType DEF Coming, LastOf
<1>7. holds[BaseToken] = donated + AmountToStake /\ AmountToStake >= Coming
  BY <1>4, <1>5, <1>6 DEF AmountToStake
<1>8. /\ totalStaked' = totalStaked + AmountToStake /\ Fits(totalStaked + AmountToStake)
      /\ cw20' = cw20 /\ generator' = generator /\ holds' = holds
  BY DEF CallbackStake, CanStake, tokenVars, compoundingVars, assetVars
<1>9. AmountIf("ToGenerator")' = AmountToStake
  BY <1>1, <1>2 DEF AmountIf
<1>10. Doing' = "ToGenerator" => queue'[1].amount > 0
  BY <1>1, <1>2
<1>11. Fits(totalStaked)'
  BY <1>8 DEF Fits
<1>12. totalStaked' >= saved'.totalStaked + Coming'
  BY <1>1, <1>5, <1>6, <1>7, <1>8
<1>13. /\ totalStaked' = generator'.stake + AmountToStake
       /\ holds'[BaseToken] = donated' + AmountToStake
       /\ cw20'.supply = saved'.cw20.supply
  BY <1>1, <1>5, <1>7, <1>8
<1>14. StakedInv'
  BY <1>9, <1>10, <1>11, <1>12, <1>13 DEF StakedInv
<1>15. BeforeInv' /\ RedeemedInv'
  BY <1>1 DEF BeforeInv, RedeemedInv, BeforeStake, AfterRedeem
<1> QED
  BY <1>3, <1>14, <1>15 DEF MoneyInv

LEMMA ToGeneratorMoney ==
  ASSUME TypeOK, TypeOK', OrderInv, MoneyInv, HandleToGenerator, CountInv', NoBaseInv'
  PROVE  MoneyInv'
<1>1. /\ Head(queue).type = "ToGenerator" /\ Continue(<<>>) /\ ~Idle
      /\ totalStaked' = totalStaked /\ cw20' = cw20
  BY DEF HandleToGenerator, Handles, tokenVars
<1>2. /\ Doing = "ToGenerator" /\ Head(queue) = queue[1] /\ ~Idle' /\ saved' = saved
      /\ donated' = donated /\ <<Doing, Doing'>> \in Follows
      /\ LastOf(queue') = LastOf(queue)
  BY <1>1, DoneFlow DEF LastTypes
<1>3. Doing' \in {"MintVaultToken", "Redeem"}
  BY <1>2, FollowsIs
<1>4. SettledInv'
  BY <1>1, <1>2, SettledKept DEF MoneyInv
<1>5. /\ Amount \in Nat /\ Amount <= holds[BaseToken]
      /\ generator' = [generator EXCEPT !.stake = generator.stake + Amount]
      /\ holds'[BaseToken] = holds[BaseToken] - Amount
  BY HandleToGeneratorType
<1>6. generator'.stake = generator.stake + Amount
  BY <1>5 DEF TypeOK, GeneratorType
<1>7. /\ totalStaked = generator.stake + Amount
      /\ holds[BaseToken] = donated + Amount
      /\ totalStaked >= saved.totalStaked + Coming
      /\ cw20.supply = saved.cw20.supply /\ Fits(totalStaked)
  BY <1>2 DEF MoneyInv, StakedInv, AfterStake, AmountIf, Amount
<1>8. AmountIf("ToGenerator")' = 0 /\ Coming' = Coming
  BY <1>2, <1>3 DEF AmountIf, Coming, LastOf
<1>9. /\ totalStaked' = generator'.stake + 0 /\ holds'[BaseToken] = donated' + 0
  BY <1>1, <1>2, <1>5, <1>6, <1>7, MoneyTypes
<1>10. Fits(totalStaked)'
  BY <1>1, <1>7 DEF Fits
<1>11. StakedInv'
  BY <1>1, <1>2, <1>3, <1>7, <1>8, <1>9, <1>10 DEF StakedInv
<1>12. BeforeInv' /\ RedeemedInv'
  BY <1>3 DEF BeforeInv, RedeemedInv, BeforeStake, AfterRedeem
<1> QED
  BY <1>4, <1>11, <1>12 DEF MoneyInv

(* A message that closes a transaction is the only one that is left.       *)
LEMMA LastIsFirst ==
  ASSUME TypeOK, OrderInv, Doing \in LastTypes
  PROVE  LastOf(queue) = queue[1]
<1>1. Doing = queue[1].type /\ Len(queue) \in Nat \ {0}
  BY HeadAndTail DEF TypeOK, Doing, LastTypes
<1> DEFINE k == Len(queue)
<1>2. CASE k = 1
  BY <1>2 DEF LastOf
<1>3. CASE k # 1
  <2>1. k \in Nat \ {0}
    BY <1>1
  <2> HIDE DEF k
  <2>2. 1 \in 1..k /\ 1 < k
    BY <1>3, <2>1
  <2>3. 1 \in 1..Len(queue) /\ 1 < Len(queue)
    BY <2>2 DEF k
  <2>4. <<queue[1].type, queue[1 + 1].type>> \in Follows
    BY <2>3 DEF OrderInv, InOrder
  <2> QED
    BY <1>1, <2>4, FollowsIs
<1> QED
  BY <1>2, <1>3

(* What is known when the vault mints: the deposit is staked, and at least *)
(* what the vault had before is left without it.                           *)
LEMMA MintTime ==
  ASSUME TypeOK, OrderInv, SharesInv, MoneyInv, ~Idle, Head(queue).type = "MintVaultToken"
  PROVE  /\ Amount \in Nat \ {0} /\ Amount <= totalStaked
         /\ saved.totalStaked \in Nat /\ saved.totalStaked <= totalStaked - Amount
         /\ totalStaked = generator.stake /\ holds[BaseToken] = donated
         /\ cw20.supply = saved.cw20.supply /\ Fits(totalStaked)
         /\ saved.totalStaked = 0 <=> saved.cw20.supply = 0
<1>1. /\ Head(queue) = queue[1] /\ Doing = "MintVaultToken"
  BY HeadAndTail DEF TypeOK, Doing
<1>2. LastOf(queue) = queue[1]
  BY <1>1, LastIsFirst DEF LastTypes
<1>3. Coming = Amount
  BY <1>1, <1>2 DEF Coming, Amount
<1>4. Amount \in Nat /\ Amount > 0
  BY <1>1, <1>2, HeadAndTail, MessageFields DEF TypeOK, Amount, SharesInv
<1>5. /\ totalStaked = generator.stake + 0 /\ holds[BaseToken] = donated + 0
      /\ totalStaked >= saved.totalStaked + Coming
      /\ cw20.supply = saved.cw20.supply /\ Fits(totalStaked)
  BY <1>1 DEF MoneyInv, StakedInv, AfterStake, AmountIf
<1>6. saved.totalStaked = 0 <=> saved.cw20.supply = 0
  BY DEF MoneyInv, SettledInv, SettledBefore
<1> QED
  BY <1>3, <1>4, <1>5, <1>6, MoneyTypes

LEMMA MintMoney ==
  ASSUME TypeOK, TypeOK', OrderInv, SharesInv, MoneyInv, CallbackMintVaultToken,
         CountInv', NoBaseInv'
  PROVE  MoneyInv'
<1>1. /\ ~Idle /\ Head(queue).type = "MintVaultToken" /\ Continue(<<>>)
      /\ totalStaked' = totalStaked /\ generator' = generator /\ holds' = holds
  BY DEF CallbackMintVaultToken, Handles, compoundingVars, assetVars
<1>2. Idle' /\ Doing' = "None" /\ donated' = donated
  BY <1>1, DoneFlow DEF LastTypes
<1>3. /\ Amount \in Nat \ {0} /\ Amount <= totalStaked
      /\ totalStaked = generator.stake /\ holds[BaseToken] = donated
  BY <1>1, MintTime
<1>4. cw20'.supply = cw20.supply + SharesToMint /\ SharesToMint \in Nat \ {0}
  BY MintedShares
<1>5. totalStaked' # 0 /\ cw20'.supply # 0
  BY <1>1, <1>3, <1>4, MoneyTypes
<1>6. SettledNow'
  BY <1>1, <1>2, <1>3, <1>5 DEF SettledNow
<1> QED
  BY <1>2, <1>6
  DEF MoneyInv, SettledInv, BeforeInv, StakedInv, RedeemedInv, BeforeStake, AfterStake,
      AfterRedeem

LEMMA RedeemedNext ==
  ASSUME NEW vaultTokens, NEW yield,
         Fits(saved'.totalStaked + yield),
         queue'[1].amount =
           CalculateBaseTokens(vaultTokens, saved'.totalStaked + yield, saved'.cw20.supply),
         totalStaked' = saved'.totalStaked + yield - queue'[1].amount,
         cw20'.supply = saved'.cw20.supply - vaultTokens
  PROVE  Redeemed(vaultTokens, yield)'
  BY DEF Redeemed, Fits, CalculateBaseTokens, MultiplyRatio

(* The redeem callback burns shares of the supply before the transaction,  *)
(* for a part of the total after compounding.                              *)
LEMMA RedeemMoney ==
  ASSUME TypeOK, TypeOK', OrderInv, MoneyInv, CallbackRedeem, CountInv', NoBaseInv'
  PROVE  MoneyInv'
<1>1. /\ Doing = "Redeem" /\ Head(queue) = queue[1]
      /\ ~Idle /\ ~Idle' /\ saved' = saved /\ donated' = donated
      /\ Doing' = "FromGenerator" /\ Head(queue').amount = BurnValue
      /\ queue'[2].amount = BurnValue
  BY RedeemFlow DEF CallbackRedeem, Handles
<1>2. queue'[1].amount = BurnValue
  <2>1. queue' \in Seq(Message) /\ queue' # <<>>
    BY <1>1, MessageIsFixed DEF TypeOK, Idle
  <2> QED
    BY <1>1, <2>1, HeadTailProperties, EmptySeq, LenProperties
<1>0. PICK vaultTokens, yield : vaultTokens = Amount /\ yield = totalStaked - saved.totalStaked
  OBVIOUS
<1>3. /\ vaultTokens \in Nat \ {0} /\ vaultTokens <= cw20.supply
      /\ BurnValue \in 0..totalStaked
      /\ cw20'.supply = cw20.supply - vaultTokens
      /\ totalStaked' = totalStaked - BurnValue
      /\ generator' = generator /\ holds' = holds
  BY <1>0, BurnedShares DEF CallbackRedeem, compoundingVars, assetVars
<1>4. /\ totalStaked = generator.stake + 0 /\ holds[BaseToken] = donated + 0
      /\ totalStaked >= saved.totalStaked + Coming
      /\ cw20.supply = saved.cw20.supply /\ Fits(totalStaked)
  BY <1>1 DEF MoneyInv, StakedInv, AfterStake, AmountIf
<1>5. /\ totalStaked \in Nat /\ saved.totalStaked \in Nat /\ Coming \in Nat
      /\ cw20.supply \in Nat /\ donated \in Nat /\ generator.stake \in Nat
      /\ MaxUint128 \in Nat
  BY <1>1, MoneyTypes, ComingType, ConstantTypes
<1>6. yield \in 0..MaxUint128 /\ saved.totalStaked + yield = totalStaked
  BY <1>0, <1>4, <1>5 DEF Fits
<1>7. BurnValue = CalculateBaseTokens(vaultTokens, totalStaked, cw20.supply)
  BY <1>0 DEF BurnValue
<1>11. vaultTokens \in 1..saved'.cw20.supply
  BY <1>1, <1>3, <1>4, <1>5
<1>8. Redeemed(vaultTokens, yield)'
  <2>1. Fits(saved'.totalStaked + yield)
    BY <1>1, <1>4, <1>6
  <2>2. queue'[1].amount =
          CalculateBaseTokens(vaultTokens, saved'.totalStaked + yield, saved'.cw20.supply)
    BY <1>1, <1>2, <1>4, <1>6, <1>7
  <2>3. totalStaked' = saved'.totalStaked + yield - queue'[1].amount
    <3>1. /\ saved'.totalStaked + yield = totalStaked
          /\ saved'.totalStaked \in Nat /\ yield \in Nat
      BY <1>1, <1>5, <1>6
    <3>2. queue'[1].amount \in Nat /\ queue'[1].amount = BurnValue
      BY <1>2, <1>3, <1>5
    <3> QED
      BY <1>3, <1>5, <3>1, <3>2
  <2>4. cw20'.supply = saved'.cw20.supply - vaultTokens
    BY <1>1, <1>3, <1>4
  <2> QED
    BY <2>1, <2>2, <2>3, <2>4, RedeemedNext
<1>9. /\ AmountIf("FromGenerator")' = BurnValue /\ AmountIf("SendTo")' = 0
  BY <1>1, <1>2 DEF AmountIf
<1>10. /\ generator'.stake = totalStaked' + BurnValue
       /\ holds'[BaseToken] = donated' + 0
  BY <1>1, <1>3, <1>4, <1>5
<1>12. RedeemedInv'
  BY <1>1, <1>2, <1>6, <1>8, <1>9, <1>10, <1>11 DEF RedeemedInv
<1>13. BeforeInv' /\ StakedInv' /\ SettledInv'
  BY <1>1, SettledKept DEF MoneyInv, BeforeInv, StakedInv, BeforeStake, AfterStake
<1> QED
  BY <1>12, <1>13 DEF MoneyInv

LEMMA FromGeneratorMoney ==
  ASSUME TypeOK, TypeOK', OrderInv, MoneyInv, HandleFromGenerator, CountInv', NoBaseInv'
  PROVE  MoneyInv'
<1>1. /\ Head(queue).type = "FromGenerator" /\ Continue(<<>>) /\ ~Idle
      /\ totalStaked' = totalStaked /\ cw20' = cw20
  BY DEF HandleFromGenerator, Handles, tokenVars
<1>2. /\ Doing = "FromGenerator" /\ Head(queue) = queue[1] /\ ~Idle' /\ saved' = saved
      /\ donated' = donated /\ <<Doing, Doing'>> \in Follows /\ queue'[1] = queue[2]
  BY <1>1, DoneFlow DEF LastTypes
<1>3. Doing' = "SendTo"
  BY <1>2, FollowsIs
<1>4. /\ Amount \in Nat /\ holds'[BaseToken] = holds[BaseToken] + Amount
      /\ generator' = [generator EXCEPT !.stake = generator.stake - Amount]
  BY HandleFromGeneratorType
<1>5. generator'.stake = generator.stake - Amount
  BY <1>4 DEF TypeOK, GeneratorType
<1>6. /\ queue'[1].amount = Amount
      /\ generator.stake = totalStaked + Amount /\ holds[BaseToken] = donated + 0
  BY <1>2 DEF MoneyInv, RedeemedInv, AfterRedeem, AmountIf, Amount
<1>7. PICK vaultTokens \in 1..saved.cw20.supply, yield \in 0..MaxUint128 :
        Redeemed(vaultTokens, yield)
  BY <1>2 DEF MoneyInv, RedeemedInv, AfterRedeem
<1>8. Redeemed(vaultTokens, yield)'
  BY <1>1, <1>2, <1>6, <1>7, RedeemedNext DEF Redeemed, Amount
<1>9. /\ generator'.stake = totalStaked' + 0 /\ holds'[BaseToken] = donated' + Amount
  BY <1>1, <1>2, <1>4, <1>5, <1>6, MoneyTypes
<1>10. AmountIf("FromGenerator")' = 0 /\ AmountIf("SendTo")' = Amount
  BY <1>3, <1>6 DEF AmountIf
<1>11. vaultTokens \in 1..saved'.cw20.supply
  BY <1>2, <1>7
<1>12. RedeemedInv'
  BY <1>3, <1>7, <1>8, <1>9, <1>10, <1>11 DEF RedeemedInv
<1>13. BeforeInv' /\ StakedInv' /\ SettledInv'
  BY <1>1, <1>2, <1>3, SettledKept
  DEF MoneyInv, BeforeInv, StakedInv, BeforeStake, AfterStake
<1> QED
  BY <1>12, <1>13 DEF MoneyInv

(* When the recipient is paid the transaction is done: shares are left if  *)
(* and only if something is staked.                                        *)
LEMMA PaidTime ==
  ASSUME TypeOK, MoneyInv, Doing = "SendTo"
  PROVE  /\ totalStaked = generator.stake
         /\ holds[BaseToken] = donated + queue[1].amount
         /\ totalStaked = 0 <=> cw20.supply = 0
<1>1. /\ generator.stake = totalStaked + 0
      /\ holds[BaseToken] = donated + queue[1].amount
  BY DEF MoneyInv, RedeemedInv, AfterRedeem, AmountIf
<1>2. PICK vaultTokens \in 1..saved.cw20.supply, yield \in 0..MaxUint128 :
        Redeemed(vaultTokens, yield)
  BY DEF MoneyInv, RedeemedInv, AfterRedeem
<1>3. ~Idle /\ saved.totalStaked \in Nat /\ saved.cw20.supply \in Nat /\ totalStaked \in Nat
  BY MoneyTypes DEF Doing
<1>4. saved.totalStaked = 0 <=> saved.cw20.supply = 0
  BY <1>3 DEF MoneyInv, SettledInv, SettledBefore
<1> DEFINE staked == saved.totalStaked + yield
           supply == saved.cw20.supply
           baseTokens == CalculateBaseTokens(vaultTokens, staked, supply)
<1>5. /\ staked \in Nat /\ supply \in Nat \ {0} /\ vaultTokens \in 0..supply /\ vaultTokens > 0
      /\ staked > 0
  BY <1>2, <1>3, <1>4, ConstantTypes
<1>6. queue[1].amount = baseTokens
  BY <1>2 DEF Redeemed
<1>9. /\ totalStaked = saved.totalStaked + yield - queue[1].amount
      /\ staked = saved.totalStaked + yield
      /\ cw20.supply = supply - vaultTokens
  BY <1>2 DEF Redeemed
<1> HIDE DEF staked, supply
<1>7. /\ baseTokens \in 0..staked
      /\ vaultTokens = supply => baseTokens = staked
      /\ staked > 0 /\ vaultTokens < supply => baseTokens < staked
  BY <1>5, RedeemKeepsPrice
<1> HIDE DEF baseTokens
<1>10. totalStaked = staked - baseTokens
  BY <1>2, <1>3, <1>5, <1>6, <1>7, <1>9, ConstantTypes
<1>8. totalStaked = 0 <=> cw20.supply = 0
  BY <1>5, <1>7, <1>9, <1>10
<1> QED
  BY <1>1, <1>3, <1>8, MoneyTypes

LEMMA SendToMoney ==
  ASSUME TypeOK, TypeOK', OrderInv, MoneyInv, HandleSendTo, CountInv', NoBaseInv'
  PROVE  MoneyInv'
<1>1. /\ Head(queue).type = "SendTo" /\ Continue(<<>>) /\ ~Idle
      /\ totalStaked' = totalStaked /\ cw20' = cw20 /\ generator' = generator
  BY DEF HandleSendTo, Handles
<1>2. /\ Doing = "SendTo" /\ Head(queue) = queue[1] /\ Idle' /\ donated' = donated
      /\ Doing' = "None"
  BY <1>1, DoneFlow DEF LastTypes
<1>3. holds'[BaseToken] = holds[BaseToken] - Amount /\ Amount \in Nat /\ Amount = queue[1].amount
  BY <1>2, HandleSendToType DEF Amount
<1>4. /\ totalStaked = generator.stake /\ holds[BaseToken] = donated + Amount
      /\ totalStaked = 0 <=> cw20.supply = 0
  BY <1>2, <1>3, PaidTime
<1>5. holds'[BaseToken] = donated
  BY <1>3, <1>4, MoneyTypes
<1>6. SettledNow'
  BY <1>1, <1>2, <1>4, <1>5 DEF SettledNow
<1> QED
  BY <1>2, <1>6
  DEF MoneyInv, SettledInv, BeforeInv, StakedInv, RedeemedInv, BeforeStake, AfterStake,
      AfterRedeem

LEMMA SendToSelfMoney ==
  ASSUME TypeOK, TypeOK', OrderInv, MoneyInv, HandleSendToSelf, CountInv', NoBaseInv'
  PROVE  MoneyInv'
<1>1. /\ totalStaked' = totalStaked /\ cw20' = cw20 /\ generator' = generator
      /\ holds' = holds
  BY DEF HandleSendToSelf, tokenVars, compoundingVars, assetVars
<1>2. Doing = "SendTo" /\ Head(queue) = queue[1] /\ Idle' /\ Doing' = "None"
  BY SelfFlow
<1>3. donated' = donated + Amount /\ Amount = queue[1].amount
  BY <1>2, SelfIsDone DEF Amount
<1>4. /\ totalStaked = generator.stake /\ holds[BaseToken] = donated + Amount
      /\ totalStaked = 0 <=> cw20.supply = 0
  BY <1>2, <1>3, PaidTime
<1>5. SettledNow'
  BY <1>1, <1>3, <1>4 DEF SettledNow
<1> QED
  BY <1>2, <1>5
  DEF MoneyInv, SettledInv, BeforeInv, StakedInv, RedeemedInv, BeforeStake, AfterStake,
      AfterRedeem

LEMMA BetweenMoney ==
  ASSUME Idle', SettledNow', CountInv', NoBaseInv'
  PROVE  MoneyInv'
  BY DEF MoneyInv, SettledInv, BeforeInv, StakedInv, RedeemedInv, BeforeStake, AfterStake,
         AfterRedeem, Doing

LEMMA RevertMoney ==
  ASSUME TypeOK, MoneyInv, ~Idle, Revert, CountInv', NoBaseInv'
  PROVE  MoneyInv'
<1>1. SettledBefore
  BY DEF MoneyInv, SettledInv
<1>2. Idle' /\ SettledNow'
  BY <1>1, RevertFlow DEF Revert, SettledNow, SettledBefore
<1> QED
  BY <1>2, BetweenMoney

LEMMA HandleMessageMoney ==
  ASSUME BaseTokenIsNoReward, TypeOK, TypeOK', SplitIInv, SharesInv, MoneyInv,
         HandleMessage \/ ExternalFailure
  PROVE  MoneyInv'
<1>1. OrderInv /\ JoinInv
  BY DEF SplitIInv
<1>2. CountInv' /\ NoBaseInv'
  BY <1>1, CountKept, NoBaseKept DEF MoneyInv
<1>3. CASE FailedMessage \/ ExternalFailure
  BY <1>2, <1>3, RevertMoney DEF FailedMessage, ExternalFailure
<1>4. CASE CallbackSellRewards \/ CallbackProvideLiquidity
  BY <1>1, <1>2, <1>4, SellRewardsMoney, ProvideLiquidityMoney
<1>5. CASE CallbackStake \/ CallbackMintVaultToken \/ CallbackRedeem
  BY <1>1, <1>2, <1>5, StakeMoney, MintMoney, RedeemMoney
<1>6. CASE HandleReceiveFrom \/ HandleClaimRewards \/ HandleMove
  BY <1>1, <1>2, <1>6, ReceiveFromMoney, ClaimRewardsMoney, MoveMoney
<1>7. CASE HandleToGenerator \/ HandleFromGenerator \/ HandleSendTo \/ HandleSendToSelf
  BY <1>1, <1>2, <1>7, ToGeneratorMoney, FromGeneratorMoney, SendToMoney, SendToSelfMoney
<1> QED
  BY <1>3, <1>4, <1>5, <1>6, <1>7 DEF HandleMessage

LEMMA NothingPendingNext ==
  ASSUME Doing' \notin Baskets
  PROVE  NoBaseInv'
  BY DEF NoBaseInv, PendingFee, PendingSale, Baskets

(* A transaction begins with the state that is saved.                      *)
LEMMA BeginMoney ==
  ASSUME TypeOK, MoneyInv, Idle, ~Idle', saved' = Snapshot, donated' = donated,
         queue' \in Seq(CountsFrom(holds[BaseToken])),
         Doing' \in {"ReceiveFrom", "ClaimRewards", "SellRewards"},
         totalStaked' = totalStaked, generator' = generator, holds' = holds,
         cw20'.supply = cw20.supply,
         Coming' \in Nat, Owed' = Coming'
  PROVE  MoneyInv'
<1>1. SettledNow
  BY DEF MoneyInv, SettledInv
<1>2. CountInv'
  <2>1. holds[BaseToken] = donated /\ CountsFrom(donated)' = CountsFrom(donated')
    BY <1>1, MessageIsFixed DEF SettledNow, CountsFrom
  <2> QED
    BY <2>1 DEF CountInv
<1>3. NoBaseInv'
  BY NothingPendingNext DEF Baskets
<1>4. /\ saved'.totalStaked = totalStaked /\ saved'.generator = generator
      /\ saved'.holds = holds /\ saved'.cw20 = cw20
  BY DEF Snapshot
<1>5. SettledInv'
  BY <1>1, <1>4 DEF SettledInv, SettledBefore, SettledNow
<1>6. holds'[BaseToken] + Owed' >= donated' + Coming'
  BY <1>1, MoneyTypes DEF SettledNow
<1>7. BeforeInv'
  BY <1>1, <1>4, <1>6 DEF BeforeInv, SettledNow
<1>8. StakedInv' /\ RedeemedInv'
  BY DEF StakedInv, RedeemedInv, AfterStake, AfterRedeem
<1> QED
  BY <1>2, <1>3, <1>5, <1>7, <1>8 DEF MoneyInv

LEMMA DepositMoney ==
  ASSUME TypeOK, MoneyInv, TypeOK',
         NEW user \in Users, NEW recipient \in Accounts, NEW amount \in Nat \ {0},
         ExecuteDeposit(user, amount, recipient)
  PROVE  MoneyInv'
<1>1. /\ donated' = donated /\ ~Idle' /\ saved' = Snapshot
      /\ queue' \in Seq(CountsFrom(holds[BaseToken]))
      /\ Doing' = "ReceiveFrom" /\ Head(queue') = ReceiveFrom(user, amount)
      /\ LastOf(queue') = MintVaultToken(amount, recipient)
  BY DepositFlow, amount \in Nat
<1>2. /\ Idle /\ totalStaked' = totalStaked /\ generator' = generator /\ holds' = holds
      /\ cw20' = cw20
  BY DEF ExecuteDeposit, BeginTx, tokenVars, compoundingVars, assetVars
<1>3. Head(queue') = queue'[1]
  <2>1. queue' \in Seq(Message) /\ queue' # <<>>
    BY <1>1, MessageIsFixed DEF TypeOK, Idle
  <2> QED
    BY <2>1, HeadTailProperties, EmptySeq, LenProperties
<1>4. Owed' = amount /\ Coming' = amount
  BY <1>1, <1>3 DEF Owed, AmountIf, Coming, LastOf, ReceiveFrom, MintVaultToken
<1> QED
  BY <1>1, <1>2, <1>4, BeginMoney

LEMMA StartRedeemMoney ==
  ASSUME TypeOK, MoneyInv,
         NEW user \in Users, NEW recipient \in Accounts, NEW vaultTokens,
         ExecuteRedeem(user, vaultTokens, recipient)
  PROVE  MoneyInv'
<1>1. /\ donated' = donated /\ ~Idle' /\ saved' = Snapshot
      /\ queue' \in Seq(CountsFrom(holds[BaseToken]))
      /\ Doing' \in {"ClaimRewards", "SellRewards"}
      /\ LastOf(queue') = Redeem(vaultTokens, recipient)
  BY StartRedeemFlow
<1>2. /\ Idle /\ totalStaked' = totalStaked /\ generator' = generator /\ holds' = holds
  BY DEF ExecuteRedeem, BeginTx, compoundingVars, assetVars
<1>3. cw20'.supply = cw20.supply
  BY TransferType, ConstantTypes DEF ExecuteRedeem, TypeOK
<1>4. Owed' = 0 /\ Coming' = 0
  BY <1>1 DEF Owed, AmountIf, Coming, LastOf, Redeem
<1> QED
  BY <1>1, <1>2, <1>3, <1>4, BeginMoney

(* Between transactions only donations move base tokens.                   *)
LEMMA QuietMoney ==
  ASSUME MoneyInv, Idle, UNCHANGED <<queue, saved>>, SettledNow => SettledNow'
  PROVE  MoneyInv'
<1>1. Idle' /\ Doing' = "None" /\ queue' = <<>>
  BY DEF Idle, Doing
<1>2. SettledNow'
  BY DEF MoneyInv, SettledInv
<1>3. CountInv' /\ NoBaseInv'
  BY <1>1, NothingPendingNext, <<>> \in Seq(CountsFrom(donated')) DEF Baskets, CountInv
<1> QED
  BY <1>1, <1>2, <1>3, BetweenMoney

LEMMA UserTxMoney ==
  ASSUME TypeOK, TypeOK', MoneyInv, UserTx
  PROVE  MoneyInv'
<1>1. PICK user \in Users :
        \/ \E recipient \in Accounts, amount \in Nat \ {0} :
             amount <= lp[user] /\ ExecuteDeposit(user, amount, recipient)
        \/ \E recipient \in Accounts, vaultTokens \in Nat \ {0} :
             ExecuteRedeem(user, vaultTokens, recipient)
        \/ \E to \in Accounts, amount \in Nat \ {0} : ExecuteTransfer(user, to, amount)
  BY UserTxIs
<1>2. ASSUME NEW to \in Accounts, NEW amount, ExecuteTransfer(user, to, amount)
      PROVE  MoneyInv'
  <2>1. Transfer(user, to, amount) /\ user \in Accounts /\ Idle /\ UNCHANGED <<queue, saved>>
    BY <1>2, ConstantTypes DEF ExecuteTransfer
  <2>2. cw20'.supply = cw20.supply
    BY <2>1, TransferType DEF TypeOK
  <2>3. /\ totalStaked' = totalStaked /\ generator' = generator /\ holds' = holds
        /\ donated' = donated
    BY <1>2 DEF ExecuteTransfer, compoundingVars, assetVars
  <2> QED
    BY <2>1, <2>2, <2>3, QuietMoney DEF SettledNow
<1> QED
  BY <1>1, <1>2, DepositMoney, StartRedeemMoney

LEMMA EnvironmentMoney ==
  ASSUME TypeOK, MoneyInv, Environment
  PROVE  MoneyInv'
<1>1. CASE ExecuteUpdateConfig
  BY <1>1, QuietMoney DEF ExecuteUpdateConfig, UpdateConfig, assetVars, tokenVars, SettledNow
<1>2. ASSUME NEW a \in RewardTokens, RewardsAccrue(a)
      PROVE  MoneyInv'
  <2>1. generator'.stake = generator.stake
    BY <1>2 DEF RewardsAccrue, TypeOK, GeneratorType
  <2> QED
    BY <1>2, <2>1, QuietMoney
    DEF RewardsAccrue, tokenVars, compoundingVars, assetVars, SettledNow
<1>3. ASSUME NEW user \in Users, NEW amount \in 1..lp[user], Donate(user, amount)
      PROVE  MoneyInv'
  <2>1. /\ Idle /\ UNCHANGED <<queue, saved, totalStaked, cw20, generator>>
        /\ donated' = donated + amount
    BY <1>3 DEF Donate
  <2>2. holds'[BaseToken] = holds[BaseToken] + amount
    BY <1>3, <2>1, DonateType
  <2> QED
    BY <2>1, <2>2, QuietMoney DEF SettledNow
<1> QED
  BY <1>1, <1>2, <1>3 DEF Environment

LEMMA InitMoney == Init => MoneyInv
<1> SUFFICES ASSUME Init PROVE MoneyInv
  OBVIOUS
<1>1. Idle /\ Doing = "None" /\ queue = <<>>
  BY DEF Init, Idle, Doing
<1>2. CountInv /\ NoBaseInv
  BY <1>1, <<>> \in Seq(CountsFrom(donated)) DEF CountInv, NoBaseInv, PendingFee, PendingSale
<1>3. SettledNow
  BY ConstantTypes DEF Init, CompoundingInit, SettledNow, Nothing
<1> QED
  BY <1>1, <1>2, <1>3
  DEF MoneyInv, SettledInv, BeforeInv, StakedInv, RedeemedInv, BeforeStake, AfterStake,
      AfterRedeem

LEMMA StutterMoney ==
  ASSUME MoneyInv, UNCHANGED vars
  PROVE  MoneyInv'
<1>1. Doing' = Doing /\ Idle' = Idle
  BY DEF Doing, Idle, vars
<1>2. CountInv'
  BY MessageIsFixed DEF MoneyInv, CountInv, CountsFrom, vars
<1>3. NoBaseInv'
  BY <1>1 DEF MoneyInv, NoBaseInv, PendingFee, PendingSale, vars
<1>4. \A type : AmountIf(type)' = AmountIf(type)
  BY <1>1 DEF AmountIf, vars
<1>5. Coming' = Coming /\ Owed' = Owed
  BY <1>4 DEF Coming, LastOf, Owed, vars
<1>6. SettledInv'
  BY <1>1 DEF MoneyInv, SettledInv, SettledNow, SettledBefore, vars, tokenVars,
              compoundingVars, assetVars
<1>7. BeforeInv' /\ StakedInv'
  BY <1>1, <1>4, <1>5 DEF MoneyInv, BeforeInv, StakedInv, Fits, vars, tokenVars,
              compoundingVars, assetVars
<1>8. RedeemedInv'
  <2> SUFFICES ASSUME Doing \in AfterRedeem PROVE RedeemedInv'
    BY <1>1 DEF RedeemedInv
  <2>1. PICK vaultTokens \in 1..saved.cw20.supply, yield \in 0..MaxUint128 :
          Redeemed(vaultTokens, yield)
    BY DEF MoneyInv, RedeemedInv
  <2>2. Redeemed(vaultTokens, yield)'
    BY <2>1, RedeemedNext DEF Redeemed, vars, tokenVars
  <2> QED
    BY <1>1, <1>4, <2>1, <2>2
    DEF MoneyInv, RedeemedInv, vars, tokenVars, compoundingVars, assetVars
<1> QED
  BY <1>2, <1>3, <1>6, <1>7, <1>8 DEF MoneyInv

(* Where every base token of the vault is, at every message: the inductive *)
(* invariant behind StakeIsCounted, the previews and the ledger.           *)
THEOREM MoneyInvariant ==
  ASSUME BaseTokenIsNoReward
  PROVE  Spec => []MoneyInv
<1>1. TypeOK /\ TypeOK' /\ SplitIInv /\ SharesInv /\ MoneyInv /\ [Next]_vars => MoneyInv'
  BY HandleMessageMoney, UserTxMoney, EnvironmentMoney, StutterMoney DEF Next
<1> QED
  BY <1>1, InitMoney, TypeCorrect, SplitInvariant, SharesInvariant, PTL DEF Spec

(* Between transactions the stored total is what the generator holds, and  *)
(* every base token that came in with a deposit or from compounding is     *)
(* staked or paid out (execute_callback_stake).                            *)
THEOREM StakeCounted ==
  ASSUME BaseTokenIsNoReward
  PROVE  Spec => []StakeIsCounted
<1>1. MoneyInv => StakeIsCounted
  BY DEF MoneyInv, SettledInv, SettledNow, StakeIsCounted
<1> QED
  BY <1>1, MoneyInvariant, PTL

----------------------------------------------------------------------------
(* No message fails for reasons of the vault's own bookkeeping.            *)

LEMMA RedeemSucceeds ==
  ASSUME TypeOK, OrderInv, SharesInv, Doing = "Redeem"
  PROVE  CanRedeem
<1>1. ~Idle /\ Head(queue) = queue[1] /\ LastOf(queue) = queue[1] /\ queue[1].type = "Redeem"
  BY LastIsFirst, HeadAndTail DEF TypeOK, Doing, LastTypes
<1>2. Amount \in 1..cw20.balance[Vault]
  BY <1>1 DEF SharesInv, Amount
<1>3. /\ cw20.balance \in [Accounts -> Nat] /\ Vault \in Accounts
      /\ cw20.balance[Vault] \in Nat /\ cw20.supply \in Nat /\ totalStaked \in Nat
  BY ConstantTypes DEF TypeOK, Cw20Type
<1>4. cw20.balance[Vault] <= cw20.supply
  BY <1>3, BalanceSumType DEF SharesInv
<1> DEFINE shares == Amount
<1>5. shares \in 0..cw20.supply /\ cw20.supply \in Nat \ {0} /\ shares <= cw20.supply
  BY <1>2, <1>3, <1>4
<1> HIDE DEF shares
<1>6. CalculateBaseTokens(shares, totalStaked, cw20.supply) \in 0..totalStaked
  BY <1>3, <1>5, RedeemKeepsPrice
<1>7. BurnValue \in 0..totalStaked
  BY <1>6 DEF BurnValue, shares
<1> QED
  BY <1>2, <1>3, <1>5, <1>7 DEF CanRedeem, shares

LEMMA BasketSucceeds ==
  ASSUME TypeOK, OrderInv, SpendInv, ListedOnce, Doing \in {"PayTreasury", "Swap", "JoinPool"}
  PROVE  CanSpend(Head(queue).amounts)
<1> DEFINE amounts == queue[1].amounts
<1>1. ~Idle /\ Head(queue) = queue[1] /\ Head(queue) \in Message /\ queue[1].type = Doing
  BY HeadAndTail DEF TypeOK, Doing
<1>2. amounts \in Amounts
  BY <1>1, MessageFields
<1>3. CASE Doing = "JoinPool"
  BY <1>1, <1>3 DEF SpendInv, CanSpend
<1>4. CASE Doing = "Swap"
  <2>1. \A a \in Assets : PendingFee(a) = 0 /\ PendingSale(a) = amounts[a]
    BY <1>4 DEF PendingFee, PendingSale
  <2>2. \A a \in Assets : 0 + amounts[a] <= holds[a]
    BY <2>1 DEF SpendInv
  <2>3. \A a \in Assets : amounts[a] \in Nat /\ holds[a] \in Nat
    BY <1>2 DEF TypeOK, CompoundingTypeOK, Amounts
  <2> QED
    BY <1>1, <2>2, <2>3 DEF CanSpend
<1>5. CASE Doing = "PayTreasury"
  <2>1. ASSUME NEW a \in Assets PROVE amounts[a] <= holds[a]
    <3> DEFINE sale == PendingSale(a)
    <3>1. PendingFee(a) = amounts[a] /\ amounts[a] \in Nat /\ holds[a] \in Nat
      BY <1>2, <1>5 DEF PendingFee, TypeOK, CompoundingTypeOK, Amounts
    <3>2. sale \in Nat
      BY SaleType
    <3> QED
      BY <3>1, <3>2 DEF SpendInv
  <2> QED
    BY <1>1, <2>1 DEF CanSpend
<1> QED
  BY <1>3, <1>4, <1>5

LEMMA TransferSucceeds ==
  ASSUME TypeOK, OrderInv, SharesInv, MoneyInv, ~Idle
  PROVE  /\ Doing = "MintVaultToken" => Amount <= totalStaked
         /\ Doing = "ToGenerator" => CanPayBaseTokens
         /\ Doing = "SendTo" => Amount <= holds[BaseToken]
         /\ Doing = "FromGenerator" => CanUnstake
<1>1. Head(queue) = queue[1] /\ Head(queue) \in Message /\ Doing = Head(queue).type
  BY HeadAndTail DEF TypeOK, Doing
<1> DEFINE n == Amount
<1>2. n = queue[1].amount /\ holds[BaseToken] \in Nat /\ donated \in Nat /\ totalStaked \in Nat
  BY <1>1, MoneyTypes DEF Amount
<1>3. Doing \in {"ToGenerator", "SendTo", "FromGenerator"} => n \in Nat
  BY <1>1, MessageFields DEF Amount
<1> HIDE DEF n
<1>4. Doing = "MintVaultToken" => Amount <= totalStaked
  BY <1>1, MintTime
<1>5. Doing = "ToGenerator" => n > 0 /\ holds[BaseToken] = donated + n
  BY <1>2 DEF MoneyInv, StakedInv, AfterStake, AmountIf
<1>6. Doing = "SendTo" => holds[BaseToken] = donated + n
  BY <1>2, PaidTime
<1>7. Doing = "FromGenerator" => generator.stake = totalStaked + n
  BY <1>2 DEF MoneyInv, RedeemedInv, AfterRedeem, AmountIf
<1>8. Doing = "ToGenerator" => n \in 1..holds[BaseToken]
  BY <1>2, <1>3, <1>5
<1>9. Doing = "SendTo" => n <= holds[BaseToken]
  BY <1>2, <1>3, <1>6
<1>10. Doing = "FromGenerator" => n <= generator.stake
  BY <1>2, <1>3, <1>7
<1> QED
  BY <1>4, <1>8, <1>9, <1>10 DEF n, CanPayBaseTokens, CanUnstake

(* With every reward asset listed once, no message fails because of what   *)
(* the vault itself wrote down: the shares to burn are on its account, the *)
(* fee and the sale are together within the balance, what is unstaked was  *)
(* staked and what is sent has arrived.                                    *)
THEOREM BookkeepingHolds ==
  ASSUME BaseTokenIsNoReward
  PROVE  Spec => []BookkeepingNeverFails
<1>1. TypeOK /\ SplitIInv /\ SharesInv /\ SpendInv /\ MoneyInv => BookkeepingNeverFails
  <2> SUFFICES ASSUME TypeOK, SplitIInv, SharesInv, SpendInv, MoneyInv, ~Idle, ListedOnce
               PROVE  BookkeepingNeverFails
    BY DEF BookkeepingNeverFails
  <2>1. /\ OrderInv /\ Head(queue) = queue[1] /\ Head(queue) \in Message
        /\ Doing = Head(queue).type
    BY HeadAndTail DEF SplitIInv, TypeOK, Doing
  <2>2. /\ Doing = "MintVaultToken" => Amount <= totalStaked
        /\ Doing = "ToGenerator" => CanPayBaseTokens
        /\ Doing = "SendTo" => Amount <= holds[BaseToken]
        /\ Doing = "FromGenerator" => CanUnstake
    BY <2>1, TransferSucceeds
  <2>3. Doing = "Redeem" => CanRedeem
    BY <2>1, RedeemSucceeds
  <2>4. Doing \in {"PayTreasury", "Swap", "JoinPool"} => CanSpend(Head(queue).amounts)
    BY <2>1, BasketSucceeds
  <2>5. Doing = "ReceiveFrom" => CanReceive
    BY DEF SpendInv
  <2>6. Doing \notin {"MintVaultToken", "Stake", "SendTo"} => CanHandle
    BY <2>1, <2>2, <2>3, <2>4, <2>5 DEF CanHandle
  <2> QED
    BY <2>1, <2>2, <2>6 DEF BookkeepingNeverFails
<1> QED
  BY <1>1, TypeCorrect, SplitInvariant, SharesInvariant, SpendInvariant, MoneyInvariant, PTL

----------------------------------------------------------------------------
(* The previews are bounds.                                                *)

(* A ratio falls with its divisor and grows with its factors.              *)
LEMMA QuotientBelow ==
  ASSUME NEW c \in Nat \ {0}, NEW q \in Nat, NEW r \in Nat, c * q < c * r + c
  PROVE  q <= r
<1> SUFFICES ASSUME r + 1 <= q PROVE FALSE
  OBVIOUS
<1>1. (r + 1) * c <= q * c
  BY TimesMonotone, r + 1 \in Nat, c \in Nat
<1>2. (r + 1) * c = c * r + c /\ q * c = c * q /\ c * q \in Nat /\ c * r \in Nat
  OBVIOUS
<1> QED
  BY <1>1, <1>2

LEMMA RatioFallsWithDivisor ==
  ASSUME NEW a \in Nat, NEW b \in Nat, NEW c \in Nat \ {0}, NEW d \in Nat \ {0}, c <= d
  PROVE  MultiplyRatio(a, b, d) <= MultiplyRatio(a, b, c)
<1> DEFINE q == MultiplyRatio(a, b, d)
           r == MultiplyRatio(a, b, c)
           p == a * b
<1>1. q \in Nat /\ d * q <= p /\ p < d * q + d
  BY MultiplyRatioBounds
<1>2. r \in Nat /\ c * r <= p /\ p < c * r + c
  BY MultiplyRatioBounds
<1>3. p \in Nat
  OBVIOUS
<1> HIDE DEF q, r, p
<1>4. c * q <= d * q
  BY <1>1, TimesMonotone
<1>5. c * q \in Nat /\ d * q \in Nat /\ c * r \in Nat
  BY <1>1, <1>2
<1>6. c * q < c * r + c
  BY <1>1, <1>2, <1>3, <1>4, <1>5
<1>7. q <= r
  BY <1>1, <1>2, <1>6, QuotientBelow
<1> QED
  BY <1>7 DEF q, r

LEMMA RatioGrowsWithFactor ==
  ASSUME NEW a \in Nat, NEW b \in Nat, NEW k \in Nat, NEW c \in Nat \ {0}, a <= b
  PROVE  MultiplyRatio(a, k, c) <= MultiplyRatio(b, k, c)
<1> DEFINE q == MultiplyRatio(a, k, c)
           r == MultiplyRatio(b, k, c)
           p == a * k
           s == b * k
<1>1. q \in Nat /\ c * q <= p /\ p < c * q + c
  BY MultiplyRatioBounds
<1>2. r \in Nat /\ c * r <= s /\ s < c * r + c
  BY MultiplyRatioBounds
<1>3. p \in Nat /\ s \in Nat /\ p <= s
  BY TimesMonotone
<1> HIDE DEF q, r, p, s
<1>5. c * q \in Nat /\ c * r \in Nat
  BY <1>1, <1>2
<1>6. c * q < c * r + c
  BY <1>1, <1>2, <1>3, <1>5
<1>7. q <= r
  BY <1>1, <1>2, <1>6, QuotientBelow
<1> QED
  BY <1>7 DEF q, r

(* The vault mints at a total that is at least the one of the preview, for *)
(* the same supply.                                                        *)
LEMMA MintWithinPreview ==
  ASSUME TypeOK, OrderInv, SharesInv, MoneyInv, CallbackMintVaultToken
  PROVE  cw20'.supply - cw20.supply <= QuerySimulateDeposit(Amount)
<1>1. ~Idle /\ Head(queue).type = "MintVaultToken"
  BY DEF CallbackMintVaultToken, Handles
<1> DEFINE amount == Amount
           staked == totalStaked - Amount
           before == saved.totalStaked
           supply == cw20.supply
<1>2. /\ amount \in Nat \ {0} /\ amount <= totalStaked
      /\ before \in Nat /\ before <= staked
      /\ supply = saved.cw20.supply /\ (before = 0 <=> supply = 0)
  BY <1>1, MintTime
<1>3. totalStaked \in Nat /\ supply \in Nat
  BY MoneyTypes
<1>4. staked \in Nat
  BY <1>2, <1>3
<1>5. QuerySimulateDeposit(Amount) = CalculateVaultTokens(amount, before, supply)
  BY <1>2 DEF QuerySimulateDeposit
<1>6. SharesToMint = CalculateVaultTokens(amount, staked, supply)
  BY DEF SharesToMint
<1>7. SharesToMint \in Nat \ {0} /\ cw20'.supply = supply + SharesToMint
  BY MintedShares
<1>8. cw20'.supply - cw20.supply = SharesToMint
  BY <1>3, <1>7
<1> HIDE DEF amount, staked, before, supply
<1>9. CASE before = 0 /\ staked = 0
  BY <1>5, <1>6, <1>7, <1>8, <1>9 DEF CalculateVaultTokens
<1>10. CASE before = 0 /\ staked # 0
  <2>1. SharesToMint = MultiplyRatio(0, amount, staked)
    BY <1>2, <1>6, <1>10 DEF CalculateVaultTokens
  <2>2. MultiplyRatio(0, amount, staked) \in Nat /\ staked * MultiplyRatio(0, amount, staked) <= 0 * amount
    BY <1>2, <1>4, <1>10, MultiplyRatioBounds
  <2>3. staked * SharesToMint <= 0 * 1
    BY <1>2, <2>1, <2>2
  <2>4. SharesToMint * staked <= 0 * staked
    BY <1>4, <1>7, <2>3
  <2>5. SharesToMint <= 0
    BY <1>4, <1>7, <1>10, <2>4, TimesCancel
  <2> QED
    BY <1>7, <2>5
<1>11. CASE before # 0
  <2>1. before \in Nat \ {0} /\ staked \in Nat \ {0} /\ amount \in Nat
    BY <1>2, <1>4, <1>11
  <2>2. MultiplyRatio(supply, amount, staked) <= MultiplyRatio(supply, amount, before)
    BY <1>2, <1>3, <2>1, RatioFallsWithDivisor
  <2> QED
    BY <1>5, <1>6, <1>8, <2>1, <2>2 DEF CalculateVaultTokens
<1> QED
  BY <1>2, <1>9, <1>10, <1>11

(* The vault pays from a total that is at least the one of the preview.    *)
LEMMA RedeemAbovePreview ==
  ASSUME TypeOK, OrderInv, SharesInv, MoneyInv, CallbackRedeem
  PROVE  totalStaked - totalStaked' >= QuerySimulateWithdraw(Amount)
<1> DEFINE shares == Amount
           before == saved.totalStaked
           supply == cw20.supply
<1>1. ~Idle /\ Doing = "Redeem"
  BY HeadAndTail DEF CallbackRedeem, Handles, TypeOK, Doing
<1>2. totalStaked >= before + Coming /\ supply = saved.cw20.supply
  BY <1>1 DEF MoneyInv, StakedInv, AfterStake
<1>3. Coming \in Nat /\ before \in Nat /\ totalStaked \in Nat /\ supply \in Nat
  BY <1>1, ComingType, MoneyTypes
<1>4. before <= totalStaked
  BY <1>2, <1>3
<1>5. shares \in Nat \ {0} /\ shares <= supply /\ BurnValue \in 0..totalStaked
  BY BurnedShares
<1>6. supply \in Nat \ {0} /\ shares \in Nat
  BY <1>3, <1>5
<1>7. QuerySimulateWithdraw(Amount) = MultiplyRatio(before, shares, supply)
  BY <1>2, <1>6 DEF QuerySimulateWithdraw, CalculateBaseTokens
<1>8. BurnValue = MultiplyRatio(totalStaked, shares, supply)
  BY <1>6 DEF BurnValue, CalculateBaseTokens
<1>9. totalStaked' = totalStaked - BurnValue
  BY DEF CallbackRedeem
<1> HIDE DEF shares, before, supply
<1>10. MultiplyRatio(before, shares, supply) <= MultiplyRatio(totalStaked, shares, supply)
  BY <1>3, <1>4, <1>6, RatioGrowsWithFactor
<1>11. MultiplyRatio(before, shares, supply) \in Nat
  BY <1>3, <1>6, MultiplyRatioBounds
<1>12. totalStaked - totalStaked' = BurnValue
  BY <1>3, <1>5, <1>9
<1> QED
  BY <1>7, <1>8, <1>10, <1>12

(* A deposit never mints more than the preview said just before the        *)
(* transaction, and a redemption never pays less, whatever is compounded   *)
(* in between (query_simulate_deposit, query_simulate_withdraw).           *)
THEOREM PreviewsHold ==
  ASSUME BaseTokenIsNoReward
  PROVE  Spec => PreviewsAreBounds
<1> DEFINE Step ==
             /\ CallbackMintVaultToken
                  => cw20'.supply - cw20.supply <= QuerySimulateDeposit(Amount)
             /\ CallbackRedeem
                  => totalStaked - totalStaked' >= QuerySimulateWithdraw(Amount)
<1>1. TypeOK /\ SplitIInv /\ SharesInv /\ MoneyInv /\ [Next]_vars => [Step]_vars
  BY MintWithinPreview, RedeemAbovePreview DEF SplitIInv
<1> QED
  BY <1>1, TypeCorrect, SplitInvariant, SharesInvariant, MoneyInvariant, PTL
  DEF Spec, PreviewsAreBounds

----------------------------------------------------------------------------
(* The vault implements the ledger.                                        *)

LEMMA LedgerOperators ==
  /\ \A a, b, c : Ledger!CalculateVaultTokens(a, b, c) = CalculateVaultTokens(a, b, c)
  /\ \A a, b, c : Ledger!CalculateBaseTokens(a, b, c) = CalculateBaseTokens(a, b, c)
  /\ \A n : Ledger!Fits(n) <=> Fits(n)
  BY DEF Ledger!CalculateVaultTokens, Ledger!CalculateBaseTokens, Ledger!MultiplyRatio,
         Ledger!Fits, CalculateVaultTokens, CalculateBaseTokens, MultiplyRatio, Fits

LedgerStutters == CommittedStake' = CommittedStake /\ CommittedSupply' = CommittedSupply

(* In the middle of a transaction the ledger does not move.                *)
LEMMA MiddleStutters ==
  ASSUME ~Idle, ~Idle', saved' = saved
  PROVE  LedgerStutters
  BY DEF LedgerStutters, CommittedStake, CommittedSupply

(* Nor does it when a transaction fails or begins, ...                     *)
LEMMA RevertStutters ==
  ASSUME ~Idle, Revert
  PROVE  LedgerStutters
  BY RevertFlow DEF LedgerStutters, CommittedStake, CommittedSupply, Revert

LEMMA BeginStutters ==
  ASSUME Idle, ~Idle', saved' = Snapshot
  PROVE  LedgerStutters
  BY DEF LedgerStutters, CommittedStake, CommittedSupply, Snapshot

(* ... or when there is none.                                              *)
LEMMA QuietStutters ==
  ASSUME Idle, UNCHANGED queue, totalStaked' = totalStaked, cw20'.supply = cw20.supply
  PROVE  LedgerStutters
<1>1. Idle'
  BY DEF Idle
<1> QED
  BY <1>1 DEF LedgerStutters, CommittedStake, CommittedSupply

(* Minting the shares closes a deposit.                                    *)
LEMMA MintIsDeposit ==
  ASSUME TypeOK, OrderInv, SharesInv, MoneyInv, CallbackMintVaultToken
  PROVE  Ledger!Next
<1>1. /\ ~Idle /\ Head(queue).type = "MintVaultToken" /\ Continue(<<>>)
      /\ totalStaked' = totalStaked /\ CanMintVaultToken
  BY DEF CallbackMintVaultToken, Handles
<1>2. Idle'
  BY <1>1, DoneFlow DEF LastTypes
<1>3. PICK amount : amount = Amount
  OBVIOUS
<1>4. PICK before : before = saved.totalStaked
  OBVIOUS
<1>5. PICK yield : yield = totalStaked - amount - before
  OBVIOUS
<1>6. /\ amount \in Nat \ {0} /\ amount <= totalStaked
      /\ before \in Nat /\ before <= totalStaked - amount
      /\ cw20.supply = saved.cw20.supply /\ totalStaked <= MaxUint128
  BY <1>1, <1>3, <1>4, MintTime DEF Fits
<1>7. totalStaked \in Nat /\ cw20.supply \in Nat /\ MaxUint128 \in Nat
  BY MoneyTypes, VaultMathAssumption DEF VaultMathAssumption
<1>8. /\ amount \in 1..MaxUint128 /\ yield \in 0..MaxUint128
      /\ before + yield = totalStaked - amount
      /\ before + yield + amount = totalStaked
  BY <1>5, <1>6, <1>7
<1>9. PICK shares : shares = SharesToMint
  OBVIOUS
<1>10. /\ cw20'.supply = cw20.supply + shares
       /\ shares \in Nat \ {0} /\ Fits(cw20.supply + shares)
  BY <1>1, <1>9, MintedShares DEF CanMintVaultToken
<1>11. /\ CommittedStake = before /\ CommittedSupply = cw20.supply
       /\ CommittedStake' = totalStaked /\ CommittedSupply' = cw20.supply + shares
  BY <1>1, <1>2, <1>4, <1>6, <1>10 DEF CommittedStake, CommittedSupply
<1>12. shares = Ledger!CalculateVaultTokens(amount, before + yield, cw20.supply)
  BY <1>3, <1>8, <1>9, LedgerOperators DEF SharesToMint
<1>13. Ledger!Fits(totalStaked) /\ Ledger!Fits(cw20.supply + shares)
  BY <1>6, <1>10, LedgerOperators DEF Fits
<1>14. Ledger!Deposit(amount, yield)
  BY <1>8, <1>10, <1>11, <1>12, <1>13 DEF Ledger!Deposit
<1> QED
  BY <1>8, <1>14 DEF Ledger!Next

(* Paying the base tokens out closes a redemption.                         *)
LEMMA PayIsRedeem ==
  ASSUME TypeOK, MoneyInv, HandleSendTo \/ HandleSendToSelf, Idle'
  PROVE  Ledger!Next
<1>1. /\ ~Idle /\ Doing = "SendTo" /\ Head(queue) = queue[1]
      /\ totalStaked' = totalStaked /\ cw20' = cw20 /\ CanPayBaseTokens
  BY HeadAndTail DEF HandleSendTo, HandleSendToSelf, Handles, TypeOK, Doing, tokenVars
<1>2. PICK vaultTokens \in 1..saved.cw20.supply, yield \in 0..MaxUint128 :
        Redeemed(vaultTokens, yield)
  BY <1>1 DEF MoneyInv, RedeemedInv, AfterRedeem
<1>3. PICK paid : paid = queue[1].amount
  OBVIOUS
<1>4. PICK before, shares : before = saved.totalStaked /\ shares = saved.cw20.supply
  OBVIOUS
<1>5. paid > 0
  <2>1. paid \in 1..holds[BaseToken] /\ holds[BaseToken] \in Nat
    BY <1>1, <1>3, MoneyTypes DEF CanPayBaseTokens, Amount
  <2> QED
    BY <2>1
<1>6. /\ Fits(before + yield)
      /\ paid = CalculateBaseTokens(vaultTokens, before + yield, shares)
      /\ totalStaked = before + yield - paid
      /\ cw20.supply = shares - vaultTokens
  BY <1>2, <1>3, <1>4 DEF Redeemed
<1>7. /\ CommittedStake = before /\ CommittedSupply = shares
      /\ CommittedStake' = totalStaked /\ CommittedSupply' = cw20.supply
  BY <1>1, <1>4 DEF CommittedStake, CommittedSupply
<1>8. /\ paid = Ledger!CalculateBaseTokens(vaultTokens, before + yield, shares)
      /\ Ledger!Fits(before + yield)
  BY <1>6, LedgerOperators
<1>9. before + yield \in Nat /\ paid \in Nat /\ totalStaked = (before + yield) - paid
  <2>1. before \in Nat /\ yield \in Nat /\ paid \in Nat
    <3>1. paid \in 1..holds[BaseToken] /\ holds[BaseToken] \in Nat
      BY <1>1, <1>3, MoneyTypes DEF CanPayBaseTokens, Amount
    <3> QED
      BY <1>1, <1>2, <1>4, <3>1, MoneyTypes, ConstantTypes
  <2> QED
    BY <1>6, <2>1
<1>10. /\ vaultTokens \in 1..CommittedSupply /\ Ledger!Fits(CommittedStake + yield)
       /\ paid = Ledger!CalculateBaseTokens(vaultTokens, CommittedStake + yield,
                                            CommittedSupply)
       /\ CommittedStake' = (CommittedStake + yield) - paid
       /\ CommittedSupply' = CommittedSupply - vaultTokens
  BY <1>2, <1>4, <1>6, <1>7, <1>8, <1>9
<1>11. Ledger!Redeem(vaultTokens, yield)
  BY <1>5, <1>10 DEF Ledger!Redeem
<1> QED
  BY <1>10, <1>11 DEF Ledger!Next

LEMMA MessageImplementsLedger ==
  ASSUME TypeOK, OrderInv, JoinInv, SharesInv, MoneyInv, HandleMessage \/ ExternalFailure
  PROVE  Ledger!Next \/ LedgerStutters
<1>1. CASE FailedMessage \/ ExternalFailure
  BY <1>1, RevertStutters DEF FailedMessage, ExternalFailure
<1>2. CASE CallbackMintVaultToken
  BY <1>2, MintIsDeposit
<1>3. CASE CallbackRedeem
  BY <1>3, RedeemFlow, MiddleStutters DEF CallbackRedeem, Handles
<1>4. CASE LeavesShares
  <2>1. /\ ~Idle /\ Doing = Head(queue).type
        /\ \/ Idle' /\ Doing = "SendTo"
           \/ ~Idle' /\ saved' = saved
    BY <1>4, LeavesSharesFlow
  <2>2. CASE Idle' /\ Doing = "SendTo"
    <3>1. HandleSendTo
      BY <1>4, <2>1, <2>2
      DEF LeavesShares, CallbackSellRewards, CallbackProvideLiquidity, CallbackStake,
          HandleReceiveFrom, HandleClaimRewards, HandleMove, HandleToGenerator,
          HandleFromGenerator, Handles
    <3> QED
      BY <2>2, <3>1, PayIsRedeem
  <2> QED
    BY <2>1, <2>2, MiddleStutters
<1>5. CASE HandleSendToSelf
  BY <1>5, SelfFlow, PayIsRedeem
<1> QED
  BY <1>1, <1>2, <1>3, <1>4, <1>5 DEF HandleMessage, LeavesShares

LEMMA UserTxStutters ==
  ASSUME TypeOK, UserTx
  PROVE  LedgerStutters
<1>1. PICK user \in Users :
        \/ \E recipient \in Accounts, amount \in Nat \ {0} :
             amount <= lp[user] /\ ExecuteDeposit(user, amount, recipient)
        \/ \E recipient \in Accounts, vaultTokens \in Nat \ {0} :
             ExecuteRedeem(user, vaultTokens, recipient)
        \/ \E to \in Accounts, amount \in Nat \ {0} : ExecuteTransfer(user, to, amount)
  BY UserTxIs
<1>2. ASSUME NEW recipient \in Accounts, NEW amount \in Nat, ExecuteDeposit(user, amount, recipient)
      PROVE  LedgerStutters
  BY <1>2, DepositFlow, BeginStutters DEF ExecuteDeposit, BeginTx
<1>3. ASSUME NEW recipient \in Accounts, NEW vaultTokens,
             ExecuteRedeem(user, vaultTokens, recipient)
      PROVE  LedgerStutters
  BY <1>3, StartRedeemFlow, BeginStutters DEF ExecuteRedeem, BeginTx
<1>4. ASSUME NEW to \in Accounts, NEW amount, ExecuteTransfer(user, to, amount)
      PROVE  LedgerStutters
  <2>1. Transfer(user, to, amount) /\ user \in Accounts
    BY <1>4, ConstantTypes DEF ExecuteTransfer
  <2>2. cw20'.supply = cw20.supply
    BY <2>1, TransferType DEF TypeOK
  <2> QED
    BY <1>4, <2>2, QuietStutters DEF ExecuteTransfer
<1> QED
  BY <1>1, <1>2, <1>3, <1>4

LEMMA EnvironmentStutters ==
  ASSUME Environment
  PROVE  LedgerStutters
<1>1. Idle /\ UNCHANGED <<queue, totalStaked, cw20>>
  BY DEF Environment, ExecuteUpdateConfig, RewardsAccrue, Donate, tokenVars
<1> QED
  BY <1>1, QuietStutters

(* Every transaction, from its first message to the last, is one step of   *)
(* the ledger or none: it changes the total and the supply together, at    *)
(* the compounded price, or not at all (execute_deposit, execute_redeem    *)
(* and their callbacks).                                                   *)
THEOREM VaultImplementsLedger ==
  ASSUME BaseTokenIsNoReward
  PROVE  Spec => ImplementsLedger
<1>1. Init => Ledger!Init
  BY DEF Init, Ledger!Init, CommittedStake, CommittedSupply, Idle
<1>2. TypeOK /\ SplitIInv /\ SharesInv /\ MoneyInv /\ [Next]_vars
        => [Ledger!Next]_(Ledger!ledgerVars)
  <2> SUFFICES ASSUME TypeOK, SplitIInv, SharesInv, MoneyInv, [Next]_vars
               PROVE  Ledger!Next \/ LedgerStutters
    BY DEF LedgerStutters, Ledger!ledgerVars
  <2>1. CASE UNCHANGED vars
    BY <2>1 DEF vars, tokenVars, LedgerStutters, CommittedStake, CommittedSupply, Idle
  <2>2. OrderInv /\ JoinInv
    BY DEF SplitIInv
  <2> QED
    BY <2>1, <2>2, MessageImplementsLedger, UserTxStutters, EnvironmentStutters DEF Next
<1> QED
  BY <1>1, <1>2, TypeCorrect, SplitInvariant, SharesInvariant, MoneyInvariant, PTL
  DEF Spec, ImplementsLedger, Ledger!Spec

(* What is proved of the ledger holds for the vault.                       *)
Promises == INSTANCE VaultLedger_proofs WITH totalStaked <- CommittedStake,
                                             supply <- CommittedSupply

LEMMA LedgerKeepsPrice == Ledger!Spec => Ledger!PriceNeverFalls
<1>1. Promises!Spec => Promises!PriceNeverFalls
  BY VaultMathAssumption, Promises!SharePriceNeverFalls, PTL
<1>2. Ledger!Spec => Promises!Spec
  <2>1. Ledger!Init => Promises!Init
    BY DEF Ledger!Init, Promises!Init
  <2>2. [Ledger!Next]_(Ledger!ledgerVars) => [Promises!Next]_(Promises!ledgerVars)
    BY DEF Ledger!Next, Ledger!Deposit, Ledger!Redeem, Ledger!ledgerVars,
           Ledger!CalculateVaultTokens, Ledger!CalculateBaseTokens, Ledger!MultiplyRatio,
           Ledger!Fits,
           Promises!Next, Promises!Deposit, Promises!Redeem, Promises!ledgerVars,
           Promises!CalculateVaultTokens, Promises!CalculateBaseTokens,
           Promises!MultiplyRatio, Promises!Fits
  <2> QED
    BY <2>1, <2>2, PTL DEF Ledger!Spec, Promises!Spec
<1> QED
  BY <1>1, <1>2, PTL
  DEF Promises!PriceNeverFalls, Ledger!PriceNeverFalls, Promises!ledgerVars, Ledger!ledgerVars

(* No transaction of the vault, from the state before its first message to *)
(* the state after its last, lowers what a share is worth: neither the     *)
(* rounding of a deposit or a redemption, nor the fee on what is           *)
(* compounded, nor a failure half way (calculate_vault_tokens,             *)
(* calculate_base_tokens, compound).                                       *)
THEOREM VaultKeepsPrice ==
  ASSUME BaseTokenIsNoReward
  PROVE  Spec => Ledger!PriceNeverFalls
  BY VaultImplementsLedger, LedgerKeepsPrice, PTL DEF ImplementsLedger
=============================================================================
