--------------------------- MODULE AstroportVault ---------------------------
(***************************************************************************)
(* The Astroport vault, message by message.  Base tokens are cw20 tokens   *)
(* that the deposit pulls in with a message of its own; they are staked in *)
(* a generator, which gives them back at once; the shares are cw20 tokens  *)
(* that this contract keeps itself, so that minting, burning and receiving *)
(* them is part of a handler and not a message.                            *)
(*                                                                         *)
(* Messages are handled first in first out, those a callback returns       *)
(* before the ones that were waiting, and a failure undoes all of them.    *)
(***************************************************************************)
EXTENDS Compounding

CONSTANTS
  Users,
  Vault,         \* the contract's account
  Recipients,    \* accounts that may be named as the recipient
  RewardTokens,  \* what the generator pays
  NoTx,          \* no transaction is being executed
  Float,         \* base tokens the vault is given when it is set up
  UserBase,      \* base tokens every user starts with
  Incentives     \* reward tokens that are ever paid

Accounts == Users \cup {Vault}

ASSUME AstroportAssumption ==
  /\ IsFiniteSet(Users) /\ Vault \notin Users
  /\ Recipients \subseteq Accounts
  /\ RewardTokens \subseteq Assets
  /\ {Float, UserBase, Incentives} \subseteq Nat

VARIABLES
  totalStaked,  \* base_vault.total_staked_base_tokens
  cw20,         \* the shares: [balance of the accounts, supply]
  lp,           \* the users' base tokens
  generator,    \* [stake, pending rewards : of the vault, incentives : to come]
  donated,      \* history: base tokens the vault got outside of deposits
  queue,        \* the messages of the transaction that are still to be handled
  saved         \* the state before the transaction, or NoTx

tokenVars == <<cw20, lp>>
vars == <<totalStaked, tokenVars, generator, compoundingVars, donated, queue, saved>>

(* instantiate.                                                            *)
Init ==
  /\ totalStaked = 0
  /\ cw20 = [balance |-> [a \in Accounts |-> 0], supply |-> 0]
  /\ lp = [u \in Users |-> UserBase]
  /\ generator = [stake |-> 0, pending |-> Nothing, incentives |-> Incentives]
  /\ CompoundingInit(Float)
  /\ donated = Float
  /\ queue = <<>>
  /\ saved = NoTx

----------------------------------------------------------------------------
(* Messages.                                                               *)
SellRewards == [type |-> "SellRewards"]
ProvideLiquidity == [type |-> "ProvideLiquidity"]
Stake(before) == [type |-> "Stake", amount |-> before]
MintVaultToken(amount, recipient) ==
  [type |-> "MintVaultToken", amount |-> amount, user |-> recipient]
Redeem(vaultTokens, recipient) ==
  [type |-> "Redeem", amount |-> vaultTokens, user |-> recipient]

ClaimRewards == [type |-> "ClaimRewards"]
ReceiveFrom(owner, amount) ==
  [type |-> "ReceiveFrom", amount |-> amount, user |-> owner]
SendTo(recipient, amount) ==
  [type |-> "SendTo", amount |-> amount, user |-> recipient]
Move(type, amounts) == [type |-> type, amounts |-> amounts]
ToGenerator(amount) == [type |-> "ToGenerator", amount |-> amount]
FromGenerator(amount) == [type |-> "FromGenerator", amount |-> amount]

Message ==
  [type : {"SellRewards", "ProvideLiquidity", "ClaimRewards"}]
    \cup [type : {"Stake", "ToGenerator", "FromGenerator"}, amount : Nat]
    \cup [type : {"ReceiveFrom"}, amount : Nat, user : Users]
    \cup [type : {"MintVaultToken", "Redeem", "SendTo"}, amount : Nat, user : Accounts]
    \cup [type : {"PayTreasury", "Swap", "JoinPool"}, amounts : Amounts]

Idle == queue = <<>>

Snapshot ==
  [totalStaked |-> totalStaked, cw20 |-> cw20, lp |-> lp, generator |-> generator,
   holds |-> holds, treasury |-> treasury, fresh |-> fresh, due |-> due]

BeginTx(messages) ==
  /\ Idle
  /\ queue' = messages
  /\ saved' = Snapshot
  /\ UNCHANGED donated

Handles(type) == ~Idle /\ Head(queue).type = type

Amount == Head(queue).amount

(* The head of the queue is done and has sent messages of its own.         *)
Continue(messages) ==
  /\ queue' = messages \o Tail(queue)
  /\ saved' = IF queue' = <<>> THEN NoTx ELSE saved
  /\ UNCHANGED donated

Revert ==
  /\ queue' = <<>>
  /\ saved' = NoTx
  /\ totalStaked' = saved.totalStaked
  /\ cw20' = saved.cw20
  /\ lp' = saved.lp
  /\ generator' = saved.generator
  /\ holds' = saved.holds
  /\ treasury' = saved.treasury
  /\ fresh' = saved.fresh
  /\ due' = saved.due
  /\ UNCHANGED <<config, donated>>

NonEmpty(amounts, messages) == IF amounts = Nothing THEN <<>> ELSE messages

----------------------------------------------------------------------------
(* Entry handlers.                                                         *)

(* Defect: the stake callback is told that there was nothing before.       *)
CompoundStakesAll ==
  NonEmpty(generator.pending, <<ClaimRewards>>)
    \o <<SellRewards, ProvideLiquidity, Stake(0)>>

(* compound() with a user_deposit_amount of zero: the deposit of a cw20    *)
(* base token is not on the vault's account yet.  Rewards are claimed if   *)
(* there are any.                                                          *)
Compound ==
  NonEmpty(generator.pending, <<ClaimRewards>>)
    \o <<SellRewards, ProvideLiquidity, Stake(holds[BaseToken])>>

(* execute_deposit.                                                        *)
ExecuteDeposit(user, amount, recipient) ==
  /\ BeginTx(<<ReceiveFrom(user, amount)>> \o Compound
               \o <<MintVaultToken(amount, recipient)>>)
  /\ UNCHANGED <<totalStaked, tokenVars, generator, compoundingVars>>

Transfer(from, to, amount) ==
  LET sent == [cw20.balance EXCEPT ![from] = @ - amount]
  IN  /\ amount \in 1..cw20.balance[from]
      /\ cw20' = [cw20 EXCEPT !.balance = [sent EXCEPT ![to] = @ + amount]]

(* execute_redeem: the shares go to the contract in the handler itself.    *)
ExecuteRedeem(user, vaultTokens, recipient) ==
  /\ Transfer(user, Vault, vaultTokens)
  /\ BeginTx(Compound \o <<Redeem(vaultTokens, recipient)>>)
  /\ UNCHANGED <<totalStaked, lp, generator, compoundingVars>>

(* ExecuteMsg::Transfer and its like, also to the contract's own account.  *)
ExecuteTransfer(user, to, amount) ==
  /\ Idle
  /\ Transfer(user, to, amount)
  /\ UNCHANGED <<totalStaked, lp, generator, compoundingVars, donated, queue, saved>>

ExecuteUpdateConfig ==
  /\ Idle
  /\ UpdateConfig
  /\ UNCHANGED <<totalStaked, tokenVars, generator, donated, queue, saved>>

----------------------------------------------------------------------------
(* Callbacks.                                                              *)

CallbackSellRewards ==
  /\ Handles("SellRewards")
  /\ RewardsCounted
  /\ Continue(NonEmpty(FeeToTreasury, <<Move("PayTreasury", FeeToTreasury)>>)
                \o NonEmpty(ToSell, <<Move("Swap", ToSell)>>))
  /\ UNCHANGED <<totalStaked, tokenVars, generator>>

CallbackProvideLiquidity ==
  /\ Handles("ProvideLiquidity")
  /\ Continue(NonEmpty(ToProvide, <<Move("JoinPool", ToProvide)>>))
  /\ UNCHANGED <<totalStaked, tokenVars, generator, compoundingVars>>

(* execute_callback_stake: what came in since the handler ran.             *)
AmountToStake ==
  IF holds[BaseToken] >= Amount THEN holds[BaseToken] - Amount ELSE 0

CanStake == Fits(totalStaked + AmountToStake)

CallbackStake ==
  /\ Handles("Stake")
  /\ CanStake
  /\ totalStaked' = totalStaked + AmountToStake
  /\ Continue(IF AmountToStake = 0 THEN <<>> ELSE <<ToGenerator(AmountToStake)>>)
  /\ UNCHANGED <<tokenVars, generator, compoundingVars>>

(* Defects: the price is taken from the total before the transaction; the  *)
(* depositor gets shares for the compounded rewards as well.               *)
SharesToMintAtOldPrice ==
  CalculateVaultTokens(Amount, saved.totalStaked, cw20.supply)

SharesToMintForRewardsToo ==
  CalculateVaultTokens(totalStaked - saved.totalStaked, saved.totalStaked, cw20.supply)

(* execute_callback_mint_vault_token.                                      *)
SharesToMint == CalculateVaultTokens(Amount, totalStaked - Amount, cw20.supply)

CanMintVaultToken ==
  /\ Amount <= totalStaked
  /\ SharesToMint > 0
  /\ Fits(cw20.supply + SharesToMint)

CallbackMintVaultToken ==
  /\ Handles("MintVaultToken")
  /\ CanMintVaultToken
  /\ cw20' = [cw20 EXCEPT !.balance[Head(queue).user] = @ + SharesToMint,
                          !.supply = @ + SharesToMint]
  /\ Continue(<<>>)
  /\ UNCHANGED <<totalStaked, lp, generator, compoundingVars>>

(* burn_vault_tokens_for_base_tokens.                                      *)
BurnValue == CalculateBaseTokens(Amount, totalStaked, cw20.supply)

CanRedeem ==
  /\ Amount \in 1..cw20.balance[Vault]
  /\ Amount <= cw20.supply
  /\ BurnValue <= totalStaked

Burn(vaultTokens) ==
  cw20' = [cw20 EXCEPT !.balance[Vault] = @ - vaultTokens,
                       !.supply = @ - vaultTokens]

(* Defect: the total is lowered by the shares.                             *)
CallbackRedeemCountsShares ==
  /\ Handles("Redeem")
  /\ CanRedeem
  /\ Burn(Amount)
  /\ totalStaked' = totalStaked - Amount
  /\ Continue(<<FromGenerator(BurnValue), SendTo(Head(queue).user, BurnValue)>>)
  /\ UNCHANGED <<lp, generator, compoundingVars>>

(* execute_callback_redeem.                                                *)
CallbackRedeem ==
  /\ Handles("Redeem")
  /\ CanRedeem
  /\ Burn(Amount)
  /\ totalStaked' = totalStaked - BurnValue
  /\ Continue(<<FromGenerator(BurnValue), SendTo(Head(queue).user, BurnValue)>>)
  /\ UNCHANGED <<lp, generator, compoundingVars>>

----------------------------------------------------------------------------
(* Messages to other contracts.                                            *)

CanReceive == Amount \in 1..lp[Head(queue).user]

HandleReceiveFrom ==
  /\ Handles("ReceiveFrom")
  /\ CanReceive
  /\ lp' = [lp EXCEPT ![Head(queue).user] = @ - Amount]
  /\ MoveBaseTokens(Amount)
  /\ Continue(<<>>)
  /\ UNCHANGED <<totalStaked, cw20, generator>>

HandleClaimRewards ==
  /\ Handles("ClaimRewards")
  /\ RewardsArrive(generator.pending)
  /\ generator' = [generator EXCEPT !.pending = Nothing]
  /\ Continue(<<>>)
  /\ UNCHANGED <<totalStaked, tokenVars>>

HandleMove ==
  /\ \/ Handles("PayTreasury") /\ PayTreasury(Head(queue).amounts)
     \/ Handles("Swap") /\ SwapBasket(Head(queue).amounts)
     \/ Handles("JoinPool") /\ JoinPool(Head(queue).amounts)
  /\ Continue(<<>>)
  /\ UNCHANGED <<totalStaked, tokenVars, generator>>

CanPayBaseTokens == Amount \in 1..holds[BaseToken]

HandleToGenerator ==
  /\ Handles("ToGenerator")
  /\ CanPayBaseTokens
  /\ MoveBaseTokens(-Amount)
  /\ generator' = [generator EXCEPT !.stake = @ + Amount]
  /\ Continue(<<>>)
  /\ UNCHANGED <<totalStaked, tokenVars>>

CanUnstake == Amount <= generator.stake

HandleFromGenerator ==
  /\ Handles("FromGenerator")
  /\ CanUnstake
  /\ MoveBaseTokens(Amount)
  /\ generator' = [generator EXCEPT !.stake = @ - Amount]
  /\ Continue(<<>>)
  /\ UNCHANGED <<totalStaked, tokenVars>>

HandleSendTo ==
  /\ Handles("SendTo") /\ Head(queue).user # Vault
  /\ CanPayBaseTokens
  /\ MoveBaseTokens(-Amount)
  /\ lp' = [lp EXCEPT ![Head(queue).user] = @ + Amount]
  /\ Continue(<<>>)
  /\ UNCHANGED <<totalStaked, cw20, generator>>

(* The recipient of a redemption may be the contract itself: the tokens    *)
(* stay on its account, where they are like any others it was given.       *)
HandleSendToSelf ==
  /\ Handles("SendTo") /\ Head(queue).user = Vault
  /\ CanPayBaseTokens
  /\ donated' = donated + Amount
  /\ queue' = Tail(queue)
  /\ saved' = IF queue' = <<>> THEN NoTx ELSE saved
  /\ UNCHANGED <<totalStaked, tokenVars, generator, compoundingVars>>

CanHandle ==
  LET m == Head(queue)
  IN  /\ m.type = "Stake" => CanStake
      /\ m.type = "MintVaultToken" => CanMintVaultToken
      /\ m.type = "Redeem" => CanRedeem
      /\ m.type = "ReceiveFrom" => CanReceive
      /\ m.type \in {"PayTreasury", "Swap", "JoinPool"} => CanSpend(m.amounts)
      /\ m.type \in {"ToGenerator", "SendTo"} => CanPayBaseTokens
      /\ m.type = "FromGenerator" => CanUnstake

FailedMessage == ~Idle /\ ~CanHandle /\ Revert

(* The router, the liquidity helper or the generator refuses a message.    *)
ExternalFailure ==
  /\ ~Idle
  /\ Head(queue).type \in {"Swap", "JoinPool", "ClaimRewards", "FromGenerator"}
  /\ Revert

----------------------------------------------------------------------------
(* Between transactions.                                                   *)

(* Only what is staked earns rewards.                                      *)
RewardsAccrue(a) ==
  /\ Idle
  /\ generator.incentives > 0 /\ generator.stake > 0
  /\ generator' = [generator EXCEPT !.incentives = @ - 1, !.pending[a] = @ + 1]
  /\ UNCHANGED <<totalStaked, tokenVars, compoundingVars, donated, queue, saved>>

Donate(user, amount) ==
  /\ Idle
  /\ lp' = [lp EXCEPT ![user] = @ - amount]
  /\ MoveBaseTokens(amount)
  /\ donated' = donated + amount
  /\ UNCHANGED <<totalStaked, cw20, generator, queue, saved>>

HandleMessage ==
  \/ CallbackSellRewards \/ CallbackProvideLiquidity \/ CallbackStake
  \/ CallbackMintVaultToken \/ CallbackRedeem
  \/ HandleReceiveFrom \/ HandleClaimRewards \/ HandleMove
  \/ HandleToGenerator \/ HandleFromGenerator
  \/ HandleSendTo \/ HandleSendToSelf
  \/ FailedMessage

UserTx ==
  \E user \in Users :
    \/ \E recipient \in {user} \cup Recipients :
         \/ \E amount \in 1..lp[user] : ExecuteDeposit(user, amount, recipient)
         \/ \E vaultTokens \in 1..cw20.balance[user] :
              ExecuteRedeem(user, vaultTokens, recipient)
    \/ \E to \in Accounts \ {user}, amount \in 1..cw20.balance[user] :
         ExecuteTransfer(user, to, amount)

Environment ==
  \/ ExecuteUpdateConfig
  \/ \E a \in RewardTokens : RewardsAccrue(a)
  \/ \E user \in Users : \E amount \in 1..lp[user] : Donate(user, amount)

Next == HandleMessage \/ ExternalFailure \/ UserTx \/ Environment

Spec == Init /\ [][Next]_vars

----------------------------------------------------------------------------
(* Type invariant.                                                         *)
Cw20Type == [balance : [Accounts -> Nat], supply : Nat]

GeneratorType == [stake : Nat, pending : Amounts, incentives : Nat]

SavedTypeOK ==
  /\ saved.totalStaked \in Nat
  /\ saved.cw20 \in Cw20Type
  /\ saved.lp \in [Users -> Nat]
  /\ saved.generator \in GeneratorType
  /\ {saved.holds, saved.treasury, saved.fresh, saved.due} \subseteq Amounts

TypeOK ==
  /\ totalStaked \in Nat
  /\ cw20 \in Cw20Type
  /\ lp \in [Users -> Nat]
  /\ generator \in GeneratorType
  /\ CompoundingTypeOK
  /\ donated \in Nat
  /\ queue \in Seq(Message)
  /\ IF Idle THEN saved = NoTx ELSE SavedTypeOK

----------------------------------------------------------------------------
(* Safety.                                                                 *)

(* Between transactions the stored total is what the generator holds for   *)
(* the vault, and every base token the vault got in deposits and from      *)
(* compounding is staked or paid out: what lies on its account is what it  *)
(* was given (base_vault.rs:18-21, execute_callback_stake).                *)
StakeIsCounted ==
  Idle => totalStaked = generator.stake /\ holds[BaseToken] = donated

(* Between transactions, of every asset that is sold when it is listed the *)
(* vault has only the income since it was last charged, and the treasury   *)
(* has exactly the fee on the income before that.  Income is what the      *)
(* generator pays, and what a sale brings in while the config names such   *)
(* an asset as the target: such proceeds are not put into the pool but are *)
(* charged again, once, when that asset is next listed.  No income is      *)
(* charged twice or sold with its fee, and none that was charged stays,    *)
(* through changes of the fee, the list and the target and however many    *)
(* transactions fail (execute_callback_sell_rewards, execute_update_config)*)
RewardsAreSplit ==
  Idle => \A a \in OtherAssets : holds[a] = fresh[a] /\ treasury[a] = due[a]

(* With every reward asset listed once, no message fails for reasons of    *)
(* the vault's own bookkeeping: the fees and what is sold are together     *)
(* within the balance read before either was paid, the shares to burn are  *)
(* there, what is unstaked was staked and what is sent has arrived.        *)
ListedOnce == \A a \in Assets : Listed(a) <= 1

BookkeepingNeverFails ==
  ~Idle /\ ListedOnce =>
    CASE Head(queue).type = "MintVaultToken" -> Amount <= totalStaked
      [] Head(queue).type = "Stake" -> TRUE
      [] Head(queue).type = "SendTo" -> Amount <= holds[BaseToken]
      [] OTHER -> CanHandle

(* PreviewDeposit and PreviewRedeem, asked just before a transaction, are  *)
(* bounds on what it does: a deposit never mints more than the preview and *)
(* a redemption never pays less, whatever is compounded in between         *)
(* (query_simulate_deposit, query_simulate_withdraw).                      *)
QuerySimulateDeposit(amount) ==
  CalculateVaultTokens(amount, saved.totalStaked, saved.cw20.supply)

QuerySimulateWithdraw(amount) ==
  CalculateBaseTokens(amount, saved.totalStaked, saved.cw20.supply)

PreviewsAreBounds ==
  [][ /\ CallbackMintVaultToken
           => cw20'.supply - cw20.supply <= QuerySimulateDeposit(Amount)
      /\ CallbackRedeem
           => totalStaked - totalStaked' >= QuerySimulateWithdraw(Amount) ]_vars

(* The vault implements the ledger.                                        *)
CommittedStake == IF Idle THEN totalStaked ELSE saved.totalStaked
CommittedSupply == IF Idle THEN cw20.supply ELSE saved.cw20.supply

Ledger == INSTANCE VaultLedger WITH totalStaked <- CommittedStake,
                                    supply <- CommittedSupply

ImplementsLedger == Ledger!Spec

============================================================================
