# A TLA+ model of the Apollo vaults

The repository holds two CosmWasm contracts that share their logic: the Osmosis
vault (shares are a native token, the LP tokens are locked and unlock after a
while) and the Astroport vault (shares are a cw20, LP tokens are redeemed at
once). A user deposits LP tokens ("base tokens") and gets shares ("vault
tokens"). Every deposit and every withdrawal first compounds the rewards: sells
them, provides liquidity, stakes the new LP tokens for all the share holders.

This directory models that code in TLA+, checks it with TLC on small instances
and proves the most important properties with TLAPS for every instance.

## 1. The system

| Part | Code | State | Operations |
|---|---|---|---|
| Share accounting | `base_vault.rs` | staked total, share supply (in the token) | convert, burn for base tokens, send |
| Claims store | `state.rs`, `Claims` | claims by id, pending claim, id counter | create, set, commit, claim, force claim, page |
| Deposit | `execute_staking.rs` | – | deposit, mint callback |
| Compounding | `execute_compound.rs` | – | sell rewards, provide liquidity, stake (callbacks) |
| Unlocking | `execute_unlock.rs` | counter of dummy locks | unlock, unlock and save callbacks, withdraw |
| Forced withdrawals | `execute_force_unlock.rs` | whitelist (in the config) | force redeem, force withdraw, whitelist update |
| Redeeming | `execute_redeem.rs` | – | redeem, redeem callback |
| Administration | `autocompounding_vault.rs`, `state.rs` | admin, proposed admin, config | propose, accept, drop, update config |
| Queries | `query.rs`, `state.rs`, `execute_unlock.rs` | – | previews, pages of claims, stored values |
| Osmosis contract | `contracts/osmosis-vault` | lock id (in `staking`) | dispatch, replies, migrate |
| Astroport contract | `contracts/astroport-vault` | cw20 state of the shares | dispatch, cw20 messages, migrate |
| Chain and others | not in the repository | balances, locks, rewards, time | bank, x/lockup, x/tokenfactory, generator, cw20 tokens, router, liquidity helper |

**How the parts interact.** Nothing runs in parallel. An entry handler writes
to the storage and returns messages; the chain handles them in order, and what
a callback sends goes before what was waiting. So one `unlock` runs as seven or
more separate steps (`SellRewards`, its swaps, `ProvideLiquidity`, `Stake`, the
lock and its reply, `Unlock`, the burn, the unlock, the dummy lock and its
reply, `SaveClaim`), each reading what the earlier ones wrote, and values read
in the first are used in later ones. If any step fails, the whole transaction
is undone.

The Astroport vault differs in three ways. Its base token is a cw20, which a
message of its own pulls in *after* the entry handler has read the balance. Its
shares are a cw20 that the contract keeps itself, so minting, burning and
receiving them happens in the handler and not in a message. And the generator
returns stake at once, so there are no claims.

**What is hard.**
 - Prices are integers that round, computed in a different step than the one in
   which the stake or the supply changes.
 - The staked total is stored, not queried, and must follow the locks.
 - Tokens that wait for matured claims are on the same account as deposits and
   rewards; only a balance read several messages earlier tells them apart.
 - Claim ids are derived from the ids of locks on a counter that the whole chain
   shares, by way of a dummy lock made for this purpose.
 - A claim matures in a block at whose end only its tokens come back.
 - Claims can be taken in parts, by force, before or after they mature.
 - A reward asset can be a pool asset, the base token, or listed twice; fee and
   sale are computed from one balance and paid by two messages; and the config
   may change between the day a reward comes in and the day it is sold.
 - Previews and pages of claims are read in one state and used in another.

**What makes each part correct.** Accounting: no share loses value, and
shares and stake exist together. Claims: paid exactly once, ids never reused,
terms never changed. Osmosis vault: total = lock, claims covered by tokens,
ids that name the right lock, no pending claim left, and every claim paid in
the end. Astroport vault: total = what the generator holds, nothing but
donations left on the account. Compounding: all income in an asset that is sold
is charged once, and all of the rest is sold. Both vaults: a transaction is a
step of the ledger. Administration: only the admin in office hands over. Queries: a preview is a bound on what the
transaction does, and no claim is missed between two pages.

## 2. The modules

| Module | What it is |
|---|---|
| `VaultMath` | the conversions and the fee, as operators |
| `VaultLedger` | abstract specification of the accounting: a transaction is one step |
| `Claims` | the claims store, one operator per method |
| `ClaimsLifecycle` | the store alone under every legal sequence of calls, with history variables |
| `ClaimsPaging` | the same, with a client that reads the claims of an owner page by page |
| `Lockup` | x/lockup as the vault sees it (external) |
| `OsmosisVault` | the contract, message by message, on top of `VaultMath`, `Claims` and `Lockup`; refines `VaultLedger` |
| `Compounding` | what the compounding callbacks do to any number of assets |
| `AstroportVault` | the other contract, message by message, on top of `VaultMath` and `Compounding`; refines `VaultLedger` |
| `OsmosisVaultDocs`, `AstroportVaultDocs` | statements of comments that the code does not keep |
| `Governance` | admin, config and whitelist |
| `MCClaims`, `MCAstroport`, `MCGovernance` | instances for TLC |
| `*_proofs` | the proofs (section 5) |

Operators whose comment begins with "Defect" are deliberately wrong variants of
the definition that follows. They are used by nothing: with the definition
replaced by its variant TLC finds a property violated, which shows that the
property can tell (`PROJECT.json`, "mutants").

### VaultLedger
`totalStaked` and `supply`; `Deposit(amount, yield)` and `Redeem(vaultTokens,
yield)`, where yield is what compounding adds first. `Redeem` stands for unlock,
redeem and (with no yield) force redeem. A transaction that mints, sends or
unlocks nothing fails, so it is no step.

### Claims, ClaimsLifecycle
An error of a method is a disabled operator. `ClaimsLifecycle` adds the callers:
ids either come from the counter, or from a contract that issues increasing ids,
which the reply handler stores in the pending claim. `granted` and `paid` are history.

### ClaimsPaging
`QueryClaimsForOwner` is the query: the `limit` smallest ids of the owner's
claims after `start_after`. The client (`reading`) asks for the page after the
last id it has seen until a page is not full; claims are committed and paid
out between any two pages. `ReadingIsComplete` says that it then has seen all
claims that are open at that moment. This needs that a new claim's id is above
every id a page can end with, which `NothingBehind` says.

### OsmosisVault
 - `storage` is what the contract stores besides its claims: the staked total,
   `staking.lock_id`, and `DURATION_COUNTER`. `bank` is the balances,
   `locks`/`lastLockId` the lockup module, `now` the block time, `donated` the
   history of the base tokens that the vault was given.
 - `queue` is the messages still to be handled. It is empty between
   transactions (`Idle`). `saved` is the state at the start of the transaction;
   `Revert` restores it.
 - `Execute*` are the entry handlers, `Callback*` the callbacks, `Reply*` the
   replies, `Handle*` the other contracts and modules. An entry handler that
   returns an error is disabled; a message that fails is `FailedMessage`, and a
   router or helper that refuses is `ExternalFailure`.
 - The guard of every message is an operator of its own (`CanStake`,
   `CanMint`, ...), so that `FailedMessage` is its exact complement.
 - `Environment`: blocks, matured locks returned, rewards, other people's locks,
   plain transfers to the vault.

The recipient of a transaction is its sender or one of `Recipients`, among which
the contract itself may be: nothing refuses its address. Tokens sent to itself
stay on its account and count as given to it (`HandleSendToSelf`). The coins
that must come with a message are taken to be the right ones (others are
refused before anything changes). The whitelist and the fee are constants here;
`Governance` changes them. There is one reward and one pool asset here;
`Compounding` has any number. The liquidation target is here the pool asset, so
the effects of a listed base token, of a listed pool asset and of a target
outside of the pool are looked at in `AstroportVault` only.

`ExecuteUnlock` fails when `DURATION_COUNTER` is past `MaxCounter`. The counter is
the nanoseconds of a protobuf Duration, which must be below 10^9, so the lock
message is refused, and the transaction undone, before the i32 gets near its
limit; `MaxCounter` stands for the last value that is accepted. Up to there every
dummy lock has a duration that none had before (`DummyLocksAreNew`); otherwise the lock
would be added to an old one, and its id be the old one's.

### Compounding
`holds`, `treasury` are balances by asset. `FeeToTreasury`, `ToSell` and
`ToProvide` are what the callbacks compute from `holds`; `PayTreasury`,
`SwapBasket`, `JoinPool` are the messages. All read `config`: the fee, the list of
rewards, which is a sequence that may name an asset twice (it is then counted
twice, as the code does), and the liquidation target. The target is in the pool at
first (`CompoundingInit`), and anything that `Configs` has after an update. What
a sale brings in for a target outside of the pool is not provided as liquidity
and stays on the account. `fresh` and `due` are history: the income in
an asset since it was last charged, and the fee on that before. Income is what the
staking contract pays, and the proceeds of a sale for a target that is itself an asset
to sell. The module has no queue; the contract decides when each operator runs.

### AstroportVault
 - `totalStaked` is stored by the contract, `cw20` is its shares, `lp` the
   users' base tokens, `generator` the staking contract with the rewards it
   owes. `queue`, `saved`, `Continue`, `Revert` are as in `OsmosisVault`.
 - `Compound` reads the balance of base tokens *before* `ReceiveFrom` has
   pulled in a deposit; the stake callback then stakes what has come in since.
 - `CanHandle` is the guard of the message at the head, and `FailedMessage`
   its complement.
 - `ExecuteTransfer` stands for the cw20 messages that move shares, also to the
   contract's own account, where a redemption's shares wait to be burned.
 - `QuerySimulateDeposit`, `QuerySimulateWithdraw` are the previews.
 - The recipient of a redemption may be the contract itself, as above.

### What is assumed of the code that is not in the repository
 - `MsgLockTokens` adds to the sender's lock of the same duration that is not
   unlocking, or makes a new one with the next id; its answer is the id.
 - `MsgBeginUnlocking` of a part of a lock splits that part off under the next
   id; the whole lock keeps its id. `MsgForceUnlock` of a part uses up an id
   too.
 - Matured locks are returned at the end of a block. The model lets each return
   separately, and makes no new block while one is left.
 - Zero amounts are refused by bank, lockup and token factory, and so is burning
   more than there is.
 - Osmosis' rewards come to the account by themselves: `claim_rewards` and
   `withdraw_unlocked` of the staking object send nothing.
 - A submessage that fails undoes the transaction. The one for the dummy lock
   replies on success only (`execute_unlock.rs:133`), and the staking object's
   locks are taken to do the same. The lockup answers with data. The last branch of
   `reply` (`contract.rs:279-281`), which changes nothing for an error or an answer without
   data, is therefore not reached and not modelled.
 - Router and liquidity helper pay out any positive amount up to the one put in
   (one unit is one unit of value), or fail. In `Compounding` the helper may
   also leave a part of a pool asset on the vault's account.
 - The generator pays rewards on stake only, sends them when asked (the vault
   asks only if something is pending), and returns stake at once or refuses.
 - The cw20 shares refuse zero amounts and amounts above the balance. Users
   have given the Astroport vault the allowance that a deposit needs.

### Governance
The config without the accounts that are only paid or called. An optional field
is the empty set or one value. The routes of a router do not change. The list
of rewards is a sequence of at most `MaxRewards` assets, in which an asset may come
more than once, as nothing removes it. The whitelist is a Vec in the code too, but
is only ever asked whether it contains an account, and its update goes through a
set (`execute_force_unlock.rs:138-170`), so it is a set here. A merged
config is checked as a whole (`Check`). That check is not restated as a property:
it is not enough for a config to be compounded with, as a list with a duplicate
passes it (section 3).

## 3. The runs

| Run | Question | Bounds | States |
|---|---|---|---|
| `ledger` | does any rounding hurt a share holder? | totals up to 14, scale 2 | 146 |
| `claims` | is every claim paid once and seen by who reads them? | 2 users, amounts ≤ 2, 3 ids, 2 times, pages of ≤ 2 | 393k |
| `governance` | can handover or partial updates go wrong? | 2 accounts, 3 assets, lists of ≤ 2, 2 routers | 3.6k |
| `vault_unlock` | do stake, claims and locks stay in step? | 2 users with 2 tokens, 7 lock ids, 3 times, counter ≤ 2, no rewards, the vault as recipient | 3.29M |
| `vault_ledger` | is the vault a ledger, and is every claim paid? | 2 users with 1 token, 2 rewards, 5 lock ids, 3 times | 136k |
| `astroport` | is the Astroport vault a ledger, and is all income charged once? | 2 users with 1 token, 2 rewards of 2 kinds, 3 configs, the vault as recipient | 466k |
| `docs_*` | does the code do what the comment says? | as needed | violated |

**Why the bounds are enough.** Seven lock ids are two deposits into a vault
without stake, and unlocks of a part and of the whole, each with its dummy lock,
with another account's lock in between. The counter reaches its bound within
them. Two tokens for each of two users
are the least with which a part of a position can be unlocked or a claim taken
in two parts, and with which prices round. Two rewards with a fee of a quarter
leave one to sell and one for the treasury. The three configs of `astroport` have
different fees, both orders of a pool asset and an asset to sell, one lists
an asset twice, and one has a target that is outside of the pool and a reward itself.
As another config lists that asset too, the proceeds of one sale are charged and
sold by the next. One token for each user is enough there, as a share is worth
less than a token (the scale is two) and is redeemed by itself, while rewards make
the price one that rounds. Two ids on a page and three ids are a full page, a last page and a
claim that is new in between. Three times are a claim that is
open, one that matures in this block and one that matured before. `MaxUint128`
is reached in `ledger`, where the overflow guards disable steps.
The runs of the vaults and of the claims do not check deadlock: with every
bound used up the model stops. Users that are alike are symmetric in `claims` and
`astroport`, which have only safety and refinement properties.

**What they show.** All properties hold; the statements below do not.

| Statement of a comment | What the code does |
|---|---|
| `execute_unlock.rs:88-90` the position's id is the dummy lock's minus one | not when the whole lock is unlocked |
| `execute_force_unlock.rs:112` expired means already returned | not in the block in which it expires |
| `execute_staking.rs:26` the deposit is minted | a first deposit that compounds rewards is worth nothing and fails |
| `execute_unlock.rs:31` withdraw a finished position | only if the vault holds tokens for the dummy locks |
| `state.rs:22` the fee is a percentage of the profit | with the base token among the rewards, deposits pay it |
| `state.rs:22` the same | with a pool asset among the rewards, what the pool did not take pays it again |
| `state.rs:32` the target is in the pool | a config update does not check it |

`MaturedClaimsPayable` and `EveryClaimIsPaid` therefore say when claims can be
paid: when the tokens given to the vault cover one base token per unlock, as
the integration tests arrange (`integration_test.rs:224-235`).

Three things that the models show and that are no disagreement with a comment:
 - The claim of a whole unlock has the id before its dummy lock's, and that can
   be an *earlier dummy lock*. Taken by force, it takes that lock's token, which
   was the vault's own. `StakeIsLocked` and `ClaimsAreBacked` hold all the same.
 - With an asset listed twice, whatever is left after the fee is to be spent
   twice, so compounding fails while there is any of it, and with it deposits
   and redemptions, until the list is corrected. No token is lost by that:
   `StakeIsCounted` and `RewardsAreSplit` hold for such a list too. But
   `BookkeepingNeverFails` does not, and is about lists that name an asset once.
 - A config update may set a liquidation target outside of the pool
   (`docs_target`). Rewards are then sold for it and the proceeds stay on the account. If
   the target is a listed reward itself, the next compounding charges and sells
   them again, as it cannot tell them from new rewards. `RewardsAreSplit` counts
   such proceeds as income, and says that this is all: nothing else is charged twice
   and nothing else stays. It is about the assets that are sold. A listed pool asset
   does pay the fee again on what was paid for already: `docs_fee` has a config with
   one, and with that config alone it is what TLC finds.

## 4. Fairness

Only `FairSpec` (run `vault_ledger`) has any.
 - `WF(HandleMessage)`: a transaction that was begun is finished; the chain runs
   its messages in one go.
 - `SF(ChainGoesOn)`: blocks are made and matured locks returned. Strong, as
   they are enabled only between transactions, of which there may be many.
 - `SF(OwnersWithdraw)`: owners of matured claims send withdrawals and one of
   them is included in the end. Nobody is assumed to deposit, unlock or donate.
   The fairness is of the disjunction over all claims: with finitely many claims
   each withdrawal removes one.

## 5. Proofs

| Theorem | Says |
|---|---|
| `LedgerInvariant` | `Spec => []LedgerInv`: shares and stake exist together |
| `SharePriceNeverFalls` | `Spec => PriceNeverFalls` |
| `RoundTripNeverPays`, `FeeWithinBalance` | facts of the arithmetic |
| `ClaimsInvariant`, `IdsNeverReused`, `PaidExactlyOnce` | the invariants of the claims store |
| `TermsAreKept` | `Spec => TermsNeverChange` |
| `NothingIsBehind`, `ReadingStaysComplete` | the invariant and the action property of the paging |
| `TypeCorrect` | `Spec => []TypeOK` for the Osmosis vault |
| `TypesAreKept`, `GovernanceIsSound`, `TransferStaysCurrent` | the invariants of the administration |

and in `AstroportVault_proofs`, which proves every property of the run `astroport`:

| Theorem | Says |
|---|---|
| `TypeCorrect` | `Spec => []TypeOK` |
| `RewardsSplit` | `Spec => []RewardsAreSplit`, for any configs and updates, also of the target |
| `SplitInvariant`, `SharesInvariant`, `SpendInvariant` | the inductive invariants on rewards and the order of the messages, on shares, and on what is spent |
| `MoneyInvariant` (*) | the inductive invariant on the base tokens |
| `StakeCounted` (*) | `Spec => []StakeIsCounted` |
| `BookkeepingHolds` (*) | `Spec => []BookkeepingNeverFails` |
| `PreviewsHold` (*) | `Spec => PreviewsAreBounds` |
| `VaultImplementsLedger` (*) | `Spec => ImplementsLedger` |
| `VaultKeepsPrice` (*) | `Spec => Ledger!PriceNeverFalls`: the promise of the ledger, for the vault |

and of the Osmosis vault, in `OsmosisLocks_proofs` and `OsmosisLedger_proofs`:

| Theorem | Says |
|---|---|
| `StakeHeld` | `Spec => []StakeIsLocked` |
| `DummyLocksHoldOne` | `Spec => []DummyLocksAreNew` |
| `ClaimsNameTheirLocks` | `Spec => []ClaimNamesOwnLock` |
| `PendingClaimIsCommitted` | `Spec => []NoPendingClaimLeft` |
| `BookkeepingHolds` | `Spec => []BookkeepingNeverFails` |
| `VaultImplementsLedger` | `Spec => ImplementsLedger` |
| `VaultKeepsPrice` | `Spec => Ledger!PriceNeverFalls` |
| `ClaimsBacked` | `Spec => []ClaimsAreBacked` |
| `MaturedClaimsCovered` | `Spec => []MaturedClaimsPayable` |

They hold for all values of the constants that satisfy the modules' assumptions:
any scale, width, number of users, assets, configs and bounds. Users and assets
are finite sets, as shares and balances are summed over them.

The theorems marked (*) have the hypothesis `BaseTokenIsNoReward`: no config
lists the base token among the reward assets. The code does not check this, and
without it the statements are too strong: the fee on "the whole balance" is then
taken from a deposit that lies on the account until it is staked, as the run
`docs_fee` shows. The configs of the run `astroport` satisfy it. `RewardsSplit` does
not have the hypothesis.

 - **Ledger.** `MultiplyRatioBounds` gives n ≤ ab/c < n + 1 without division;
   everything else is arithmetic on products (`DepositKeepsPrice`,
   `RedeemKeepsPrice`). `LedgerInv` is inductive by itself.
 - **Claims.** `CommittedIdIsFresh` needs `IdsBelowCounter`: all used ids are
   below the counter, and the counter is just past the last issued id. A
   committed id is either the counter or a newly issued one, hence new.
   `PaidPlusOpenIsGranted` needs claims to be among the granted ids, and
   `TermsNeverChange` needs positive amounts.
 - **Paging.** A page is a prefix of the ids ahead (`PageIsPrefix`), and one that is
   not full has all of them (`ShortPageIsAll`); both come from the least element
   of a set of naturals. A step of the store adds no id below the counter
   (`StoreAddsAhead`, from `IdsBelowCounter`), and no page ends past it. The
   invariant of the store carries over, as the reader changes nothing.
 - **Vault types.** One lemma per action. The type of `saved` is part of the
   invariant, as a failed message makes it the state again; `queue` is a
   sequence of messages, so that every handler reads an amount in `Nat`. That
   subtractions stay in `Nat` is what the guards of the code give.
 - **Osmosis: order of messages.** As for the Astroport vault below, with one
   more kind of message: a lock message for the stake and one for a dummy lock
   differ (`Kind`). `PlanInv` keeps what the entry handlers have put into their
   messages: the balance before the transaction, and in the dummy lock's message
   the value of the counter.
 - **Osmosis: locks.** The four theorems are about idle states and say nothing
   of the states in between, so none of them is inductive. `LocksInv` says it for
   the state before the transaction (`SavedInv`, as a failure goes back to it),
   for idle states (`AtCalm`), and for every kind of message that may be handled
   next (`LocksNow`). The facts that it needs, and that are in no property:
    - The lock of the stake has the total, minus what is about to be locked,
      plus what is about to be unlocked (`Staked`).
    - Dummy locks have durations below the counter until the message that
      makes a new one, so that this message always opens a lock and never adds
      to one (`DummiesUpTo`); the pending claim's id, which is the new id less one,
      is then the last id given before. That is the lock that `BeginUnlocking` has
      just split off, or the lock of the stake itself, all of which is unlocking.
    - Ids of claims are below the last id given, and never name the lock of the
      stake, and the same for the ids of unlocking locks (`ClaimsBelow`,
      `LeavingBelow`): thus the next pending claim's id names no earlier claim.
    - A forced withdrawal reduces the claim before the lock, so that in between
      one lock has more than its claim (`Names`).
    - While there is a pending claim, or an unlock is queued, the *last* message
      is `SaveClaim`, which removes it (`PendingFor`).
 - **Osmosis: the total and the shares.** `TotalInv` (TLC checked it on both
   instances before it was proved) relates the total and the supply to those before
   the transaction: both are as before until the stake callback, which counts at
   least the deposit (`WhenBefore`, `WhenAfter`); the shares in a mint message are
   worth the deposit at the compounded price (`WhenMint`); after an unlock or a
   forced redemption the total is less by what the pending claim or the last message
   names (`Redeemed`), and that is what the burned shares were worth (`WhenBurn`,
   `IsRedeemed`). `SharesInv` has the shares to burn on the vault's account and
   the supply as the sum of the balances, so that a burn never fails; `EvenInv`
   has that before a transaction there is a stake exactly when there are shares, so
   that an unlock finds a lock. `BookkeepingNeverFails` follows with `LocksInv`; and
   `Mint`, `SaveClaim` and the `Send` of a redemption are `Ledger!Deposit` and
   `Ledger!Redeem`, all other steps are stutters.
 - **Osmosis: who owns the base tokens.** `BackedInv` (TLC checked it on both
   instances before it was proved) has two parts, each for idle states, for
   `saved` and for every message in between.
    - *What there is, is given or owed* (`BalanceNow`): the balance and all locks
      are together what was given to the vault, what is owed on claims, and the
      stake. In between, the deposit and the rewards on the account do not count
      before the stake callback has counted them (`Held`), and what is being
      redeemed is neither staked nor owed (`InFlight`). The stake callback
      takes exactly what has come in since the transaction began (`StakeIs`).
    - *What is locked for longer is owed for longer* (`CoverNow`): for every time
      t not yet past, the locks that end after t, dummy locks included, hold at
      most what is owed on claims that mature after t, plus one token per unlock
      ever made. This is not in any property. It needs all t at once, as a block
      makes t = now + 1 the one that matters. An unlock counts its dummy lock before
      it makes it (`Undone`), and begins to unlock before it saves the claim
      (`Promised`); a forced withdrawal reduces the claim before the lock, and here
      it is needed that a claim that is not matured names its own lock
      (`Names` in `LocksInv`).

   `Bound` and `Owed` are sums over the tables of locks and of claims, which are
   finite as all ids are below the last one given (`FiniteTables`,
   `ClaimsAreFinite`); a lemma for every operation of the lockup and of the store
   says how they change. `ClaimsAreBacked` is `BalanceNow` with the locks sorted
   by kind (`LocksByKind`), and `MaturedClaimsPayable` takes off it what
   `CoverNow` says at t = now.
 - **Governance.** `GovernanceInv` is inductive.
 - **Sums.** The balances of a set are added by the fold of the community modules.
   `SumsExist` says that this recursion has a solution on every finite set (by
   a least counterexample among the sizes, as an induction theorem cannot be
   instantiated); from it come `SumStep`, `SumRemove`, `SumAgrees`,
   `SumChanges`, `SumAdd` and `SumJoin`, which the proofs of both vaults use.
 - **Astroport: order of messages.** `OrderInv` lists what may follow a message
   (`Follows`) and what comes last. `ConcatShape` shows that it holds for a
   queue put together of two such lists; with it a handler is shown to know
   what comes after it, which the next invariants need.
 - **Astroport: rewards.** Between transactions `RewardsAreSplit` is about
   balances; in between, what is missing lies in messages. `SplitIInv` counts the
   fees and the sales that are pending in the queue (`PendingFee`, `PendingSale`) to
   what is paid and sold. The basket of a sale is one message whose assets leave
   the account together, so that what it brings in, for a target that is sold
   itself, is income that no pending sale covers. It holds in
   `saved` too, where a failure goes back to.
 - **Astroport: shares and what is spent.** `SharesInv`: the supply is the sum
   of the balances, and the shares to burn lie on the vault's account,
   from the transfer in the first handler to the burning in the last callback.
   `SpendInv`: with every reward listed once, pending fees and sales are
   together within the balances, and the depositor has what will be pulled in.
 - **Astroport: base tokens.** `MoneyInv` says of each message where every base
   token is: owed by the depositor or lying on the account until the stake callback
   (`BeforeInv`), counted in the total and on its way to the generator after
   it (`StakedInv`), out of the total and on its way to the user at the end of
   a redemption (`RedeemedInv`). Here it is needed that the stake callback
   counts from the balance read in the first handler (`CountInv`) and that no
   sale touches base tokens (`NoBaseInv`). `StakeIsCounted` is its part for idle
   states; `BookkeepingNeverFails` follows from it with `SpendInv`.
   Both invariants were checked by TLC on the instance of `astroport` before
   they were proved.
 - **Astroport: previews and refinement.** The total when shares are minted or
   burned is at least the one of the preview at the same supply, and a quotient
   falls with its divisor (`MintWithinPreview`, `RedeemAbovePreview`). The ledger
   sees `saved` while a transaction runs, so every step but the last of a
   transaction is a stutter; the mint callback is `Ledger!Deposit` and the
   payment is `Ledger!Redeem`, with the yield that `MoneyInv` has kept. What
   is proved of the ledger then holds for the vault.

**Only model-checked.** Liveness (`EveryClaimIsPaid`), which is out of the proof
system's reach with its fairness and ENABLED. Every other property of the passing runs
is a theorem. No module that is proved about uses RECURSIVE operators, which the provers do
not take.

## 6. Not modelled

 - The allowances, the marketing data and the logo that cw20-base keeps for the
   Astroport vault's shares: the contract hands these messages on unchanged. A
   transfer by allowance moves shares as `ExecuteTransfer` does.
 - Transfers of native shares, which the contract takes no part in. Between users
   they are like a deposit for another recipient; shares sent to the vault's own
   account stay there.
 - Queries that return a stored value (`vault_info`, `state`, `total_assets`).
 - `migrate` (a version number), the fee for creating the vault token, the
   validation of addresses, events and attributes, error texts.
 - The accounts in the config that are only paid or called (treasury, liquidity
   helper); in `OsmosisVault` the config as a whole is constant.
 - A router or helper that pays more than it was given, and one that calls back
   into the vault.

## 7. Plan

Done: the modules of section 2, and proofs of all their safety, action and
refinement properties. What is left are properties of parts that are modelled
from their use only (section 2, "What is assumed") and the configuration of
`OsmosisVault`, which is constant there while `Governance` changes it.
