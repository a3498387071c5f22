CONSTANTS
  VaultTokensPerBaseToken = 2
  MaxUint128 = 20
  DecimalOne = 4
  Users = {alice, bob}
  NoClaim = NoClaim
  DefaultId = DefaultId
  Vault = vault
  Whitelist = {bob}
  Recipients = {vault}
  PerformanceFee = 1
  LockupTime = 1
  NoLock = NoLock
  NoTx = NoTx
  Float = 1
  UserBase = 2
  Incentives = 0
  MaxCounter = 2
  MaxTime = 2
  MaxLockId = 7
SPECIFICATION Spec
INVARIANTS TypeOK StakeIsLocked ClaimsAreBacked MaturedClaimsPayable ClaimNamesOwnLock DummyLocksAreNew NoPendingClaimLeft BookkeepingNeverFails
CHECK_DEADLOCK FALSE
