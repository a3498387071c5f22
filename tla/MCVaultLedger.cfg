CONSTANTS
  VaultTokensPerBaseToken = 2
  MaxUint128 = 12
  DecimalOne = 4
  Users = {alice, bob}
  NoClaim = NoClaim
  DefaultId = DefaultId
  Vault = vault
  Whitelist = {bob}
  Recipients = {}
  PerformanceFee = 1
  LockupTime = 1
  NoLock = NoLock
  NoTx = NoTx
  Float = 2
  UserBase = 1
  Incentives = 2
  MaxCounter = 2
  MaxTime = 2
  MaxLockId = 5
SPECIFICATION FairSpec
INVARIANTS StakeIsLocked ClaimsAreBacked
PROPERTIES ImplementsLedger EveryClaimIsPaid
CHECK_DEADLOCK FALSE
