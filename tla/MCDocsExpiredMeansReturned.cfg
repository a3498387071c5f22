CONSTANTS
  VaultTokensPerBaseToken = 2
  MaxUint128 = 12
  DecimalOne = 4
  Users = {alice, bob}
  NoClaim = NoClaim
  DefaultId = DefaultId
  Vault = vault
  Whitelist = {bob}
  Recipients = {}
  PerformanceFee = 1
  LockupTime = 1
  NoLock = NoLock
  NoTx = NoTx
  Float = 1
  UserBase = 1
  Incentives = 2
  MaxCounter = 2
  MaxTime = 1
  MaxLockId = 4
SPECIFICATION Spec
INVARIANT ExpiredMeansReturned
CHECK_DEADLOCK FALSE
