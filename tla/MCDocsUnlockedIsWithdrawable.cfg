CONSTANTS
  VaultTokensPerBaseToken = 2
  MaxUint128 = 12
  DecimalOne = 4
  Users = {alice, bob}
  NoClaim = NoClaim
  DefaultId = DefaultId
  Vault = vault
  Whitelist = {bob}
  Recipients = {}
  PerformanceFee = 1
  LockupTime = 1
  NoLock = NoLock
  NoTx = NoTx
  Float = 0
  UserBase = 2
  Incentives = 0
  MaxCounter = 2
  MaxTime = 2
  MaxLockId = 6
SPECIFICATION Spec
INVARIANT UnlockedIsWithdrawable
CHECK_DEADLOCK FALSE
