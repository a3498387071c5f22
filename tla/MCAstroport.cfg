CONSTANTS
  VaultTokensPerBaseToken = 2
  MaxUint128 = 9
  DecimalOne = 4
  lpToken = lpToken
  osmo = osmo
  astro = astro
  ion = ion
  BaseToken = lpToken
  PoolAssets = {osmo}
  OtherAssets = {astro, ion}
  Configs <- RewardConfigs
  Users = {alice, bob}
  Vault = vault
  Recipients = {vault}
  RewardTokens = {astro, osmo}
  NoTx = NoTx
  Float = 0
  UserBase = 1
  Incentives = 2
SYMMETRY UserSymmetry
SPECIFICATION Spec
INVARIANTS TypeOK StakeIsCounted RewardsAreSplit BookkeepingNeverFails
PROPERTIES PreviewsAreBounds ImplementsLedger
CHECK_DEADLOCK FALSE
