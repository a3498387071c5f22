CONSTANTS
  VaultTokensPerBaseToken = 2
  MaxUint128 = 14
  DecimalOne = 4
  lpToken = lpToken
  osmo = osmo
  astro = astro
  ion = ion
  BaseToken = lpToken
  PoolAssets = {osmo}
  OtherAssets = {astro, ion}
  Configs <- UnsoldRewardConfigs
  Users = {alice, bob}
  Vault = vault
  Recipients = {}
  RewardTokens = {astro, osmo}
  NoTx = NoTx
  Float = 0
  UserBase = 2
  Incentives = 3
SPECIFICATION Spec
CHECK_DEADLOCK FALSE
INVARIANT OnlyProfitIsCharged
