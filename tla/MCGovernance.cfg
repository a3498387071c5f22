CONSTANTS
  alice = alice
  bob = bob
  osmo = osmo
  atom = atom
  ion = ion
  router1 = router1
  router2 = router2
  Accounts <- MCAccounts
  Assets <- MCAssets
  PoolAssets <- MCPoolAssets
  Routers <- MCRouters
  Routes <- MCRoutes
  NoTransfer = NoTransfer
  DecimalOne = 1
  MaxFee = 2
  MaxRewards = 2
SPECIFICATION Spec
INVARIANTS TypeOK TransferIsCurrentAdmins
