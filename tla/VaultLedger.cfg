CONSTANTS
  VaultTokensPerBaseToken = 2
  MaxUint128 = 14
  DecimalOne = 4
SPECIFICATION Spec
INVARIANT LedgerInv
PROPERTY PriceNeverFalls
