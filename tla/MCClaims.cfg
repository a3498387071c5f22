CONSTANTS
  Users = {alice, bob}
  NoClaim = NoClaim
  DefaultId = DefaultId
  NotReading = NotReading
  MaxAmount = 2
  MaxId = 2
  MaxTime = 1
  MaxLimit = 2
SPECIFICATION PagingSpec
SYMMETRY UserSymmetry
INVARIANTS PaidPlusOpenIsGranted CommittedIdIsFresh Inv NothingBehind
PROPERTIES TermsNeverChange ReadingIsComplete
CHECK_DEADLOCK FALSE
