CONSTANTS
  Accounts <- MCAccounts
  Users <- MCUsers
  Staff <- MCStaff
  Frozen = {4}
  Payloads <- AllPayloads
  Workers = {w1, w2}
  RowLocks = TRUE
  MaxRequests = 3
  SeedRows <- MCSeedRows
  SeedOwner <- MCSeedOwner
  SeedBalance <- MCSeedBalance
SPECIFICATION FairSpec
INVARIANTS TypeOK LocksExclusive ReadsCurrent LedgerAgrees NoOverdraft
  OwnersNeverDeadlock
PROPERTIES KeepsPromise EveryRequestAnswered
