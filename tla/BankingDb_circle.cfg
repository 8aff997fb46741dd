CONSTANTS
  Accounts <- MCAccounts
  Users <- MCUsers
  Staff <- MCStaff
  Frozen = {4}
  Payloads <- ContendedPayloads
  Workers = {w1, w2}
  RowLocks = TRUE
  MaxRequests = 3
  SeedRows <- MCSeedRows
  SeedOwner <- MCSeedOwner
  SeedBalance <- MCSeedBalance
SPECIFICATION Spec
INVARIANTS UserTransferNeverDeadlocks
