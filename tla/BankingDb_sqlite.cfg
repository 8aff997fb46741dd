CONSTANTS
  Accounts <- MCAccounts
  Users <- MCUsers
  Staff <- MCStaff
  Frozen = {4}
  Payloads <- UserPayloads
  Workers = {w1, w2}
  RowLocks = FALSE
  MaxRequests = 3
  SeedRows <- MCSeedRows
  SeedOwner <- MCSeedOwner
  SeedBalance <- MCSeedBalance
SPECIFICATION Spec
INVARIANTS LedgerAgrees
