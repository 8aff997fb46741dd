CONSTANTS
  Accounts <- MCAccounts
  Users <- MCUsers
  Staff <- MCStaff
  Frozen = {}
  Payloads <- MCPayloads
  Workers = {sim, w1}
  Sim = sim
  RowLocks = TRUE
  MaxRequests = 2
  MaxTicks = 2
  SeedRows <- MCAccounts
  SeedOwner <- MCSeedOwner
  SeedBalance <- MCSeedBalance
  SimAmounts = {1}
  Loans <- MCLoans
  LoanAccount <- MCLoanAccount
  EmiAmount <- MCEmiAmount
SPECIFICATION SimSpec
INVARIANT LedgerAgrees
