CONSTANTS
  Threads = {"t1", "t2"}
  Accounts <- MCAccounts
  Seeded <- MCSeeded
  Opening <- MCOpening
  Credited <- MCCredited
  SeedLoans <- MCSeedLoans
  Queued <- MCQueued
  Jobs <- MCJobs
  TransferLimit = 3
  MaxUndo = 2
  MaxJobs = 2
SPECIFICATION FairSpec
INVARIANTS TypeOK UndoRestores HistoryExplainsBalance MoneyIsConserved OverdraftOnlyWhereOvertaken AuditChainVerifies
PROPERTIES PostingsStopAfterFreeze EveryCallEnds
CHECK_DEADLOCK FALSE
