CONSTANTS
  NoValue = NoValue
  MaxCalls = 2
  MaxTimers = 4
  Accounts = {a1, a2}
  DemoAccounts = {a1, a2}
  Amounts = {1}
  MaxPosted = 1
  MaxReceipts = 2
  Bills = 1
  DemoBill = 8
  LocalBill = 9
  Currencies = {"USD", "EUR"}
  Sums = {"", "1000"}
  Rows <- MCRows
  DemoRows <- MCDemoRows
  PerPage = 1
  Users = {"alice", "bob"}
  Flags = {"f"}
  Items = {"a", "b"}
  Notices = {"n1", "n2"}
  Security = {"n1"}
  OtherSessions = {"phone", "laptop"}
  Targets = {"", "500"}
  MaxItems = 5
  Cities = {"London"}
  ToastLimit = 1
  ArcLimit = 1
  FeedLimit = 2
  MaxEvents = 5
  LegacyUsers = {"alice"}
SPECIFICATION PagesSpec
SYMMETRY AccountsAlike
INVARIANTS PagesTypeOK BusyHasCause OneWriteAtATime ReceiptShowsWhatWasPosted
           FreshUnlessOvertaken TransientsMatchTimers PageHasRows
