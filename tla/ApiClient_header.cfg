CONSTANTS
  Tabs <- MCTabs
  Calls <- MCCalls
  TabOf <- MCTabOf
SPECIFICATION Spec
INVARIANTS RetriedWithNewToken
CHECK_DEADLOCK FALSE
