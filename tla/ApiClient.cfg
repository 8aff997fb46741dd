CONSTANTS
  Tabs <- MCTabs
  Calls <- MCCalls
  TabOf <- MCTabOf
SPECIFICATION FairSpec
INVARIANTS TypeOK RefreshSerialized NoneForgotten NoRetryStorm RetryUsesNewToken
PROPERTIES RotationRespected EveryCallSettles
CHECK_DEADLOCK FALSE
