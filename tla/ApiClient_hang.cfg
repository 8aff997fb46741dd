CONSTANTS
  Tabs <- MCTabs
  Calls <- MCCalls
  TabOf <- MCTabOf
SPECIFICATION ClientSpec
PROPERTIES EveryCallSettles
CHECK_DEADLOCK FALSE
