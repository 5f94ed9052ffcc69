\* Two tabs, two logins, the dashboard and a page that reads nothing.
SPECIFICATION FairSpec
CONSTANTS
  t1 = t1
  t2 = t2
  Tabs <- MCTabs
  Reading <- MCReading
  Still <- MCStill
  MaxTokens = 2
INVARIANTS
  TypeOK
PROPERTIES
  DroppedStaysDropped
  DeadSessionEnds
  RedirectsSettle
CHECK_DEADLOCK FALSE
