SPECIFICATION ContentSpec
CHECK_DEADLOCK FALSE
CONSTANTS
  Tables = {"orders", "users"}
  Start = "orders"
  Keys = {1, 2}
  Narrow = {2}
  PageRows = 1
  MaxClicks = 3
  MaxOthers = 1
INVARIANTS WritesHitTheRowOpened
