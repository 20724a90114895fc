SPECIFICATION ChatSpec
CONSTANTS
  Listeners = {"a", "b"}  MaxSent = 1  MaxDeaths = 0
INVARIANT TakenOnce
CHECK_DEADLOCK FALSE
