SPECIFICATION FairSpec
CONSTANTS
  Count = 2
  Respawn = TRUE
  Budget = 1
  ForkFails = TRUE
  MaxDeaths = 2
  MaxHups = 2
  MaxTerms = 2
INVARIANTS NoStray SlotsKept OneAtATime
PROPERTY ShutdownEnds
CHECK_DEADLOCK FALSE
