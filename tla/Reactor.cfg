SPECIFICATION FairSpec
CONSTANTS
  MaxId = 3
  MaxServers = 1
INVARIANTS TypeOK InflightExact BlockedHasSource OneOwner
PROPERTIES ImplementsBoard CancelSettlesTarget CompletionsReachPhp
CHECK_DEADLOCK FALSE
