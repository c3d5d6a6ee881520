SPECIFICATION Spec
CONSTANTS
  MaxReactor = 2
  MaxRequest = 2
  Grpc = {2}
  StreamChunks = 1
  MaxConnections = 1
INVARIANTS LeaverIsTold CutOnlyByDeath  OneLateAccept NeverStranded
CHECK_DEADLOCK FALSE
