SPECIFICATION Spec
CONSTANTS
  MaxReactor = 1
  MaxRequest = 1
  Grpc = {}
  StreamChunks = 1
  MaxConnections = 1
INVARIANT NobodyHangs
CHECK_DEADLOCK FALSE
