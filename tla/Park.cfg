SPECIFICATION Spec
CONSTANTS
  f1 = f1
  f2 = f2
  pipe = pipe
  sock = sock
  fresh = fresh
  server = server
  Fibers <- MCFibers
  Fds = {pipe, sock, fresh, server}
  Pollable = {pipe}
  Listening = {server}
  Connected = {sock}
  Bound = {}
  Timed = {sock}
  SockTimeout = 1
  Seconds = {0, 9}
  SubSeconds = {3, 6}
  MsPerSecond = 1
  UsPerMs = 2
  NsPerUs = 2
  MaxInt = 2
  MaxLong = 8
  MaxULong = 6
  FlockFirst = 1
  FlockMax = 2
  Polled <- MCPolled
  Makes <- MCMakes
INVARIANTS ParkedIsSuspended GateFollowsFiber FlagRestored
PROPERTY HonestTimeout
CHECK_DEADLOCK FALSE
