SPECIFICATION Spec
CONSTANTS
  Addresses = {a, b, c}
  Requests = {r1, r2}
  Handles = {h}
  BodyBytes = 1
  Block = 2
  MaxWrites = 1
  MaxObjects = 2
  MaxSpawns = 1
SYMMETRY Symmetry
INVARIANTS OwnSuperglobals KeepsOwnProperty PooledIsClean NoDeadProperty BodyIsOwn
CHECK_DEADLOCK FALSE
