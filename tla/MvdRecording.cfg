SPECIFICATION Spec
CONSTANTS
  f1 = f1
  s1 = s1
  Files = {f1}
  Streams = {s1}
  Ring = 3
  Lag = 1
  FullEvery = 2
  Room = 2
  Cache = 3
  NearFull = 1
  MaxSize = 3
  MarkCap = 2
  StartTime = 3
  MaxTime = 6
  MaxEvents = 3
  MaxFaults = 1
INVARIANTS
  NothingLost
  ClosedWhole
  RecordingHasDest
  DeltaChain
  FileMarks
CHECK_DEADLOCK FALSE
