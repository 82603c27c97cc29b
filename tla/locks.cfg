\* Three threads, three devices.
SPECIFICATION FairSpec
CONSTANTS
  Threads = {"t1", "t2", "t3"}
  Devices = {1, 2, 3}
INVARIANTS
  WaitsUpward
PROPERTIES
  SomeoneExecutes
  ImplementsExclusion
