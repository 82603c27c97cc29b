\* The tick alone, rotating over two circuits one at a time: 1 is probed, the
\* line of 2 goes down.
SPECIFICATION FairSpec
CONSTANTS
  Circuits = {1, 2}
  Scheduler = "s"
  Requests = {}
  Probed = {1}
  Enabled <- TwoCircuits
  CollectBatchSize = 1
  ProbeBatchSize = 1
  Cycles = 2
  Numbers = {1, 2}
  MaxActivations = 0
  CollectRounds = 2
  ProbeRounds = 1
  Flaky = {2}
  Ordered = {}
PROPERTIES
  Recovers
  Detects
