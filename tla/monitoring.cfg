\* One circuit, probed, with a flapping line and work orders; the scheduler and
\* a request.  Tainted states are not explored further.
SPECIFICATION Spec
CONSTANTS
  Circuits = {1}
  Scheduler = "s"
  Requests = {"r"}
  Probed = {1}
  Enabled <- OneCircuit
  CollectBatchSize = 1
  ProbeBatchSize = 1
  Cycles = 1
  Numbers = {1, 2}
  MaxActivations = 1
  CollectRounds = 1
  ProbeRounds = 1
  Flaky = {1}
  Ordered = {1}
CONSTRAINT SomeUntainted
INVARIANTS
  TypeOK
  OneLiveAlarm
  OneOpenOutage
  OutageTellsLastReport
  QuietAfterActivation
