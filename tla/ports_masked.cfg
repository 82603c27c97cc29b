SPECIFICATION Spec
CONSTANTS
  a = a
  b = b
  t10 = t10
  w1 = w1
  r1 = r1
  r2 = r2
  w2 = w2
  Nobody = Nobody
  Circuits = {a, b}
  Devices = {1}
  Interfaces = {1}
  Tags = {t10}
  Untagged = untagged
  Rows = {1, 2}
  Workers = {w1}
  Requests = {r1}
  Found <- Ten
  MaxOperations = 3
PROPERTIES
  LearnedSpared
CHECK_DEADLOCK FALSE
