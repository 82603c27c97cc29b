SPECIFICATION Spec
CONSTANTS
  a = a
  b = b
  t10 = t10
  w1 = w1
  r1 = r1
  r2 = r2
  w2 = w2
  Nobody = Nobody
  Circuits = {a, b}
  Devices = {1}
  Interfaces = {1}
  Tags = {t10}
  Untagged = untagged
  Rows = {1, 2}
  Workers = {w1, w2}
  Requests = {r1, r2}
  Found <- Ten
  MaxOperations = 4
SYMMETRY Symmetry
INVARIANTS
  TypeOK
  ValidatedApart
  ReservationsApart
CHECK_DEADLOCK FALSE
