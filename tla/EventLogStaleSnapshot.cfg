SPECIFICATION Spec
CONSTANTS
  w1 = w1
  w2 = w2
  w3 = w3
  r1 = r1
  r2 = r2
  v1 = v1
  k1 = k1
  k2 = k2
  p1 = p1
  p2 = p2
  NoKey = NoKey
  Writers <- TwoWriters
  Readers <- OneReader
  Watchers <- Nobody
  Keys <- OneKey
  Payloads <- OnePayload
  SnapshotInterval = 2
  SerialWrites = FALSE
  MaxId = 3
INVARIANTS SnapshotExact
CHECK_DEADLOCK FALSE
