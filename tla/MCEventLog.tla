----------------------------- MODULE MCEventLog -----------------------------
(* Instances of EventLog for TLC. *)
EXTENDS EventLog, TLC

CONSTANTS w1, w2, w3, r1, r2, v1, k1, k2, p1, p2

TwoWriters == {w1, w2}
ThreeWriters == {w1, w2, w3}
OneWriter == {w1}
TwoReaders == {r1, r2}
OneReader == {r1}
OneWatcher == {v1}
Nobody == {}
OneKey == {k1}
TwoKeys == {k1, k2}
OnePayload == {p1}
TwoPayloads == {p1, p2}

\* Writers, readers, keys and payloads are interchangeable.
ReaderSymmetry == Permutations({w1, w2}) \cup Permutations({r1, r2})
WriterSymmetry ==
  Permutations({w1, w2, w3}) \cup Permutations({k1, k2}) \cup Permutations({p1, p2})
=============================================================================
