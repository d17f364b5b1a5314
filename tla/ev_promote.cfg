CONSTANTS
  Proc = {p1, p2}
  Evidence = {e1}
  Quarantine = {q1, q2}
  Content = {c1, c2}
  Retention = {1}
  MaxTime = 0
  Ops = {"promote", "hold", "crash"}
  NoFile = NoFile
  Torn = Torn
  Garbled = Garbled
SPECIFICATION Spec
SYMMETRY Symmetry
PROPERTIES ImplementsWriteOnce
INVARIANTS TypeOK PublishedIntact RepliesHold NoEvidenceLoss
