CONSTANTS
  Proc = {p1}
  Evidence = {e1}
  Quarantine = {q1, q2}
  Content = {c1, c2}
  Retention = {0, 1}
  MaxTime = 2
  Ops = {"promote", "hold", "delete", "crash"}
  NoFile = NoFile
  Torn = Torn
  Garbled = Garbled
SPECIFICATION Spec
SYMMETRY Symmetry
PROPERTIES DeletionLawful
