CONSTANTS
  Proc = {p1, p2}
  Evidence = {e1}
  Quarantine = {q1}
  Content = {c1}
  Retention = {0}
  MaxTime = 0
  Ops = {"promote", "hold", "delete"}
  NoFile = NoFile
  Torn = Torn
  Garbled = Garbled
SPECIFICATION Spec
PROPERTIES HeldOriginalStays
