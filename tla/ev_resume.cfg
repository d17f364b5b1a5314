CONSTANTS
  Proc = {p1}
  Evidence = {e1}
  Quarantine = {q1}
  Content = {c1}
  Retention = {0}
  MaxTime = 0
  Ops = {"promote", "crash"}
  NoFile = NoFile
  Torn = Torn
  Garbled = Garbled
SPECIFICATION Spec
PROPERTIES InterruptedPromotionResumes
