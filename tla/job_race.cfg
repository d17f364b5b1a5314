\* Two callers, two archives of one evidence id, and a request that contests one of them.
SPECIFICATION Spec
CONSTANTS
  j1 = j1
  j2 = j2
  e1 = e1
  e2 = e2
  a1 = a1
  a2 = a2
  i1 = i1
  None = None
  Collections <- MCCollections
  RequestId <- MCRequestId
  EvidenceId = {i1}
  IdOf <- MCIdOf
  MaxAttempts = 2
  Proc = {p1, p2}
  JobId = {j1, j2}
  Evidence = {e1, e2}
  Asset = {a1, a2}
  Requests <- MCContested
  AttemptBound = 2
  Ops = {"retry"}
  Faults = {"lost", "failed", "empty", "replaced"}
SYMMETRY Symmetry
INVARIANTS TypeOK OneWorkflow OutputsFromPreserved
CHECK_DEADLOCK FALSE
