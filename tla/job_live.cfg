\* Interrupted collections resume and stay complete, whatever else one caller does.
SPECIFICATION FairSpec
CONSTANTS
  j1 = j1
  j2 = j2
  e1 = e1
  e2 = e2
  a1 = a1
  a2 = a2
  i1 = i1
  None = None
  Collections <- MCCollection
  RequestId <- MCRequestId
  EvidenceId = {i1}
  IdOf <- MCIdOf
  MaxAttempts = 2
  Proc = {p1}
  JobId = {j1, j2}
  Evidence = {e1, e2}
  Asset = {a1}
  Requests <- MCRequests
  AttemptBound = 3
  Ops = {"poll", "retry", "approve"}
  Faults = {"refused", "lost", "failed", "crash", "replaced", "unsuccessful"}
PROPERTIES CompletedStays ClaimCompletes
