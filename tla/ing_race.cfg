\* Two clients racing for one key, with every fault and all reviewers.
SPECIFICATION Spec
CONSTANTS
  k1 = k1
  s1 = s1
  s2 = s2
  None = None
  Client = {c1, c2}
  Key = {k1}
  Sha = {s1, s2}
  Target = {t1}
  Items <- MCItems
  MaxBatch = 2
  Faults = {"fail", "lost", "crash"}
SYMMETRY Symmetry
INVARIANTS TypeOK NoSilentMismatch AcceptedOnce
PROPERTIES ImplementsReview
