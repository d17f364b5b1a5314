--------------------------- MODULE MCOpenRelikJobs ---------------------------
(* Instances of OpenRelikJobs for TLC.                                      *)
EXTENDS OpenRelikJobs, TLC

CONSTANTS j1, j2, e1, e2, a1, a2, i1

MCRequestId == [e \in Evidence |-> IF e = e1 THEN j1 ELSE j2]

\* All evidence is under one id, the situation that can mix files.
MCIdOf == [e \in Evidence |-> i1]

\* The fast path's own request, a key that is not the evidence's, and a known
\* id under a new key.
MCRequests ==
  {[id |-> j1, key |-> e1, evidence |-> e1, asset |-> a1],
   [id |-> j1, key |-> e2, evidence |-> e1, asset |-> a1],
   [id |-> j1, key |-> e2, evidence |-> e2, asset |-> a1]}

\* A request that differs from the fast path's in the asset.
MCContested == {[id |-> j1, key |-> e1, evidence |-> e1, asset |-> a2]}

\* One archive, or two of one evidence id.
MCCollection == {<<e1, a1>>}
MCCollections == {e1, e2} \X {a1}

Symmetry == Permutations(Proc)
=============================================================================
