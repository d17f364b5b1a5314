------------------------- MODULE MCIngestEnvelopes -------------------------
(* Small instances of IngestEnvelopes: the items a batch may hold. *)
EXTENDS IngestEnvelopes, TLC

CONSTANTS k1, s1, s2

\* One key with two contents, one of them quarantined at intake, and items that
\* never get as far as the table.
MCItems == {[key |-> k1, sha |-> s1, kind |-> "ok"],
            [key |-> k1, sha |-> s2, kind |-> "quarantined"],
            [key |-> k1, sha |-> s1, kind |-> "invalid"],
            [key |-> k1, sha |-> s1, kind |-> "abort"]}

Symmetry == Permutations(Client)
=============================================================================
