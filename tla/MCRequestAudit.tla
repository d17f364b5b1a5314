--------------------------- MODULE MCRequestAudit ---------------------------
(***************************************************************************)
(* RequestAudit with interchangeable requests.                             *)
(***************************************************************************)
EXTENDS RequestAudit, TLC

Sym == Permutations(Req)
=============================================================================
