--------------------------- MODULE EnvelopeReview ---------------------------
(***************************************************************************)
(* What the ingest envelope table promises its reviewers: a record keeps   *)
(* the content it was opened with, it may be approved and applied once,    *)
(* and a record that was closed (found to be a duplicate, in conflict or   *)
(* quarantined) never comes back to review.  Batches, database statements  *)
(* and racing clients do not appear.                                       *)
(***************************************************************************)
CONSTANTS Key, Sha, Target, None

VARIABLES
  stage,    \* per record: "absent", "preview", "approved", "applied" or "closed"
  content,  \* its digest, or None
  target    \* the target it was applied to, or None

vars == <<stage, content, target>>

Init ==
  /\ stage = [k \in Key |-> "absent"]
  /\ content = [k \in Key |-> None]
  /\ target = [k \in Key |-> None]

Open(k, c, s) ==
  /\ stage[k] = "absent"
  /\ stage' = [stage EXCEPT ![k] = s]
  /\ content' = [content EXCEPT ![k] = c]
  /\ UNCHANGED target

Approve(k) ==
  /\ stage[k] = "preview"
  /\ stage' = [stage EXCEPT ![k] = "approved"]
  /\ UNCHANGED <<content, target>>

Apply(k, t) ==
  /\ stage[k] \in {"preview", "approved"} /\ target[k] = None
  /\ stage' = [stage EXCEPT ![k] = "applied"]
  /\ target' = [target EXCEPT ![k] = t]
  /\ UNCHANGED content

Close(k) ==
  /\ stage[k] # "absent"
  /\ stage' = [stage EXCEPT ![k] = "closed"]
  /\ UNCHANGED <<content, target>>

Next ==
  \E k \in Key :
    \/ \E c \in Sha, s \in {"preview", "closed"} : Open(k, c, s)
    \/ Approve(k) \/ Close(k)
    \/ \E t \in Target \cup {None} : Apply(k, t)

Spec == Init /\ [][Next]_vars
=============================================================================
