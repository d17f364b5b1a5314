--------------------------- MODULE IngestEnvelopes ---------------------------
(***************************************************************************)
(* Vendor intake (ingest.py) over the tenant's ingest_envelope table       *)
(* (db.py, IngestRepository), driven by the /api/v1/ingest routes.         *)
(*                                                                         *)
(* Each client posts a batch; the server handles its items in order, each  *)
(* in a transaction of its own.  PostgreSQL runs at READ COMMITTED, so     *)
(* store_preview's INSERT, SELECT and UPDATE see what other transactions   *)
(* committed in between; an UPDATE waits for the row and its commit        *)
(* follows at once, so UPDATE and commit are one step.  Reviewers approve, *)
(* commit and quarantine at any time with one UPDATE statement each.       *)
(*                                                                         *)
(* A row is named by its idempotency key: the key is unique, the envelope  *)
(* id is a fresh uuid, rows are never deleted.                             *)
(***************************************************************************)
EXTENDS Naturals, Sequences

CONSTANTS
  Client,    \* callers of POST /api/v1/ingest/preview
  Key,       \* idempotency keys
  Sha,       \* digests of raw payloads
  Target,    \* target ids a commit may name
  Items,     \* the items a batch may hold
  MaxBatch,  \* longest batch
  Faults,    \* which of "fail" (database error), "lost" (error after the
             \* commit took effect), "crash" (server dies) happen
  None

\* How an item fares in projection and validation: "abort" is an item for which
\* the batch itself fails (no entity named), "invalid" one rejected by itself
\* (secret key, unknown system, schema), "quarantined" one whose redaction
\* decision is quarantined.
Kind == {"ok", "quarantined", "invalid", "abort"}

Item == [key : Key, sha : Sha, kind : Kind]

Status == {"received", "validated", "preview", "approved", "applied", "duplicate",
           "rejected", "quarantined", "conflict"}

Row == [sha : Sha, status : Status, target : Target \cup {None}]

ASSUME IngestAssumption ==
  /\ Items \subseteq Item
  /\ MaxBatch \in Nat
  /\ None \notin Key \cup Sha \cup Target \cup Row

VARIABLES
  row,  \* per key: its row of dfir.ingest_envelope, or None
  req   \* per client: where its request is, the batch, a result per finished
        \* item, the row read by SELECT, and the HTTP answer

vars == <<row, req>>

Request == [pc : {"idle", "project", "insert", "select", "update"},
            batch : Seq(Items), results : Seq(Status), saw : Row \cup {None},
            code : {"none", "200", "400"}]

\* The table satisfies its CHECK constraints and requests keep their shape.
TypeOK ==
  /\ row \in [Key -> Row \cup {None}]
  /\ req \in [Client -> Request]

NoRequest == [pc |-> "idle", batch |-> <<>>, results |-> <<>>, saw |-> None, code |-> "none"]

Init ==
  /\ row = [k \in Key |-> None]
  /\ req = [c \in Client |-> NoRequest]

-----------------------------------------------------------------------------
(* ingest_preview_batch and the preview route.                              *)

\* The item being handled.
Current(c) == req[c].batch[Len(req[c].results) + 1]

Goto(c, l) == req' = [req EXCEPT ![c].pc = l]

\* The result of the current item; the answer goes out behind the last one.
Result(c, status) ==
  LET done == Len(req[c].results) + 1 = Len(req[c].batch)
  IN  req' = [req EXCEPT ![c].results = Append(@, status), ![c].saw = None,
                         ![c].pc = IF done THEN "idle" ELSE "project",
                         ![c].code = IF done THEN "200" ELSE "none"]

PostBatch(c, b) ==
  /\ req[c].pc = "idle"
  /\ req' = [req EXCEPT ![c] = [NoRequest EXCEPT !.pc = "project", !.batch = b]]
  /\ UNCHANGED row

\* project_vendor_payload and build_envelope_for_preview.  An item without an
\* entity raises out of the whole batch: its results are dropped.
Project(c) ==
  /\ req[c].pc = "project"
  /\ \/ /\ Current(c).kind = "abort"
        /\ req' = [req EXCEPT ![c] = [NoRequest EXCEPT !.code = "400"]]
     \/ Current(c).kind = "invalid" /\ Result(c, "rejected")
     \/ Current(c).kind \in {"ok", "quarantined"} /\ Goto(c, "insert")
  /\ UNCHANGED row

\* The status a new envelope is built with.
IntakePending(kind) == IF kind = "quarantined" THEN "quarantined" ELSE "pending"
IntakeStatus(kind)  == IF kind = "quarantined" THEN "quarantined" ELSE "preview"

\* The row the INSERT stores: it does not name target_id.
NewRow(it) == [sha |-> it.sha, status |-> IntakeStatus(it.kind), target |-> None]

-----------------------------------------------------------------------------
(* IngestRepository.store_preview.                                          *)

\* INSERT ... ON CONFLICT DO NOTHING inserts only where there is no row.
InsertUpserts(k) == TRUE
InsertSucceeds(k) == row[k] = None

StoreInsert(c) ==
  /\ req[c].pc = "insert"
  /\ LET it == Current(c)
     IN  \/ /\ InsertSucceeds(it.key)
            /\ row' = [row EXCEPT ![it.key] = NewRow(it)]
            /\ Result(c, NewRow(it).status)
         \/ ~InsertSucceeds(it.key) /\ Goto(c, "select") /\ UNCHANGED row

\* What becomes of an item whose key has the row r: a different digest is a
\* conflict; the same one a duplicate, unless the row is settled already.
VerdictIgnoresDigest(r, sha) ==
  IF r.status \in {"duplicate", "applied", "conflict"} THEN r.status ELSE "duplicate"
Verdict(r, sha) ==
  IF r.sha # sha THEN "conflict"
  ELSE IF r.status \in {"duplicate", "applied", "conflict"} THEN r.status
  ELSE "duplicate"

\* The SELECT; nothing is written when the row is settled and the digest matches.
StoreSelect(c) ==
  /\ req[c].pc = "select"
  /\ LET it == Current(c)
         r == row[it.key]
     IN  \/ /\ r.sha = it.sha /\ Verdict(r, it.sha) = r.status
            /\ Result(c, r.status)
         \/ /\ ~(r.sha = it.sha /\ Verdict(r, it.sha) = r.status)
            /\ req' = [req EXCEPT ![c].pc = "update", ![c].saw = r]
  /\ UNCHANGED row

\* The UPDATE names only the key: it does not look at the status again.
StoreUpdate(c) ==
  /\ req[c].pc = "update"
  /\ LET it == Current(c)
         verdict == Verdict(req[c].saw, it.sha)
     IN  /\ row' = [row EXCEPT ![it.key].status = verdict]
         /\ Result(c, verdict)

\* A database error is caught per item and reported as rejected.
StoreFails(c) ==
  /\ "fail" \in Faults
  /\ req[c].pc \in {"insert", "select", "update"}
  /\ Result(c, "rejected")
  /\ UNCHANGED row

\* The connection breaks after the server committed: rejected, but stored.
StoreLosesReply(c) ==
  /\ "lost" \in Faults
  /\ LET it == Current(c)
     IN  \/ /\ req[c].pc = "insert" /\ InsertSucceeds(it.key)
            /\ row' = [row EXCEPT ![it.key] = NewRow(it)]
         \/ /\ req[c].pc = "update"
            /\ row' = [row EXCEPT ![it.key].status = Verdict(req[c].saw, it.sha)]
  /\ Result(c, "rejected")

\* The server process dies; an open transaction is rolled back.
Crash(c) ==
  /\ "crash" \in Faults
  /\ req[c].pc # "idle"
  /\ req' = [req EXCEPT ![c] = NoRequest]
  /\ UNCHANGED row

-----------------------------------------------------------------------------
(* The review routes: approve, apply_commit, mark_quarantined.  A request    *)
(* that finds no row in the right status changes nothing and gets an error.  *)

Approvable(k) == row[k] # None /\ row[k].status = "preview"

Approve(k) ==
  /\ Approvable(k)
  /\ row' = [row EXCEPT ![k].status = "approved"]
  /\ UNCHANGED req

CommittableDuplicate(k) ==
  row[k] # None /\ row[k].status \in {"approved", "preview", "duplicate"}
Committable(k) == row[k] # None /\ row[k].status \in {"approved", "preview"}

\* target_id = COALESCE(t, target_id).
ApplyCommit(k, t) ==
  /\ Committable(k)
  /\ row' = [row EXCEPT ![k].status = "applied", ![k].target = IF t = None THEN @ ELSE t]
  /\ UNCHANGED req

MarkQuarantined(k) ==
  /\ row[k] # None
  /\ row' = [row EXCEPT ![k].status = "quarantined"]
  /\ UNCHANGED req

Batches == UNION {[1..n -> Items] : n \in 1..MaxBatch}

Handle(c) ==
  Project(c) \/ StoreInsert(c) \/ StoreSelect(c) \/ StoreUpdate(c)

Next ==
  \/ \E c \in Client :
       \/ \E b \in Batches : PostBatch(c, b)
       \/ Handle(c) \/ StoreFails(c) \/ StoreLosesReply(c) \/ Crash(c)
  \/ \E k \in Key :
       \/ Approve(k) \/ MarkQuarantined(k)
       \/ \E t \in Target \cup {None} : ApplyCommit(k, t)

Spec == Init /\ [][Next]_vars

-----------------------------------------------------------------------------
(* Properties.                                                              *)

\* How ingest_preview_batch counts a result.
Category(status) ==
  IF status \in {"preview", "validated", "received", "approved", "applied"} THEN "accepted"
  ELSE IF status \in {"duplicate", "conflict", "quarantined"} THEN status ELSE "rejected"

\* An item is counted accepted, duplicate or quarantined only if the table holds
\* the content that was sent, whatever other clients do meanwhile: key reuse
\* with different content is never a silent duplicate (store_preview).
NoSilentMismatch ==
  \A c \in Client : \A n \in 1..Len(req[c].results) :
    Category(req[c].results[n]) \in {"accepted", "duplicate", "quarantined"}
      => /\ row[req[c].batch[n].key] # None
         /\ row[req[c].batch[n].key].sha = req[c].batch[n].sha

\* Of all the items sent with one key, in one batch or by racing clients, at
\* most one is told that it opened a record for review (ON CONFLICT).
AcceptedOnce ==
  \A c, d \in Client : \A m \in 1..Len(req[c].results), n \in 1..Len(req[d].results) :
    /\ req[c].results[m] \in {"preview", "quarantined"}
    /\ req[d].results[n] \in {"preview", "quarantined"}
    /\ req[c].batch[m].key = req[d].batch[n].key
    => <<c, m>> = <<d, n>>

Stage == [k \in Key |-> IF row[k] = None THEN "absent"
                        ELSE IF row[k].status \in {"duplicate", "quarantined", "conflict"}
                        THEN "closed" ELSE row[k].status]
Content == [k \in Key |-> IF row[k] = None THEN None ELSE row[k].sha]
Applied == [k \in Key |-> IF row[k] = None THEN None ELSE row[k].target]

Review == INSTANCE EnvelopeReview WITH stage <- Stage, content <- Content, target <- Applied

\* The table is a review queue: a row keeps the content it was inserted with, it
\* is approved and applied at most once and to one target, and nothing that was
\* ever a duplicate, a conflict or quarantined is approved or applied later,
\* although store_preview updates rows it read in an earlier statement.
ImplementsReview == Review!Spec
=============================================================================
