----------------------------- MODULE VendorSync ------------------------------
(***************************************************************************)
(* Repeated intake of vendor records: TheHive and DFIR-IRIS (external) edit *)
(* records, a poller posts snapshots of them, late, twice or out of order, *)
(* and each one is projected (adapters/*_ingest_adapter.py), keyed         *)
(* (interop.py) and stored under its key (db.py, store_preview).           *)
(*                                                                         *)
(* A snapshot keeps the fields that decide identity, revision, time and    *)
(* admission; everything else is `content', and the payload digest stands  *)
(* for the whole snapshot.  The copying of fields into the payload and the *)
(* list of lossy transformations are left out.  store_preview is one step: *)
(* its races are the subject of IngestEnvelopes.                           *)
(***************************************************************************)
EXTENDS Naturals, Sequences

CONSTANTS
  Record,    \* vendor records
  Initial,   \* what the records may look like at first: [Record -> Raw]
  Bumps,     \* stamps the vendors may renew when a record is edited
  Fallback,  \* the fixed time _choose_ts ends with
  MaxEdits,  \* bound: edits
  MaxSyn     \* bound: snapshots without an id that are stored

\* How a timestamp is written: as an ISO date and time with Z, with a positive
\* or a negative offset or without a zone; with a space for the T, with a zone
\* ("spaced") or without ("space"); as an ISO date, as day/month/year, or as an
\* epoch number.
Form == {"utc", "plus", "minus", "naive", "spaced", "space", "date", "dmy", "epoch"}
Stamp == [form : Form, at : Nat]

HiveKind == {"case", "alert", "observable", "timeline_event"}
IrisKind == {"case", "alert", "ioc", "asset", "timeline_event", "finding", "evidence_reference"}

HiveIds   == <<"_id", "id">>
IrisUuids == <<"case_uuid", "ioc_uuid", "asset_uuid", "event_uuid", "note_uuid", "alert_uuid",
               "file_uuid", "uuid">>
IrisIds   == <<"case_id", "ioc_id", "asset_id", "event_id", "note_id", "id">>

HiveRevisions == <<"updatedAt", "updated_at", "createdAt", "created_at", "date">>
IrisRevisions == <<"updatedAt", "updated_at", "note_lastupdate", "event_date_wtz", "date_added",
                   "modification_date", "createdAt", "created_at", "note_creationdate",
                   "case_open_date", "acquisition_date">>

RangeOf(s) == {s[i] : i \in DOMAIN s}

\* source_id and source_revision are given by the poller beside the record.
IdFields(system) ==
  {"source_id"} \cup IF system = "hive" THEN RangeOf(HiveIds) ELSE RangeOf(IrisUuids) \cup RangeOf(IrisIds)
StampFields(system) ==
  {"source_revision"} \cup
  IF system = "hive" THEN RangeOf(HiveRevisions) \cup {"startDate", "endDate"}
  ELSE RangeOf(IrisRevisions) \cup {"case_close_date", "alert_creation_time", "event_date", "ioc_misp"}

\* Whether r is a snapshot: the fields present are the domains of id and stamp.
IsRaw(r) ==
  /\ DOMAIN r = {"system", "kind", "id", "stamp", "type", "whole", "ioc", "sha", "secret", "content", "quiet"}
  /\ r.system \in {"hive", "iris"}
  /\ r.kind \in IF r.system = "hive" THEN HiveKind ELSE IrisKind
  /\ r.id \in [DOMAIN r.id -> Nat] /\ DOMAIN r.id \subseteq IdFields(r.system)
  /\ r.stamp \in [DOMAIN r.stamp -> Stamp] /\ DOMAIN r.stamp \subseteq StampFields(r.system)
  /\ r.type \in {"plain", "carrier"}  \* carrier: a type that could hold bytes
  /\ {r.whole, r.ioc, r.sha, r.secret} \subseteq BOOLEAN
  /\ r.content \in Nat /\ r.quiet \in Nat

ASSUME SyncAssumption ==
  /\ \A raws \in Initial : DOMAIN raws = Record /\ \A r \in Record : IsRaw(raws[r])
  /\ {Fallback, MaxEdits, MaxSyn} \subseteq Nat

\* The ids a snapshot gives to the record itself, not to the case it belongs to.
OwnIds(r) == {r.id[f] : f \in DOMAIN r.id \ IF r.kind = "case" THEN {} ELSE {"case_uuid", "case_id"}}

\* The vendors' clock when the polling starts, and the stamps of last updates; a
\* poller that gives revisions gives a new one when the vendor does.
Began == 3
LastUpdates == {"source_revision", "updatedAt", "updated_at", "note_lastupdate"}

\* The vendors: no two records of a kind have an id in common, stamps are not from
\* the future, and an edit renews the stamps of the last update.
ASSUME VendorAssumption ==
  /\ \A raws \in Initial, r, q \in Record :
       r # q /\ raws[r].system = raws[q].system /\ raws[r].kind = raws[q].kind
         => OwnIds(raws[r]) \cap OwnIds(raws[q]) = {}
  /\ \A raws \in Initial, r \in Record : \A f \in DOMAIN raws[r].stamp : raws[r].stamp[f].at < Began
  /\ LastUpdates \subseteq Bumps

VARIABLES
  raw,    \* per record: what the vendor would answer now
  clock,  \* the vendors' clock
  past,   \* the versions the records have had: a poller may have taken any of
          \* them and post it at any later time, any number of times
  table,  \* dfir.ingest_envelope: per key the snapshot, its time and its status
  sent,   \* history: the snapshots that were admitted, with their record
  syn     \* source ids made up so far

vars == <<raw, clock, past, table, sent, syn>>

-----------------------------------------------------------------------------
(* Projection (both adapters).                                              *)

\* The first key of a list that is among the given fields, "none" for no key.
FirstOf(keys, fields) ==
  IF fields \cap RangeOf(keys) = {} THEN "none"
  ELSE keys[CHOOSE i \in DOMAIN keys : keys[i] \in fields /\ \A j \in 1..(i - 1) : keys[j] \notin fields]

\* _source_id: the override, or the first id found; IRIS looks through all uuids
\* before the numeric ids.
IdKey(r) ==
  IF "source_id" \in DOMAIN r.id THEN "source_id"
  ELSE IF r.system = "hive" THEN FirstOf(HiveIds, DOMAIN r.id)
  ELSE IF DOMAIN r.id \cap RangeOf(IrisUuids) # {} THEN FirstOf(IrisUuids, DOMAIN r.id)
  ELSE FirstOf(IrisIds, DOMAIN r.id)

\* A record without any id gets a random one.
SourceId(r) ==
  IF IdKey(r) = "none" THEN [made |-> TRUE, n |-> syn] ELSE [made |-> FALSE, n |-> r.id[IdKey(r)]]

Revisions(r) == IF r.system = "hive" THEN HiveRevisions ELSE IrisRevisions

\* _source_revision: the override, or the first stamp of the list, as it is written.
RevisionKey(r) ==
  IF "source_revision" \in DOMAIN r.stamp THEN "source_revision"
  ELSE FirstOf(Revisions(r), DOMAIN r.stamp)

RevisionOldestFirst(r) ==
  LET key == FirstOf([i \in DOMAIN Revisions(r) |-> Revisions(r)[Len(Revisions(r)) + 1 - i]], DOMAIN r.stamp)
  IN  IF key = "none" THEN [form |-> "none", at |-> 0] ELSE r.stamp[key]
SourceRevision(r) ==
  IF RevisionKey(r) = "none" THEN [form |-> "none", at |-> 0] ELSE r.stamp[RevisionKey(r)]

\* The forms _choose_ts can read.  TheHive's takes what carries a zone.  IRIS's
\* rewrites day/month/year, appends midnight to what has no T and Z to what
\* shows neither Z nor +: that suits dates and times without a zone, and spoils
\* negative offsets and everything written with a space.
ReadableZuluOnly(system) == {"utc"}
Readable(system) == IF system = "hive" THEN {"utc", "plus", "minus", "spaced"}
                    ELSE {"utc", "plus", "naive", "date", "dmy"}

\* _choose_ts: the first listed stamp that can be read.
ChooseTime(r, keys) ==
  LET key == FirstOf(keys, {k \in DOMAIN r.stamp : r.stamp[k].form \in Readable(r.system)})
  IN  IF key = "none" THEN Fallback ELSE r.stamp[key].at

Projection(r, entity, keys, decision) ==
  [entity |-> entity, time |-> ChooseTime(r, keys), decision |-> decision]

HiveCase(r)  == Projection(r, "case", <<"updatedAt", "createdAt", "startDate">>, "none")
HiveAlert(r) == Projection(r, "alert", <<"updatedAt", "createdAt", "date">>, "none")
HiveObservable(r) ==
  Projection(r, IF r.ioc THEN "ioc" ELSE "observable", <<"updatedAt", "createdAt">>,
             IF r.type = "carrier" THEN "quarantined" ELSE "none")
HiveTimeline(r) ==
  Projection(r, "timeline_event", <<"updatedAt", "createdAt", "startDate", "date", "endDate">>, "none")

IrisCase(r) ==
  Projection(r, "case", <<"case_open_date", "updated_at", "created_at", "case_close_date">>, "none")
IrisAlert(r) == Projection(r, "alert", <<"alert_creation_time", "updated_at", "created_at">>, "none")
IrisIoc(r) ==
  Projection(r, "ioc", <<"updated_at", "created_at", "ioc_misp">>,
             IF r.type = "carrier" THEN "quarantined" ELSE "none")
IrisAsset(r) == Projection(r, "asset", <<"updated_at", "date_added", "created_at">>, "none")
IrisTimeline(r) ==
  Projection(r, "timeline_event", <<"event_date", "event_date_wtz", "updated_at", "created_at">>, "none")
IrisFinding(r) ==
  Projection(r, "finding", <<"note_lastupdate", "note_creationdate", "updated_at", "created_at">>, "none")
IrisEvidence(r) ==
  Projection(r, "evidence_reference", <<"date_added", "acquisition_date", "updated_at", "created_at">>,
             IF r.sha THEN "none" ELSE "lossy")

Project(r) ==
  IF r.system = "hive"
  THEN CASE r.kind = "case"           -> HiveCase(r)
         [] r.kind = "alert"          -> HiveAlert(r)
         [] r.kind = "observable"     -> HiveObservable(r)
         [] r.kind = "timeline_event" -> HiveTimeline(r)
  ELSE CASE r.kind = "case"               -> IrisCase(r)
         [] r.kind = "alert"              -> IrisAlert(r)
         [] r.kind = "ioc"                -> IrisIoc(r)
         [] r.kind = "asset"              -> IrisAsset(r)
         [] r.kind = "timeline_event"     -> IrisTimeline(r)
         [] r.kind = "finding"            -> IrisFinding(r)
         [] r.kind = "evidence_reference" -> IrisEvidence(r)

\* idempotency_key: integration and direction are the same for all of them.
KeyWithoutEntity(r) ==
  [system |-> r.system, entity |-> "any", id |-> SourceId(r), rev |-> SourceRevision(r)]
Key(r) ==
  [system |-> r.system, entity |-> Project(r).entity, id |-> SourceId(r), rev |-> SourceRevision(r)]

\* Required fields are there (a timeline event needs none), no key looks like a
\* secret, the revision is a string, and the schema knows the redaction
\* decision: "lossy" is not one of its values.
Admissible(r) ==
  /\ r.whole \/ r.kind = "timeline_event"
  /\ ~r.secret
  /\ SourceRevision(r).form = "epoch" => r.system = "iris" /\ RevisionKey(r) # "source_revision"
  /\ Project(r).decision # "lossy"

-----------------------------------------------------------------------------
(* store_preview.                                                           *)

NewRowByDecision(r) == [raw |-> r, time |-> Project(r).time, status |-> Project(r).decision]
NewRow(r) == [raw |-> r, time |-> Project(r).time,
              status |-> IF Project(r).decision = "quarantined" THEN "quarantined" ELSE "preview"]

\* What becomes of the row of a key that is used again.
ReusedSilently(row, r) == [row EXCEPT !.status = "duplicate"]
Reused(row, r) ==
  [row EXCEPT !.status = IF row.raw # r THEN "conflict"
                         ELSE IF @ \in {"duplicate", "conflict"} THEN @ ELSE "duplicate"]

Stored(r) ==
  [k \in DOMAIN table \cup {Key(r)} |->
     IF k # Key(r) THEN table[k]
     ELSE IF k \in DOMAIN table THEN Reused(table[k], r) ELSE NewRow(r)]

-----------------------------------------------------------------------------
Versions(raws) == {[rec |-> r, raw |-> raws[r]] : r \in Record}

Init ==
  /\ raw \in Initial
  /\ clock = Began
  /\ past = Versions(raw) /\ sent = {}
  /\ table = [k \in {} |-> 0]
  /\ syn = 0

\* The vendor changes a record and renews the stamps it maintains, or changes
\* it without touching a stamp.
Edit(r, stamped) ==
  /\ clock < Began + MaxEdits
  /\ clock' = clock + 1
  /\ raw' = [raw EXCEPT ![r].content = clock,
                        ![r].quiet = IF stamped THEN 0 ELSE @ + 1,
                        ![r].stamp = [f \in DOMAIN @ |->
                            IF stamped /\ f \in Bumps THEN [@[f] EXCEPT !.at = clock] ELSE @[f]]]
  /\ past' = past \cup Versions(raw')
  /\ UNCHANGED <<table, sent, syn>>

\* TheHive: an observable is marked as an indicator of compromise.
MarkIoc(r) ==
  /\ raw[r].kind = "observable" /\ ~raw[r].ioc
  /\ raw' = [raw EXCEPT ![r].ioc = TRUE]
  /\ past' = past \cup Versions(raw')
  /\ UNCHANGED <<clock, table, sent, syn>>

\* One item of POST /api/v1/ingest/preview.
Post(m) ==
  /\ \/ ~Admissible(m.raw) /\ UNCHANGED <<table, sent, syn>>
     \/ /\ Admissible(m.raw)
        /\ SourceId(m.raw).made => syn < MaxSyn
        /\ table' = Stored(m.raw)
        /\ sent' = sent \cup {m}
        /\ syn' = IF SourceId(m.raw).made THEN syn + 1 ELSE syn
  /\ UNCHANGED <<raw, clock, past>>

Next ==
  \/ \E r \in Record : MarkIoc(r) \/ \E stamped \in BOOLEAN : Edit(r, stamped)
  \/ \E m \in past : Post(m)

Spec == Init /\ [][Next]_vars

-----------------------------------------------------------------------------
(* Properties.                                                              *)

RowStatus == {"preview", "quarantined", "duplicate", "conflict"}

\* Snapshots keep their shape; rows hold one each.
TypeOK ==
  /\ DOMAIN raw = Record /\ \A r \in Record : IsRaw(raw[r])
  /\ clock \in Began..(Began + MaxEdits)
  /\ \A m \in past : m.rec \in Record /\ IsRaw(m.raw)
  /\ \A k \in DOMAIN table :
       IsRaw(table[k].raw) /\ table[k].time \in Nat /\ table[k].status \in RowStatus
  /\ sent \subseteq past
  /\ syn \in 0..MaxSyn

\* No version of a record disappears: one that was posted and admitted is in the
\* table, or its key is marked as a conflict for a person to look at, in
\* whatever order and however often versions arrive (store_preview).
NoVersionSwallowed ==
  \A m \in sent : \E k \in DOMAIN table :
    \/ table[k].raw = m.raw
    \/ k = Key(m.raw) /\ table[k].status = "conflict"

\* A record that can be told apart by the id the poller gives, by a uuid of its
\* own, or by a numeric id where it carries no case id.
Identified(r) ==
  LET own == DOMAIN r.id \ IF r.kind = "case" THEN {} ELSE {"case_uuid"}
  IN  \/ "source_id" \in DOMAIN r.id
      \/ /\ own # {} /\ (r.kind # "case" => "case_uuid" \notin DOMAIN r.id)
         /\ own \cap RangeOf(IrisUuids) = {} => r.kind = "case" \/ "case_id" \notin DOMAIN r.id

\* Two records that can be told apart never meet in one row: ids of different
\* tables, overrides and equal revisions do not mix them up (_source_id,
\* idempotency_key).  Items that IRIS lists with their case are not among them:
\* case_uuid and case_id come before their own ids, and they share one row.
RecordsApart ==
  \A m, n \in sent : Identified(m.raw) /\ Identified(n.raw) /\ Key(m.raw) = Key(n.raw) => m.rec = n.rec

\* An edit that renewed its last-update stamp gets a row of its own: it is not
\* taken for an older version.  It may become a conflict in another's row only if
\* the vendor changed the record again under that stamp, or if an item that goes
\* by its case's id or uuid was posted under the same key.
StampedEditReviewed ==
  \A m \in sent :
    Identified(m.raw) /\ LastUpdates \cap DOMAIN m.raw.stamp # {}
    => \/ table[Key(m.raw)].raw = m.raw
       \/ \E n \in sent : n # m /\ n.rec = m.rec /\ n.raw.stamp = m.raw.stamp
       \/ \E n \in sent : ~Identified(n.raw) /\ Key(n.raw) = Key(m.raw)

\* Stamps both vendors' projections are meant to read, one of them the creation
\* under the vendor's own name for it.
Legible(r) ==
  /\ \A f \in DOMAIN r.stamp : r.stamp[f].form \in {"utc", "plus"}
  /\ (IF r.system = "hive" THEN "createdAt" ELSE "created_at") \in DOMAIN r.stamp

\* The projected times keep the vendors' order: a snapshot all of whose stamps
\* lie before another's is not dated after it, across vendors, kinds and ways
\* of writing a time (_choose_ts).
TimelineOrder ==
  \A k, l \in DOMAIN table : LET a == table[k].raw  b == table[l].raw IN
    /\ Legible(a) /\ Legible(b)
    /\ \A f \in DOMAIN a.stamp, g \in DOMAIN b.stamp : a.stamp[f].at < b.stamp[g].at
    => table[k].time < table[l].time
=============================================================================
