---------------------------- MODULE MCVendorSync -----------------------------
(* Pairs of vendor records for TLC: every kind of both vendors, and the       *)
(* fields that decide identity, revision and time present or missing.         *)
EXTENDS VendorSync

Plain == [type |-> "plain", whole |-> TRUE, ioc |-> FALSE, sha |-> TRUE, secret |-> FALSE]

Shape(system, kind, ids, stamps, form, flags) ==
  [system |-> system, kind |-> kind, ids |-> ids, stamps |-> stamps, form |-> form, flags |-> flags]

\* One or more shapes of each kind.
Shapes == {
  Shape("hive", "case",           {"_id"},  {"createdAt", "updatedAt", "startDate"}, "utc", Plain),
  Shape("hive", "alert",          {"id"},   {"createdAt", "date"}, "plus", Plain),
  Shape("hive", "alert",          {"_id"},  {"createdAt", "updatedAt"}, "epoch", Plain),
  Shape("hive", "alert",          {"_id", "source_id"}, {"source_revision", "createdAt"}, "spaced", Plain),
  Shape("hive", "observable",     {"_id"},  {"createdAt", "updatedAt"}, "minus", Plain),
  Shape("hive", "observable",     {"_id"},  {"createdAt"}, "utc", [Plain EXCEPT !.type = "carrier"]),
  Shape("hive", "timeline_event", {},       {"createdAt", "endDate"}, "utc", [Plain EXCEPT !.whole = FALSE]),
  Shape("iris", "case",           {"case_id"}, {}, "utc", Plain),
  Shape("iris", "case",           {"case_uuid", "case_id"}, {"case_open_date", "modification_date"}, "date", Plain),
  Shape("iris", "alert",          {"alert_uuid", "id"}, {"alert_creation_time", "created_at"}, "naive",
        [Plain EXCEPT !.secret = TRUE]),
  Shape("iris", "alert",          {"id"}, {"alert_creation_time", "updated_at"}, "space", Plain),
  Shape("iris", "ioc",            {"ioc_uuid", "case_id"}, {"created_at", "updated_at"}, "plus", Plain),
  Shape("iris", "ioc",            {"ioc_id", "case_id"}, {"created_at"}, "utc", [Plain EXCEPT !.type = "carrier"]),
  Shape("iris", "asset",          {"asset_id"}, {}, "utc", Plain),
  Shape("iris", "asset",          {"asset_id"}, {"updated_at"}, "date", Plain),
  Shape("iris", "asset",          {"asset_id", "case_id"}, {"updated_at", "date_added"}, "date", Plain),
  Shape("iris", "ioc",            {"source_id", "case_uuid"}, {"source_revision", "ioc_misp"}, "dmy", Plain),
  Shape("iris", "timeline_event", {"event_id"}, {"event_date", "event_date_wtz", "updated_at", "created_at"},
        "minus", Plain),
  Shape("iris", "finding",        {"note_uuid"}, {"note_creationdate", "note_lastupdate", "created_at"}, "plus", Plain),
  Shape("iris", "evidence_reference", {"file_uuid"}, {"date_added", "created_at"}, "utc",
        [Plain EXCEPT !.sha = FALSE]),
  Shape("iris", "evidence_reference", {"file_uuid"}, {"date_added", "modification_date"}, "utc", Plain)}

\* A record of the given shape: uuids tell all records apart, other ids only those
\* of one kind, all items are of case 1, and dates are those of one day.
Made(s, rec, own) ==
  [system |-> s.system, kind |-> s.kind,
   id     |-> [f \in s.ids |-> IF f \in RangeOf(IrisUuids) THEN 10 + rec ELSE IF f = "case_id" /\ s.kind # "case" THEN 1 ELSE own],
   stamp  |-> [f \in s.stamps |-> [form |-> s.form, at |-> IF s.form = "date" THEN 1 ELSE rec]],
   type   |-> s.flags.type, whole |-> s.flags.whole, ioc |-> s.flags.ioc, sha |-> s.flags.sha,
   secret |-> s.flags.secret, content |-> 0, quiet |-> 0]

\* The first record: the other one may have any shape.
First == {s \in Shapes :
            \/ s.kind = "asset" /\ s.ids = {"asset_id"} /\ s.stamps # {}
            \/ s.form = "utc" /\ (s.kind \in {"case", "observable"} \/ ~s.flags.whole)}

MCRecord == {1, 2}
MCInitial ==
  {[r \in MCRecord |->
      IF r = 1 THEN Made(p[1], 1, 1)
      ELSE Made(p[2], 2, IF p[1].system = p[2].system /\ p[1].kind = p[2].kind THEN 2 ELSE 1)]
   : p \in First \X Shapes}
MCBumps == {"source_revision", "updatedAt", "updated_at", "note_lastupdate", "modification_date"}
=============================================================================
