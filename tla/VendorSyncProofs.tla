-------------------------- MODULE VendorSyncProofs ---------------------------
(***************************************************************************)
(* Proofs about VendorSync, for any vendor records, edits and polls.        *)
(***************************************************************************)
EXTENDS VendorSync, WellFoundedInduction, TLAPS

\* Records without an id of any kind get a made one.
NoId(r) == IdKey(r) = "none"

\* The key of a snapshot posted when s ids had been made up.
KeyWith(r, s) ==
  [system |-> r.system, entity |-> Project(r).entity,
   id |-> IF NoId(r) THEN [made |-> TRUE, n |-> s] ELSE [made |-> FALSE, n |-> r.id[IdKey(r)]],
   rev |-> SourceRevision(r)]

\* What never changes about a record.
Alike(a, b) == a.system = b.system /\ a.kind = b.kind /\ a.id = b.id /\ DOMAIN a.stamp = DOMAIN b.stamp

Origin == \E raws \in Initial : \A m \in past : m.rec \in Record /\ Alike(m.raw, raws[m.rec])

\* The vendors' side: what they would answer is a version, no stamp is from the
\* future, and versions of a record with one renewed stamp in common have all.
VersionsOK ==
  /\ \A r \in Record : [rec |-> r, raw |-> raw[r]] \in past
  /\ \A m \in past : \A f \in DOMAIN m.raw.stamp : m.raw.stamp[f].at < clock
  /\ \A m, n \in past : \A f \in Bumps \cap DOMAIN m.raw.stamp :
       m.rec = n.rec /\ m.raw.stamp[f] = n.raw.stamp[f] => m.raw.stamp = n.raw.stamp

\* A row holds the snapshot it was made for, dated by its projection, under the key
\* that had then; a made id is behind the counter.
RowOK(k, row, admitted, s) ==
  /\ row = [raw |-> row.raw, time |-> row.time, status |-> row.status]
  /\ row.time = Project(row.raw).time
  /\ \E n \in admitted : n.raw = row.raw
  /\ \E t \in Nat : k = KeyWith(row.raw, t) /\ (NoId(row.raw) => t < s)

\* An admitted snapshot is in a row, or its key, which no counter touches, is a
\* conflict.
Kept(m, tab) ==
  \/ \E k \in DOMAIN tab : tab[k].raw = m.raw
  \/ ~NoId(m.raw) /\ KeyWith(m.raw, 0) \in DOMAIN tab /\ tab[KeyWith(m.raw, 0)].status = "conflict"
Keyed(m, tab) == ~NoId(m.raw) => KeyWith(m.raw, 0) \in DOMAIN tab

TableOK ==
  /\ \A k \in DOMAIN table : RowOK(k, table[k], sent, syn)
  /\ \A m \in sent : Kept(m, table) /\ Keyed(m, table)

SyncInv == TypeOK /\ Origin /\ VersionsOK /\ TableOK

-----------------------------------------------------------------------------
(* Lists of keys.                                                           *)

\* The key found is the first: among any fields it is one of them, and it is not
\* behind a position that already holds one.
LEMMA FirstFacts ==
  ASSUME NEW n \in Nat, NEW keys, DOMAIN keys = 1..n, NEW fields, "none" \notin RangeOf(keys)
  PROVE  /\ FirstOf(keys, fields) = "none" <=> fields \cap RangeOf(keys) = {}
         /\ FirstOf(keys, fields) # "none" => /\ FirstOf(keys, fields) \in fields \cap RangeOf(keys)
              /\ \A p \in 1..n : keys[p] \in fields => \E i \in 1..p : FirstOf(keys, fields) = keys[i]
<1>1. CASE fields \cap RangeOf(keys) = {}
  BY <1>1 DEF FirstOf
<1>2. CASE fields \cap RangeOf(keys) # {}
  <2> DEFINE At == {i \in 1..n : keys[i] \in fields}
             First(i) == keys[i] \in fields /\ \A j \in 1..(i - 1) : keys[j] \notin fields
  <2>1. At # {} /\ At \subseteq Nat
    BY <1>2 DEF RangeOf
  <2>2. PICK a \in At : \A y \in At : ~(<<y, a>> \in OpToRel(<, Nat))
    BY <2>1, WFMin, NatLessThanWellFounded
  <2>3. \A y \in At : ~(y < a)
    BY <2>1, <2>2 DEF OpToRel
  <2>4. First(a) /\ a \in 1..n
    BY <2>3
  <2>5. PICK c \in 1..n : First(c) /\ FirstOf(keys, fields) = keys[c]
    BY <1>2, <2>4 DEF FirstOf
  <2>6. keys[c] \in fields /\ keys[c] \in RangeOf(keys) /\ keys[c] # "none"
    BY <2>5 DEF RangeOf
  <2>7. ASSUME NEW p \in 1..n, keys[p] \in fields PROVE c \in 1..p
    BY <2>5, <2>7
  <2> QED
    BY <1>2, <2>5, <2>6, <2>7
<1> QED
  BY <1>1, <1>2

LEMMA IdLists ==
  /\ DOMAIN HiveIds = 1..2 /\ DOMAIN IrisUuids = 1..8 /\ DOMAIN IrisIds = 1..6
  /\ RangeOf(HiveIds) = {"_id", "id"}
  /\ RangeOf(IrisUuids) = {"case_uuid", "ioc_uuid", "asset_uuid", "event_uuid", "note_uuid", "alert_uuid",
                           "file_uuid", "uuid"}
  /\ RangeOf(IrisIds) = {"case_id", "ioc_id", "asset_id", "event_id", "note_id", "id"}
BY DEF HiveIds, IrisUuids, IrisIds, RangeOf

LEMMA RevisionLists ==
  /\ DOMAIN HiveRevisions = 1..5 /\ DOMAIN IrisRevisions = 1..11
  /\ HiveRevisions[1] = "updatedAt" /\ HiveRevisions[2] = "updated_at"
  /\ IrisRevisions[1] = "updatedAt" /\ IrisRevisions[2] = "updated_at" /\ IrisRevisions[3] = "note_lastupdate"
  /\ "none" \notin RangeOf(HiveRevisions) /\ "none" \notin RangeOf(IrisRevisions)
  /\ RangeOf(HiveRevisions) = {"updatedAt", "updated_at", "createdAt", "created_at", "date"}
BY DEF HiveRevisions, IrisRevisions, RangeOf

LEMMA IdFirst ==
  ASSUME NEW D
  PROVE  /\ FirstOf(HiveIds, D) = "none" <=> D \cap RangeOf(HiveIds) = {}
         /\ FirstOf(HiveIds, D) # "none" => FirstOf(HiveIds, D) \in D \cap RangeOf(HiveIds)
         /\ FirstOf(IrisUuids, D) = "none" <=> D \cap RangeOf(IrisUuids) = {}
         /\ FirstOf(IrisUuids, D) # "none" => FirstOf(IrisUuids, D) \in D \cap RangeOf(IrisUuids)
         /\ FirstOf(IrisIds, D) = "none" <=> D \cap RangeOf(IrisIds) = {}
         /\ FirstOf(IrisIds, D) # "none" => FirstOf(IrisIds, D) \in D \cap RangeOf(IrisIds)
<1>1. /\ "none" \notin RangeOf(HiveIds) /\ "none" \notin RangeOf(IrisUuids) /\ "none" \notin RangeOf(IrisIds)
      /\ 2 \in Nat /\ 8 \in Nat /\ 6 \in Nat
  BY IdLists
<1>2. /\ DOMAIN HiveIds = 1..2 /\ DOMAIN IrisUuids = 1..8 /\ DOMAIN IrisIds = 1..6
  BY IdLists
<1>3. /\ FirstOf(HiveIds, D) = "none" <=> D \cap RangeOf(HiveIds) = {}
      /\ FirstOf(HiveIds, D) # "none" => FirstOf(HiveIds, D) \in D \cap RangeOf(HiveIds)
  BY <1>1, <1>2, FirstFacts
<1>4. /\ FirstOf(IrisUuids, D) = "none" <=> D \cap RangeOf(IrisUuids) = {}
      /\ FirstOf(IrisUuids, D) # "none" => FirstOf(IrisUuids, D) \in D \cap RangeOf(IrisUuids)
  BY <1>1, <1>2, FirstFacts
<1>5. /\ FirstOf(IrisIds, D) = "none" <=> D \cap RangeOf(IrisIds) = {}
      /\ FirstOf(IrisIds, D) # "none" => FirstOf(IrisIds, D) \in D \cap RangeOf(IrisIds)
  BY <1>1, <1>2, FirstFacts
<1> QED
  BY <1>3, <1>4, <1>5

\* _source_id takes an id the snapshot has; one that is the record's own, for a
\* record that can be told apart.
LEMMA IdKeyFacts ==
  ASSUME NEW r, IsRaw(r)
  PROVE  /\ ~NoId(r) => IdKey(r) \in DOMAIN r.id /\ r.id[IdKey(r)] \in Nat
         /\ Identified(r) => ~NoId(r) /\ r.id[IdKey(r)] \in OwnIds(r)
<1>1. /\ r.system \in {"hive", "iris"} /\ DOMAIN r.id \subseteq IdFields(r.system) /\ r.id \in [DOMAIN r.id -> Nat]
  BY DEF IsRaw
<1> DEFINE D == DOMAIN r.id
<1>5. CASE "source_id" \in D
  BY <1>1, <1>5 DEF IdKey, NoId, OwnIds
<1>2. CASE "source_id" \notin D /\ r.system = "hive"
  <2>1. /\ FirstOf(HiveIds, D) = "none" <=> D \cap RangeOf(HiveIds) = {}
        /\ FirstOf(HiveIds, D) # "none" => FirstOf(HiveIds, D) \in D \cap RangeOf(HiveIds)
    BY IdFirst
  <2>2. IdKey(r) = FirstOf(HiveIds, D) /\ D \subseteq RangeOf(HiveIds)
    BY <1>1, <1>2 DEF IdKey, IdFields
  <2>3. ~NoId(r) => IdKey(r) \in D
    BY <2>1, <2>2 DEF NoId
  <2>4. Identified(r) => ~NoId(r) /\ IdKey(r) \notin {"case_uuid", "case_id"}
    BY <1>2, <2>1, <2>2, IdLists DEF Identified, NoId
  <2> QED
    BY <1>1, <2>3, <2>4 DEF OwnIds
<1>3. CASE "source_id" \notin D /\ r.system = "iris" /\ D \cap RangeOf(IrisUuids) # {}
  <2>1. FirstOf(IrisUuids, D) \in D \cap RangeOf(IrisUuids) /\ FirstOf(IrisUuids, D) # "none"
    BY <1>3, IdFirst
  <2>2. IdKey(r) = FirstOf(IrisUuids, D)
    BY <1>3 DEF IdKey
  <2>3. Identified(r) /\ r.kind # "case" => IdKey(r) \notin {"case_uuid", "case_id"}
    BY <1>3, <2>1, <2>2, IdLists DEF Identified
  <2> QED
    BY <1>1, <2>1, <2>2, <2>3 DEF OwnIds, NoId
<1>4. CASE "source_id" \notin D /\ r.system = "iris" /\ D \cap RangeOf(IrisUuids) = {}
  <2>1. /\ FirstOf(IrisIds, D) = "none" <=> D \cap RangeOf(IrisIds) = {}
        /\ FirstOf(IrisIds, D) # "none" => FirstOf(IrisIds, D) \in D \cap RangeOf(IrisIds)
    BY IdFirst
  <2>2. IdKey(r) = FirstOf(IrisIds, D) /\ D \subseteq RangeOf(IrisIds)
    BY <1>1, <1>4 DEF IdKey, IdFields
  <2>3. Identified(r) => D # {}
    BY <1>4 DEF Identified
  <2>4. Identified(r) /\ r.kind # "case" => "case_id" \notin D /\ "case_uuid" \notin D
    BY <1>4 DEF Identified
  <2>5. ~NoId(r) => IdKey(r) \in D
    BY <2>1, <2>2 DEF NoId
  <2>6. Identified(r) => ~NoId(r) /\ (r.kind # "case" => IdKey(r) \notin {"case_uuid", "case_id"})
    BY <2>1, <2>2, <2>3, <2>4 DEF NoId
  <2> QED
    BY <1>1, <2>5, <2>6 DEF OwnIds
<1> QED
  BY <1>1, <1>2, <1>3, <1>4, <1>5

-----------------------------------------------------------------------------
(* Projections.                                                             *)

\* The entity a snapshot becomes: its kind, but for indicators.
EntityOf(r) == IF r.kind = "observable" /\ r.ioc THEN "ioc" ELSE r.kind

Created(r) == IF r.system = "hive" THEN "createdAt" ELSE "created_at"

\* Every projection goes by a list of stamps in which the creation is.
Projected(r, p, n, keys, decision) ==
  /\ DOMAIN keys = 1..n /\ "none" \notin RangeOf(keys) /\ Created(r) \in RangeOf(keys)
  /\ p = [entity |-> EntityOf(r), time |-> ChooseTime(r, keys), decision |-> decision]

LEMMA Projections ==
  ASSUME NEW r, IsRaw(r)
  PROVE  \E n \in Nat : \E keys, decision : Projected(r, Project(r), n, keys, decision)
<1>1. r.system \in {"hive", "iris"} /\ r.kind \in IF r.system = "hive" THEN HiveKind ELSE IrisKind
  BY DEF IsRaw
<1>2. CASE r.system = "hive" /\ r.kind = "case"
  <2>1. PICK keys : keys = <<"updatedAt", "createdAt", "startDate">>
    OBVIOUS
  <2>2. DOMAIN keys = 1..3 /\ "none" \notin RangeOf(keys) /\ Created(r) \in RangeOf(keys)
    BY <1>2, <2>1 DEF RangeOf, Created
  <2>3. PICK decision : decision = "none"
    OBVIOUS
  <2>4. Project(r) = [entity |-> EntityOf(r), time |-> ChooseTime(r, keys), decision |-> decision]
    BY <1>2, <2>1, <2>3 DEF Project, HiveCase, Projection, EntityOf
  <2> QED
    BY <2>2, <2>4 DEF Projected
<1>3. CASE r.system = "hive" /\ r.kind = "alert"
  <2>1. PICK keys : keys = <<"updatedAt", "createdAt", "date">>
    OBVIOUS
  <2>2. DOMAIN keys = 1..3 /\ "none" \notin RangeOf(keys) /\ Created(r) \in RangeOf(keys)
    BY <1>3, <2>1 DEF RangeOf, Created
  <2>3. PICK decision : decision = "none"
    OBVIOUS
  <2>4. Project(r) = [entity |-> EntityOf(r), time |-> ChooseTime(r, keys), decision |-> decision]
    BY <1>3, <2>1, <2>3 DEF Project, HiveAlert, Projection, EntityOf
  <2> QED
    BY <2>2, <2>4 DEF Projected
<1>4. CASE r.system = "hive" /\ r.kind = "observable"
  <2>1. PICK keys : keys = <<"updatedAt", "createdAt">>
    OBVIOUS
  <2>2. DOMAIN keys = 1..2 /\ "none" \notin RangeOf(keys) /\ Created(r) \in RangeOf(keys)
    BY <1>4, <2>1 DEF RangeOf, Created
  <2>3. PICK decision : decision = IF r.type = "carrier" THEN "quarantined" ELSE "none"
    OBVIOUS
  <2>4. Project(r) = [entity |-> EntityOf(r), time |-> ChooseTime(r, keys), decision |-> decision]
    BY <1>4, <2>1, <2>3 DEF Project, HiveObservable, Projection, EntityOf
  <2> QED
    BY <2>2, <2>4 DEF Projected
<1>5. CASE r.system = "hive" /\ r.kind = "timeline_event"
  <2>1. PICK keys : keys = <<"updatedAt", "createdAt", "startDate", "date", "endDate">>
    OBVIOUS
  <2>2. DOMAIN keys = 1..5 /\ "none" \notin RangeOf(keys) /\ Created(r) \in RangeOf(keys)
    BY <1>5, <2>1 DEF RangeOf, Created
  <2>3. PICK decision : decision = "none"
    OBVIOUS
  <2>4. Project(r) = [entity |-> EntityOf(r), time |-> ChooseTime(r, keys), decision |-> decision]
    BY <1>5, <2>1, <2>3 DEF Project, HiveTimeline, Projection, EntityOf
  <2> QED
    BY <2>2, <2>4 DEF Projected
<1>6. CASE r.system = "iris" /\ r.kind = "case"
  <2>1. PICK keys : keys = <<"case_open_date", "updated_at", "created_at", "case_close_date">>
    OBVIOUS
  <2>2. DOMAIN keys = 1..4 /\ "none" \notin RangeOf(keys) /\ Created(r) \in RangeOf(keys)
    BY <1>6, <2>1 DEF RangeOf, Created
  <2>3. PICK decision : decision = "none"
    OBVIOUS
  <2>4. Project(r) = [entity |-> EntityOf(r), time |-> ChooseTime(r, keys), decision |-> decision]
    BY <1>6, <2>1, <2>3 DEF Project, IrisCase, Projection, EntityOf
  <2> QED
    BY <2>2, <2>4 DEF Projected
<1>7. CASE r.system = "iris" /\ r.kind = "alert"
  <2>1. PICK keys : keys = <<"alert_creation_time", "updated_at", "created_at">>
    OBVIOUS
  <2>2. DOMAIN keys = 1..3 /\ "none" \notin RangeOf(keys) /\ Created(r) \in RangeOf(keys)
    BY <1>7, <2>1 DEF RangeOf, Created
  <2>3. PICK decision : decision = "none"
    OBVIOUS
  <2>4. Project(r) = [entity |-> EntityOf(r), time |-> ChooseTime(r, keys), decision |-> decision]
    BY <1>7, <2>1, <2>3 DEF Project, IrisAlert, Projection, EntityOf
  <2> QED
    BY <2>2, <2>4 DEF Projected
<1>8. CASE r.system = "iris" /\ r.kind = "ioc"
  <2>1. PICK keys : keys = <<"updated_at", "created_at", "ioc_misp">>
    OBVIOUS
  <2>2. DOMAIN keys = 1..3 /\ "none" \notin RangeOf(keys) /\ Created(r) \in RangeOf(keys)
    BY <1>8, <2>1 DEF RangeOf, Created
  <2>3. PICK decision : decision = IF r.type = "carrier" THEN "quarantined" ELSE "none"
    OBVIOUS
  <2>4. Project(r) = [entity |-> EntityOf(r), time |-> ChooseTime(r, keys), decision |-> decision]
    BY <1>8, <2>1, <2>3 DEF Project, IrisIoc, Projection, EntityOf
  <2> QED
    BY <2>2, <2>4 DEF Projected
<1>9. CASE r.system = "iris" /\ r.kind = "asset"
  <2>1. PICK keys : keys = <<"updated_at", "date_added", "created_at">>
    OBVIOUS
  <2>2. DOMAIN keys = 1..3 /\ "none" \notin RangeOf(keys) /\ Created(r) \in RangeOf(keys)
    BY <1>9, <2>1 DEF RangeOf, Created
  <2>3. PICK decision : decision = "none"
    OBVIOUS
  <2>4. Project(r) = [entity |-> EntityOf(r), time |-> ChooseTime(r, keys), decision |-> decision]
    BY <1>9, <2>1, <2>3 DEF Project, IrisAsset, Projection, EntityOf
  <2> QED
    BY <2>2, <2>4 DEF Projected
<1>10. CASE r.system = "iris" /\ r.kind = "timeline_event"
  <2>1. PICK keys : keys = <<"event_date", "event_date_wtz", "updated_at", "created_at">>
    OBVIOUS
  <2>2. DOMAIN keys = 1..4 /\ "none" \notin RangeOf(keys) /\ Created(r) \in RangeOf(keys)
    BY <1>10, <2>1 DEF RangeOf, Created
  <2>3. PICK decision : decision = "none"
    OBVIOUS
  <2>4. Project(r) = [entity |-> EntityOf(r), time |-> ChooseTime(r, keys), decision |-> decision]
    BY <1>10, <2>1, <2>3 DEF Project, IrisTimeline, Projection, EntityOf
  <2> QED
    BY <2>2, <2>4 DEF Projected
<1>11. CASE r.system = "iris" /\ r.kind = "finding"
  <2>1. PICK keys : keys = <<"note_lastupdate", "note_creationdate", "updated_at", "created_at">>
    OBVIOUS
  <2>2. DOMAIN keys = 1..4 /\ "none" \notin RangeOf(keys) /\ Created(r) \in RangeOf(keys)
    BY <1>11, <2>1 DEF RangeOf, Created
  <2>3. PICK decision : decision = "none"
    OBVIOUS
  <2>4. Project(r) = [entity |-> EntityOf(r), time |-> ChooseTime(r, keys), decision |-> decision]
    BY <1>11, <2>1, <2>3 DEF Project, IrisFinding, Projection, EntityOf
  <2> QED
    BY <2>2, <2>4 DEF Projected
<1>12. CASE r.system = "iris" /\ r.kind = "evidence_reference"
  <2>1. PICK keys : keys = <<"date_added", "acquisition_date", "updated_at", "created_at">>
    OBVIOUS
  <2>2. DOMAIN keys = 1..4 /\ "none" \notin RangeOf(keys) /\ Created(r) \in RangeOf(keys)
    BY <1>12, <2>1 DEF RangeOf, Created
  <2>3. PICK decision : decision = IF r.sha THEN "none" ELSE "lossy"
    OBVIOUS
  <2>4. Project(r) = [entity |-> EntityOf(r), time |-> ChooseTime(r, keys), decision |-> decision]
    BY <1>12, <2>1, <2>3 DEF Project, IrisEvidence, Projection, EntityOf
  <2> QED
    BY <2>2, <2>4 DEF Projected
<1> QED
  BY <1>1, <1>2, <1>3, <1>4, <1>5, <1>6, <1>7, <1>8, <1>9, <1>10, <1>11, <1>12 DEF HiveKind, IrisKind

LEMMA ProjectFacts ==
  ASSUME NEW r, IsRaw(r)
  PROVE  /\ Project(r).time \in Nat /\ Project(r).entity = EntityOf(r)
         /\ Legible(r) => \E f \in DOMAIN r.stamp : Project(r).time = r.stamp[f].at
<1>1. PICK n \in Nat : \E keys, decision : Projected(r, Project(r), n, keys, decision)
  BY Projections
<1>2. PICK keys, decision : Projected(r, Project(r), n, keys, decision)
  BY <1>1
<1>3. /\ DOMAIN keys = 1..n /\ "none" \notin RangeOf(keys) /\ Created(r) \in RangeOf(keys)
      /\ Project(r).entity = EntityOf(r) /\ Project(r).time = ChooseTime(r, keys)
  BY <1>2 DEF Projected
<1>4. PICK ok : ok = {k \in DOMAIN r.stamp : r.stamp[k].form \in Readable(r.system)}
  OBVIOUS
<1>5. /\ FirstOf(keys, ok) = "none" <=> ok \cap RangeOf(keys) = {}
      /\ FirstOf(keys, ok) # "none" => FirstOf(keys, ok) \in ok \cap RangeOf(keys)
  BY <1>3, FirstFacts
<1>6. ChooseTime(r, keys) = IF FirstOf(keys, ok) = "none" THEN Fallback ELSE r.stamp[FirstOf(keys, ok)].at
  BY <1>4 DEF ChooseTime
<1>7. Fallback \in Nat /\ r.stamp \in [DOMAIN r.stamp -> Stamp]
  BY SyncAssumption DEF IsRaw
<1>8. \A f \in DOMAIN r.stamp : r.stamp[f].at \in Nat
  BY <1>7 DEF Stamp
<1>9. Project(r).time \in Nat
  BY <1>3, <1>4, <1>5, <1>6, <1>7, <1>8
<1>10. ASSUME Legible(r) PROVE \E f \in DOMAIN r.stamp : Project(r).time = r.stamp[f].at
  <2>1. Created(r) \in DOMAIN r.stamp /\ \A f \in DOMAIN r.stamp : r.stamp[f].form \in Readable(r.system)
    BY <1>10 DEF Legible, Created, Readable
  <2>2. Created(r) \in ok \cap RangeOf(keys)
    BY <1>3, <1>4, <2>1
  <2> QED
    BY <1>3, <1>4, <1>5, <1>6, <2>2
<1> QED
  BY <1>3, <1>9, <1>10

\* Within one vendor the entity tells the kind.
LEMMA EntityKind ==
  ASSUME NEW a, NEW b, IsRaw(a), IsRaw(b), a.system = b.system, EntityOf(a) = EntityOf(b)
  PROVE  a.kind = b.kind
BY DEF IsRaw, EntityOf, HiveKind, IrisKind

\* The stamp that makes the revision of a record with a last update is one an edit
\* renews.
LEMMA RevisionRenewed ==
  ASSUME NEW r, IsRaw(r), LastUpdates \cap DOMAIN r.stamp # {}
  PROVE  \E f \in LastUpdates \cap DOMAIN r.stamp :
           f = RevisionKey(r) /\ SourceRevision(r) = r.stamp[f]
<1> DEFINE D == DOMAIN r.stamp
           f == RevisionKey(r)
<1>1. r.system \in {"hive", "iris"} /\ D \subseteq StampFields(r.system)
  BY DEF IsRaw
<1>4. CASE "source_revision" \in D
  BY <1>4 DEF RevisionKey, SourceRevision, LastUpdates
<1>2. CASE "source_revision" \notin D /\ r.system = "hive"
  <2>1. \E p \in 1..2 : HiveRevisions[p] \in D
    BY <1>1, <1>2, RevisionLists DEF LastUpdates, StampFields
  <2>2. PICK p \in 1..2 : HiveRevisions[p] \in D
    BY <2>1
  <2>3. p \in 1..5 /\ HiveRevisions[p] \in RangeOf(HiveRevisions) /\ 5 \in Nat
    BY RevisionLists DEF RangeOf
  <2>4. /\ FirstOf(HiveRevisions, D) = "none" <=> D \cap RangeOf(HiveRevisions) = {}
        /\ FirstOf(HiveRevisions, D) # "none" =>
             /\ FirstOf(HiveRevisions, D) \in D \cap RangeOf(HiveRevisions)
             /\ \A q \in 1..5 : HiveRevisions[q] \in D => \E i \in 1..q : FirstOf(HiveRevisions, D) = HiveRevisions[i]
    BY <2>3, RevisionLists, FirstFacts
  <2>5. f = FirstOf(HiveRevisions, D) /\ f # "none" /\ f \in D
    BY <1>2, <2>2, <2>3, <2>4 DEF Revisions, RevisionKey
  <2>6. PICK i \in 1..p : f = HiveRevisions[i]
    BY <2>2, <2>3, <2>4, <2>5
  <2>7. i \in {1, 2}
    BY <2>6
  <2>8. f \in LastUpdates
    BY <2>6, <2>7, RevisionLists DEF LastUpdates
  <2> QED
    BY <2>5, <2>8 DEF SourceRevision
<1>3. CASE "source_revision" \notin D /\ r.system = "iris"
  <2>1. \E p \in 1..3 : IrisRevisions[p] \in D
    BY <1>3, RevisionLists DEF LastUpdates
  <2>2. PICK p \in 1..3 : IrisRevisions[p] \in D
    BY <2>1
  <2>3. p \in 1..11 /\ IrisRevisions[p] \in RangeOf(IrisRevisions) /\ 11 \in Nat
    BY RevisionLists DEF RangeOf
  <2>4. /\ FirstOf(IrisRevisions, D) = "none" <=> D \cap RangeOf(IrisRevisions) = {}
        /\ FirstOf(IrisRevisions, D) # "none" =>
             /\ FirstOf(IrisRevisions, D) \in D \cap RangeOf(IrisRevisions)
             /\ \A q \in 1..11 : IrisRevisions[q] \in D => \E i \in 1..q : FirstOf(IrisRevisions, D) = IrisRevisions[i]
    BY <2>3, RevisionLists, FirstFacts
  <2>5. f = FirstOf(IrisRevisions, D) /\ f # "none" /\ f \in D
    BY <1>3, <2>2, <2>3, <2>4 DEF Revisions, RevisionKey
  <2>6. PICK i \in 1..p : f = IrisRevisions[i]
    BY <2>2, <2>3, <2>4, <2>5
  <2>7. i \in {1, 2, 3}
    BY <2>6
  <2>8. f \in LastUpdates
    BY <2>6, <2>7, RevisionLists DEF LastUpdates
  <2> QED
    BY <2>5, <2>8 DEF SourceRevision
<1> QED
  BY <1>1, <1>2, <1>3, <1>4

-----------------------------------------------------------------------------
(* The vendors' steps.                                                      *)

LEMMA Numbers ==
  {Fallback, MaxEdits, MaxSyn} \subseteq Nat /\ Began \in Nat /\ Began = 3
BY SyncAssumption DEF Began

\* r becomes v, which its history allows.
Becomes(r, v) ==
  /\ IsRaw(v) /\ Alike(v, raw[r])
  /\ raw' = [raw EXCEPT ![r] = v] /\ past' = past \cup Versions(raw')
  /\ clock' \in {clock, clock + 1} /\ clock' \in Began..(Began + MaxEdits)
  /\ \/ v.stamp = raw[r].stamp
     \/ /\ clock' = clock + 1
        /\ \A f \in DOMAIN v.stamp : v.stamp[f].at < clock'
        /\ \A f \in Bumps \cap DOMAIN v.stamp : v.stamp[f].at = clock
  /\ UNCHANGED <<table, sent, syn>>

LEMMA VersionStep ==
  ASSUME SyncInv, NEW r \in Record, NEW v, Becomes(r, v)
  PROVE  SyncInv'
<1>1. /\ IsRaw(v) /\ Alike(v, raw[r]) /\ raw' = [raw EXCEPT ![r] = v] /\ past' = past \cup Versions(raw')
      /\ clock' \in {clock, clock + 1} /\ clock' \in Began..(Began + MaxEdits)
      /\ UNCHANGED <<table, sent, syn>>
  BY DEF Becomes
<1>2. /\ DOMAIN raw = Record /\ \A q \in Record : IsRaw(raw[q])
      /\ \A m \in past : m.rec \in Record /\ IsRaw(m.raw)
      /\ clock \in Nat /\ sent \subseteq past
  BY Numbers DEF SyncInv, TypeOK
<1>3. DOMAIN raw' = Record /\ \A q \in Record : raw'[q] = IF q = r THEN v ELSE raw[q]
  BY <1>1, <1>2
<1>4. PICK w : w = [rec |-> r, raw |-> v]
  OBVIOUS
<1>5. w.rec = r /\ w.raw = v
  BY <1>4
<1>6. \A m \in past' : m \in past \/ m = w
  <2>1. \A q \in Record : [rec |-> q, raw |-> raw'[q]] = w \/ [rec |-> q, raw |-> raw'[q]] \in past
    BY <1>3, <1>4 DEF SyncInv, VersionsOK
  <2> QED
    BY <1>1, <2>1 DEF Versions
<1>7. /\ past \subseteq past'
      /\ \A q \in Record : [rec |-> q, raw |-> raw'[q]] \in past'
  BY <1>1 DEF Versions
<1>8. TypeOK'
  <2>1. \A m \in past' : m.rec \in Record /\ IsRaw(m.raw)
    BY <1>1, <1>2, <1>5, <1>6
  <2>2. DOMAIN raw' = Record /\ \A q \in Record : IsRaw(raw'[q])
    BY <1>1, <1>2, <1>3
  <2>3. /\ \A k \in DOMAIN table : IsRaw(table[k].raw) /\ table[k].time \in Nat /\ table[k].status \in RowStatus
        /\ syn \in 0..MaxSyn
    BY DEF SyncInv, TypeOK
  <2> QED
    BY <1>1, <1>2, <1>7, <2>1, <2>2, <2>3 DEF TypeOK
<1>9. PICK u \in past : u.rec = r /\ u.raw = raw[r]
  BY DEF SyncInv, VersionsOK
<1>10. Origin'
  <2>1. PICK raws \in Initial : \A m \in past : m.rec \in Record /\ Alike(m.raw, raws[m.rec])
    BY DEF SyncInv, Origin
  <2>2. Alike(v, raws[r])
    BY <1>1, <1>9, <2>1 DEF Alike
  <2>3. \A m \in past' : m.rec \in Record /\ Alike(m.raw, raws[m.rec])
    BY <1>5, <1>6, <2>1, <2>2
  <2> QED
    BY <2>3 DEF Origin
<1>11. VersionsOK'
  <2>1. /\ \A m \in past : \A f \in DOMAIN m.raw.stamp : m.raw.stamp[f].at < clock
        /\ \A m, n \in past : \A f \in Bumps \cap DOMAIN m.raw.stamp :
             m.rec = n.rec /\ m.raw.stamp[f] = n.raw.stamp[f] => m.raw.stamp = n.raw.stamp
    BY DEF SyncInv, VersionsOK
  <2>2. \A m \in past : \A f \in DOMAIN m.raw.stamp : m.raw.stamp[f].at \in Nat
    BY <1>2 DEF IsRaw, Stamp
  <2>3. \A m \in past : \A f \in DOMAIN m.raw.stamp : m.raw.stamp[f].at < clock'
    BY <1>1, <1>2, <2>1, <2>2
  <2>4. \A m \in past : m.rec = r => DOMAIN m.raw.stamp = DOMAIN v.stamp
    BY <1>1, <1>9 DEF SyncInv, Origin, Alike
  <2>5. CASE v.stamp = raw[r].stamp
    <3>1. w.raw.stamp = u.raw.stamp /\ w.rec = u.rec
      BY <1>5, <1>9, <2>5
    <3>2. \A m \in past' : \E n \in past : m.raw.stamp = n.raw.stamp /\ m.rec = n.rec
      BY <1>6, <3>1
    <3>3. \A m \in past' : \A f \in DOMAIN m.raw.stamp : m.raw.stamp[f].at < clock'
      BY <2>3, <3>2
    <3>4. \A m, n \in past' : \A f \in Bumps \cap DOMAIN m.raw.stamp :
            m.rec = n.rec /\ m.raw.stamp[f] = n.raw.stamp[f] => m.raw.stamp = n.raw.stamp
      BY <2>1, <3>2
    <3> QED
      BY <1>7, <3>3, <3>4 DEF VersionsOK
  <2>6. CASE /\ \A f \in DOMAIN v.stamp : v.stamp[f].at < clock'
             /\ \A f \in Bumps \cap DOMAIN v.stamp : v.stamp[f].at = clock
    <3>1. \A m \in past' : \A f \in DOMAIN m.raw.stamp : m.raw.stamp[f].at < clock'
      BY <1>5, <1>6, <2>3, <2>6
    <3>2. \A m \in past : m.rec = r =>
            \A f \in Bumps \cap DOMAIN v.stamp : m.raw.stamp[f].at < clock /\ m.raw.stamp[f].at \in Nat
      BY <2>1, <2>2, <2>4
    <3>3. \A m \in past : m.rec = r =>
            \A f \in Bumps \cap DOMAIN v.stamp : m.raw.stamp[f] # v.stamp[f]
      BY <1>2, <2>6, <3>2
    <3>4. ASSUME NEW m \in past', NEW n \in past', NEW f \in Bumps \cap DOMAIN m.raw.stamp,
                 m.rec = n.rec, m.raw.stamp[f] = n.raw.stamp[f]
          PROVE  m.raw.stamp = n.raw.stamp
      <4>1. CASE m = w /\ n = w
        BY <4>1
      <4>2. CASE m = w /\ n \in past
        BY <1>5, <3>3, <3>4, <4>2
      <4>3. CASE m \in past /\ n = w
        BY <1>5, <2>4, <3>3, <3>4, <4>3
      <4>4. CASE m \in past /\ n \in past
        BY <2>1, <3>4, <4>4
      <4> QED
        BY <1>6, <4>1, <4>2, <4>3, <4>4
    <3> QED
      BY <1>7, <3>1, <3>4 DEF VersionsOK
  <2> QED
    BY <2>5, <2>6 DEF Becomes
<1>12. TableOK'
  BY <1>1 DEF SyncInv, TableOK
<1> QED
  BY <1>8, <1>10, <1>11, <1>12 DEF SyncInv

LEMMA EditStep ==
  ASSUME SyncInv, NEW r \in Record, NEW stamped \in BOOLEAN, Edit(r, stamped)
  PROVE  SyncInv'
<1>1. /\ DOMAIN raw = Record /\ IsRaw(raw[r]) /\ clock \in Began..(Began + MaxEdits) /\ clock \in Nat
  BY Numbers DEF SyncInv, TypeOK
<1>2. PICK o : o = raw[r]
  OBVIOUS
<1>3. PICK now \in Nat : now = clock
  BY <1>1
<1>4. PICK st : st = [f \in DOMAIN o.stamp |-> IF stamped /\ f \in Bumps THEN [o.stamp[f] EXCEPT !.at = now] ELSE o.stamp[f]]
  OBVIOUS
<1>5. PICK v : v = [o EXCEPT !.content = now, !.quiet = IF stamped THEN 0 ELSE @ + 1, !.stamp = st]
  OBVIOUS
<1>6. IsRaw(o) /\ o.stamp \in [DOMAIN o.stamp -> Stamp] /\ o.quiet \in Nat
  BY <1>1, <1>2 DEF IsRaw
<1>7. /\ v.system = o.system /\ v.kind = o.kind /\ v.id = o.id /\ v.type = o.type /\ v.whole = o.whole
      /\ v.ioc = o.ioc /\ v.sha = o.sha /\ v.secret = o.secret
      /\ v.content = now /\ v.quiet = (IF stamped THEN 0 ELSE o.quiet + 1) /\ v.stamp = st /\ DOMAIN v = DOMAIN o
  BY <1>5, <1>6 DEF IsRaw
<1>8. st \in [DOMAIN o.stamp -> Stamp] /\ DOMAIN st = DOMAIN o.stamp
  BY <1>4, <1>6 DEF Stamp
<1>9. IsRaw(v)
  BY <1>6, <1>7, <1>8 DEF IsRaw
<1>10. Alike(v, raw[r])
  BY <1>2, <1>7, <1>8 DEF Alike
<1>11. /\ raw' = [raw EXCEPT ![r] = v] /\ past' = past \cup Versions(raw') /\ clock' = clock + 1
       /\ clock' \in Began..(Began + MaxEdits) /\ UNCHANGED <<table, sent, syn>>
  <2>1. raw' = [raw EXCEPT ![r] = v]
    BY <1>1, <1>2, <1>3, <1>4, <1>5 DEF Edit
  <2>2. clock' = clock + 1 /\ clock < Began + MaxEdits
    BY DEF Edit
  <2>3. clock' \in Began..(Began + MaxEdits)
    BY <1>1, <2>2, Numbers
  <2> QED
    BY <2>1, <2>2, <2>3 DEF Edit
<1>12. CASE stamped
  <2>1. \A f \in DOMAIN o.stamp : o.stamp[f].at < clock /\ o.stamp[f] \in Stamp
    BY <1>2, <1>6 DEF SyncInv, VersionsOK
  <2>2. \A f \in DOMAIN st : st[f].at = IF f \in Bumps THEN now ELSE o.stamp[f].at
    BY <1>4, <1>12, <2>1 DEF Stamp
  <2>3. \A f \in DOMAIN st : o.stamp[f].at \in Nat
    BY <1>8, <2>1 DEF Stamp
  <2>4. \A f \in DOMAIN st : st[f].at < clock'
    BY <1>3, <1>8, <1>11, <2>1, <2>2, <2>3
  <2> QED
    BY <1>3, <1>7, <1>9, <1>10, <1>11, <2>2, <2>4, VersionStep DEF Becomes
<1>13. CASE ~stamped
  <2>1. st = o.stamp
    BY <1>4, <1>6, <1>13
  <2> QED
    BY <1>2, <1>7, <1>9, <1>10, <1>11, <2>1, VersionStep DEF Becomes
<1> QED
  BY <1>12, <1>13

LEMMA MarkIocStep ==
  ASSUME SyncInv, NEW r \in Record, MarkIoc(r)
  PROVE  SyncInv'
<1>1. /\ DOMAIN raw = Record /\ IsRaw(raw[r]) /\ clock \in Began..(Began + MaxEdits)
  BY DEF SyncInv, TypeOK
<1>2. PICK o : o = raw[r]
  OBVIOUS
<1>3. PICK v : v = [o EXCEPT !.ioc = TRUE]
  OBVIOUS
<1>4. /\ v.system = o.system /\ v.kind = o.kind /\ v.id = o.id /\ v.type = o.type /\ v.whole = o.whole
      /\ v.ioc = TRUE /\ v.sha = o.sha /\ v.secret = o.secret
      /\ v.content = o.content /\ v.quiet = o.quiet /\ v.stamp = o.stamp /\ DOMAIN v = DOMAIN o
  BY <1>1, <1>2, <1>3 DEF IsRaw
<1>5. IsRaw(v) /\ Alike(v, raw[r])
  BY <1>1, <1>2, <1>4 DEF IsRaw, Alike
<1>6. /\ raw' = [raw EXCEPT ![r] = v] /\ past' = past \cup Versions(raw') /\ clock' = clock
      /\ UNCHANGED <<table, sent, syn>>
  BY <1>1, <1>2, <1>3 DEF MarkIoc
<1> QED
  BY <1>1, <1>2, <1>4, <1>5, <1>6, VersionStep DEF Becomes

-----------------------------------------------------------------------------
(* Posting.                                                                 *)

LEMMA KeyIs == ASSUME NEW r PROVE Key(r) = KeyWith(r, syn) /\ (SourceId(r).made <=> NoId(r))
BY DEF Key, KeyWith, SourceId, NoId

LEMMA KeyWithFacts ==
  ASSUME NEW r, NEW q, NEW s, NEW t
  PROVE  /\ KeyWith(r, s) = KeyWith(q, t) =>
              /\ r.system = q.system /\ Project(r).entity = Project(q).entity
              /\ SourceRevision(r) = SourceRevision(q) /\ (NoId(r) <=> NoId(q))
              /\ NoId(r) => s = t
              /\ ~NoId(r) => r.id[IdKey(r)] = q.id[IdKey(q)]
         /\ ~NoId(r) => KeyWith(r, s) = KeyWith(r, t)
<1> DEFINE id(x, n) == IF NoId(x) THEN [made |-> TRUE, n |-> n] ELSE [made |-> FALSE, n |-> x.id[IdKey(x)]]
<1>1. ASSUME id(r, s) = id(q, t)
      PROVE  (NoId(r) <=> NoId(q)) /\ (NoId(r) => s = t) /\ (~NoId(r) => r.id[IdKey(r)] = q.id[IdKey(q)])
  <2>1. /\ id(r, s).made = id(q, t).made /\ id(r, s).n = id(q, t).n
    BY <1>1
  <2>2. /\ (id(r, s).made <=> NoId(r)) /\ (id(q, t).made <=> NoId(q))
        /\ id(r, s).n = (IF NoId(r) THEN s ELSE r.id[IdKey(r)])
        /\ id(q, t).n = (IF NoId(q) THEN t ELSE q.id[IdKey(q)])
    OBVIOUS
  <2> QED
    BY <2>1, <2>2
<1>2. ASSUME KeyWith(r, s) = KeyWith(q, t)
      PROVE  /\ r.system = q.system /\ Project(r).entity = Project(q).entity
             /\ SourceRevision(r) = SourceRevision(q) /\ id(r, s) = id(q, t)
  <2>1. /\ KeyWith(r, s).system = r.system /\ KeyWith(q, t).system = q.system
        /\ KeyWith(r, s).entity = Project(r).entity /\ KeyWith(q, t).entity = Project(q).entity
        /\ KeyWith(r, s).rev = SourceRevision(r) /\ KeyWith(q, t).rev = SourceRevision(q)
        /\ KeyWith(r, s).id = id(r, s) /\ KeyWith(q, t).id = id(q, t)
    BY DEF KeyWith
  <2> QED
    BY <1>2, <2>1
<1>3. ~NoId(r) => KeyWith(r, s) = KeyWith(r, t)
  BY DEF KeyWith
<1> QED
  BY <1>1, <1>2, <1>3

\* A row reused for a snapshot keeps what it holds, and a conflict stays one.
LEMMA ReusedFacts ==
  ASSUME NEW row, NEW r, row = [raw |-> row.raw, time |-> row.time, status |-> row.status],
         row.status \in RowStatus
  PROVE  /\ Reused(row, r).raw = row.raw /\ Reused(row, r).time = row.time
         /\ Reused(row, r) = [raw |-> row.raw, time |-> row.time, status |-> Reused(row, r).status]
         /\ Reused(row, r).status \in RowStatus
         /\ row.raw # r => Reused(row, r).status = "conflict"
         /\ row.status = "conflict" => Reused(row, r).status = "conflict"
<1>1. PICK st : st = IF row.raw # r THEN "conflict"
                     ELSE IF row.status \in {"duplicate", "conflict"} THEN row.status ELSE "duplicate"
  OBVIOUS
<1>2. Reused(row, r) = [row EXCEPT !.status = st]
  BY <1>1 DEF Reused
<1>3. [row EXCEPT !.status = st] = [raw |-> row.raw, time |-> row.time, status |-> st]
  OBVIOUS
<1> QED
  BY <1>1, <1>2, <1>3 DEF RowStatus

LEMMA NewRowFacts ==
  ASSUME NEW r, IsRaw(r)
  PROVE  /\ NewRow(r).raw = r /\ NewRow(r).time = Project(r).time /\ NewRow(r).time \in Nat
         /\ NewRow(r).status \in RowStatus
         /\ NewRow(r) = [raw |-> r, time |-> Project(r).time, status |-> NewRow(r).status]
BY ProjectFacts DEF NewRow, RowStatus

LEMMA PostStep ==
  ASSUME SyncInv, NEW m \in past, Post(m), Admissible(m.raw)
  PROVE  SyncInv'
<1>1. /\ UNCHANGED <<raw, clock, past>> /\ table' = Stored(m.raw) /\ sent' = sent \cup {m}
      /\ syn' = (IF SourceId(m.raw).made THEN syn + 1 ELSE syn)
      /\ SourceId(m.raw).made => syn < MaxSyn
  BY DEF Post
<1>2. PICK r : r = m.raw
  OBVIOUS
<1>3. PICK c \in Nat : c = syn /\ c \in 0..MaxSyn
  BY Numbers DEF SyncInv, TypeOK
<1>4. PICK key : key = KeyWith(r, c)
  OBVIOUS
<1>5. key = Key(m.raw) /\ syn' = (IF NoId(r) THEN c + 1 ELSE c) /\ (NoId(r) => c < MaxSyn) /\ IsRaw(r)
  BY <1>1, <1>2, <1>3, <1>4, KeyIs DEF SyncInv, TypeOK
<1>6. syn' \in Nat /\ syn' \in 0..MaxSyn /\ c <= syn' /\ (NoId(r) => c < syn')
  BY <1>3, <1>5, Numbers
<1>7. /\ DOMAIN table' = DOMAIN table \cup {key}
      /\ \A k \in DOMAIN table : k # key => table'[k] = table[k]
      /\ key \in DOMAIN table => table'[key] = Reused(table[key], r)
      /\ key \notin DOMAIN table => table'[key] = NewRow(r)
  BY <1>1, <1>2, <1>5 DEF Stored
<1>8. \A k \in DOMAIN table : /\ RowOK(k, table[k], sent, c)
                              /\ IsRaw(table[k].raw) /\ table[k].time \in Nat /\ table[k].status \in RowStatus
  BY <1>3 DEF SyncInv, TypeOK, TableOK
\* A made id is new.
<1>9. key \in DOMAIN table => ~NoId(r)
  <2> SUFFICES ASSUME key \in DOMAIN table, NoId(r) PROVE FALSE
    OBVIOUS
  <2>1. PICK q : q = table[key].raw
    OBVIOUS
  <2>2. PICK t \in Nat : key = KeyWith(q, t) /\ (NoId(q) => t < c)
    BY <1>8, <2>1 DEF RowOK
  <2>4. KeyWith(r, c) = KeyWith(q, t)
    BY <1>4, <2>2
  <2>5. (NoId(r) <=> NoId(q)) /\ (NoId(r) => c = t)
    BY <2>4, KeyWithFacts
  <2>3. NoId(q) /\ t = c
    BY <2>5
  <2> QED
    BY <1>3, <2>2, <2>3
\* A row that was there stays, with what it holds.
<1>10. ASSUME NEW k \in DOMAIN table
       PROVE  /\ k \in DOMAIN table' /\ table'[k].raw = table[k].raw /\ table'[k].time = table[k].time
              /\ table'[k] = [raw |-> table[k].raw, time |-> table[k].time, status |-> table'[k].status]
              /\ table'[k].status \in RowStatus
              /\ table[k].status = "conflict" => table'[k].status = "conflict"
  <2>1. PICK row : row = table[k]
    OBVIOUS
  <2>2. row = [raw |-> row.raw, time |-> row.time, status |-> row.status] /\ row.status \in RowStatus
    BY <1>8, <2>1 DEF RowOK
  <2>3. CASE k = key
    BY <1>7, <2>1, <2>2, <2>3, ReusedFacts
  <2>4. CASE k # key
    <3>1. k \in DOMAIN table' /\ table'[k] = row
      BY <1>7, <2>1, <2>4
    <3> QED
      BY <2>1, <2>2, <3>1
  <2> QED
    BY <2>3, <2>4
<1>11. ASSUME NEW k \in DOMAIN table PROVE RowOK(k, table'[k], sent', syn')
  <2>1. PICK q : q = table[k].raw
    OBVIOUS
  <2>2. PICK t \in Nat : k = KeyWith(q, t) /\ (NoId(q) => t < c)
    BY <1>8, <2>1 DEF RowOK
  <2>3. PICK n \in sent : n.raw = q
    BY <1>8, <2>1 DEF RowOK
  <2>4. table'[k].raw = q /\ table'[k].time = Project(q).time
    BY <1>8, <1>10, <2>1 DEF RowOK
  <2>5. table'[k] = [raw |-> table'[k].raw, time |-> table'[k].time, status |-> table'[k].status]
    BY <1>10
  <2>6. n \in sent' /\ (NoId(q) => t < syn')
    BY <1>1, <1>3, <1>6, <2>2
  <2> QED
    BY <2>2, <2>3, <2>4, <2>5, <2>6 DEF RowOK
<1>12. ASSUME key \notin DOMAIN table PROVE RowOK(key, table'[key], sent', syn') /\ table'[key] = NewRow(r)
  <2>1. table'[key] = NewRow(r)
    BY <1>7, <1>12
  <2>2. /\ NewRow(r).raw = r /\ NewRow(r).time = Project(r).time
        /\ NewRow(r) = [raw |-> r, time |-> Project(r).time, status |-> NewRow(r).status]
    BY <1>5, NewRowFacts
  <2>3. NewRow(r) = [raw |-> NewRow(r).raw, time |-> NewRow(r).time, status |-> NewRow(r).status]
    BY <2>2
  <2>4. m \in sent' /\ m.raw = r /\ c \in Nat /\ key = KeyWith(r, c) /\ (NoId(r) => c < syn')
    BY <1>1, <1>2, <1>4, <1>6
  <2> QED
    BY <2>1, <2>2, <2>3, <2>4 DEF RowOK
<1>13. \A k \in DOMAIN table' : RowOK(k, table'[k], sent', syn')
  BY <1>7, <1>11, <1>12
<1>14. ASSUME NEW n \in sent PROVE Kept(n, table') /\ Keyed(n, table')
  <2>1. Kept(n, table) /\ Keyed(n, table)
    BY DEF SyncInv, TableOK
  <2> QED
    BY <1>7, <1>10, <2>1 DEF Kept, Keyed
<1>15. Kept(m, table') /\ Keyed(m, table')
  <2>1. key \in DOMAIN table' /\ (~NoId(r) => key = KeyWith(r, 0))
    BY <1>4, <1>7, KeyWithFacts
  <2>2. Keyed(m, table')
    BY <1>2, <2>1 DEF Keyed
  <2>3. CASE key \notin DOMAIN table
    <3>1. table'[key].raw = r
      BY <1>5, <1>12, <2>3, NewRowFacts
    <3> QED
      BY <1>2, <2>1, <2>2, <3>1 DEF Kept
  <2>4. CASE key \in DOMAIN table /\ table[key].raw = r
    <3>1. table'[key].raw = r
      BY <1>10, <2>4
    <3> QED
      BY <1>2, <2>1, <2>2, <3>1 DEF Kept
  <2>5. CASE key \in DOMAIN table /\ table[key].raw # r
    <3>1. PICK row : row = table[key]
      OBVIOUS
    <3>2. row = [raw |-> row.raw, time |-> row.time, status |-> row.status] /\ row.status \in RowStatus
      BY <1>8, <2>5, <3>1 DEF RowOK
    <3>3. table'[key].status = "conflict"
      BY <1>7, <2>5, <3>1, <3>2, ReusedFacts
    <3> QED
      BY <1>2, <1>9, <2>1, <2>2, <2>5, <3>3 DEF Kept
  <2> QED
    BY <2>3, <2>4, <2>5
<1>16. TableOK'
  BY <1>1, <1>13, <1>14, <1>15 DEF TableOK, Kept, Keyed, RowOK
<1>17. TypeOK'
  <2>1. ASSUME NEW k \in DOMAIN table' PROVE IsRaw(table'[k].raw) /\ table'[k].time \in Nat /\ table'[k].status \in RowStatus
    <3>1. CASE k \in DOMAIN table
      BY <1>8, <1>10, <3>1
    <3>2. CASE k \notin DOMAIN table
      BY <1>5, <1>7, <1>12, <3>2, NewRowFacts
    <3> QED
      BY <3>1, <3>2
  <2>2. sent' \subseteq past'
    BY <1>1 DEF SyncInv, TypeOK
  <2> QED
    BY <1>1, <1>6, <2>1, <2>2 DEF SyncInv, TypeOK
<1>18. Origin' /\ VersionsOK'
  BY <1>1 DEF SyncInv, Origin, VersionsOK
<1> QED
  BY <1>16, <1>17, <1>18 DEF SyncInv

-----------------------------------------------------------------------------
(* The theorems.                                                            *)

LEMMA SyncInit == Init => SyncInv
<1> SUFFICES ASSUME Init PROVE SyncInv
  OBVIOUS
<1>1. /\ raw \in Initial /\ clock = Began /\ past = Versions(raw) /\ sent = {} /\ table = [k \in {} |-> 0] /\ syn = 0
      /\ DOMAIN table = {}
  BY DEF Init
<1>2. DOMAIN raw = Record /\ \A r \in Record : IsRaw(raw[r])
  BY <1>1, SyncAssumption
<1>3. \A m \in past : m.rec \in Record /\ m.raw = raw[m.rec]
  BY <1>1 DEF Versions
<1>4. TypeOK
  <2>1. clock \in Began..(Began + MaxEdits) /\ syn \in 0..MaxSyn
    BY <1>1, Numbers
  <2> QED
    BY <1>1, <1>2, <1>3, <2>1 DEF TypeOK
<1>5. Origin
  BY <1>1, <1>3 DEF Origin, Alike
<1>6. VersionsOK
  <2>1. \A r \in Record : \A f \in DOMAIN raw[r].stamp : raw[r].stamp[f].at < Began
    BY <1>1, VendorAssumption
  <2> QED
    BY <1>1, <1>3, <2>1 DEF VersionsOK, Versions
<1>7. TableOK
  BY <1>1 DEF TableOK
<1> QED
  BY <1>4, <1>5, <1>6, <1>7 DEF SyncInv

LEMMA SyncNext == SyncInv /\ [Next]_vars => SyncInv'
<1> SUFFICES ASSUME SyncInv, [Next]_vars PROVE SyncInv'
  OBVIOUS
<1>1. CASE UNCHANGED vars
  BY <1>1 DEF vars, SyncInv, TypeOK, Origin, VersionsOK, TableOK
<1>2. ASSUME NEW m \in past, Post(m), ~Admissible(m.raw) PROVE SyncInv'
  <2>1. UNCHANGED vars
    BY <1>2 DEF Post, vars
  <2> QED
    BY <2>1 DEF vars, SyncInv, TypeOK, Origin, VersionsOK, TableOK
<1> QED
  BY <1>1, <1>2, PostStep, EditStep, MarkIocStep DEF Next

\* What repeated intake keeps true of the vendors' versions, the table and the ids
\* made up.
THEOREM SyncInvariant == Spec => []SyncInv
<1> QED
  BY SyncInit, SyncNext, PTL DEF Spec

\* Snapshots, rows and counters keep their types; store_preview gives a row no
\* status the column does not know.
THEOREM SyncTypeCorrect == Spec => []TypeOK
<1>1. SyncInv => TypeOK
  BY DEF SyncInv
<1> QED
  BY <1>1, SyncInvariant, PTL

\* store_preview: a version that was admitted is in the table or its key is a
\* conflict, for any versions in any order and any number of times.
THEOREM NothingSwallowed == Spec => []NoVersionSwallowed
<1>1. SyncInv => NoVersionSwallowed
  <2> SUFFICES ASSUME SyncInv, NEW m \in sent
               PROVE  \E k \in DOMAIN table : \/ table[k].raw = m.raw
                                              \/ k = Key(m.raw) /\ table[k].status = "conflict"
    BY DEF NoVersionSwallowed
  <2>1. Kept(m, table)
    BY DEF SyncInv, TableOK
  <2>2. PICK r : r = m.raw
    OBVIOUS
  <2>3. ~NoId(r) => KeyWith(r, 0) = KeyWith(r, syn)
    BY KeyWithFacts
  <2>4. Key(r) = KeyWith(r, syn)
    BY KeyIs
  <2> QED
    BY <2>1, <2>2, <2>3, <2>4 DEF Kept
<1> QED
  BY <1>1, SyncInvariant, PTL

\* Snapshots of records that can be told apart, posted under one key, are of one
\* record.
LEMMA OneRecord ==
  ASSUME SyncInv, NEW m \in past, NEW n \in past, NEW s, NEW t, Identified(m.raw), Identified(n.raw),
         KeyWith(m.raw, s) = KeyWith(n.raw, t)
  PROVE  m.rec = n.rec
<1>1. PICK raws \in Initial : \A u \in past : u.rec \in Record /\ Alike(u.raw, raws[u.rec])
  BY DEF SyncInv, Origin
<1>2. IsRaw(m.raw) /\ IsRaw(n.raw)
  BY DEF SyncInv, TypeOK
<1>3. /\ ~NoId(m.raw) /\ m.raw.id[IdKey(m.raw)] \in OwnIds(m.raw)
      /\ ~NoId(n.raw) /\ n.raw.id[IdKey(n.raw)] \in OwnIds(n.raw)
  BY <1>2, IdKeyFacts
<1>4. /\ m.raw.system = n.raw.system /\ Project(m.raw).entity = Project(n.raw).entity
      /\ m.raw.id[IdKey(m.raw)] = n.raw.id[IdKey(n.raw)]
  BY <1>3, KeyWithFacts
<1>5. m.raw.kind = n.raw.kind
  BY <1>2, <1>4, EntityKind, ProjectFacts
<1>6. OwnIds(m.raw) = OwnIds(raws[m.rec]) /\ OwnIds(n.raw) = OwnIds(raws[n.rec])
  BY <1>1 DEF Alike, OwnIds
<1>7. raws[m.rec].system = raws[n.rec].system /\ raws[m.rec].kind = raws[n.rec].kind
  BY <1>1, <1>4, <1>5 DEF Alike
<1>8. OwnIds(raws[m.rec]) \cap OwnIds(raws[n.rec]) # {}
  BY <1>3, <1>4, <1>6
<1> QED
  BY <1>1, <1>7, <1>8, VendorAssumption

\* _source_id and idempotency_key: two records that can be told apart never meet
\* under one key, whatever ids, cases and revisions their snapshots carry.
THEOREM RecordsStayApart == Spec => []RecordsApart
<1>1. SyncInv => RecordsApart
  <2> SUFFICES ASSUME SyncInv, NEW m \in sent, NEW n \in sent, Identified(m.raw), Identified(n.raw),
                      Key(m.raw) = Key(n.raw)
               PROVE  m.rec = n.rec
    BY DEF RecordsApart
  <2>1. KeyWith(m.raw, syn) = KeyWith(n.raw, syn)
    BY KeyIs
  <2>2. m \in past /\ n \in past
    BY DEF SyncInv, TypeOK
  <2> QED
    BY <2>1, <2>2, OneRecord
<1> QED
  BY <1>1, SyncInvariant, PTL

\* A version with a renewed last update has a row of its own under its key, unless
\* the vendor changed the record twice under one stamp or an item that goes by its
\* case's id came under the same key (_source_id, _source_revision).
THEOREM StampedEditsKept == Spec => []StampedEditReviewed
<1>1. SyncInv => StampedEditReviewed
  <2> SUFFICES ASSUME SyncInv, NEW m \in sent, Identified(m.raw), LastUpdates \cap DOMAIN m.raw.stamp # {}
               PROVE  \/ table[Key(m.raw)].raw = m.raw
                      \/ \E n \in sent : n # m /\ n.rec = m.rec /\ n.raw.stamp = m.raw.stamp
                      \/ \E n \in sent : ~Identified(n.raw) /\ Key(n.raw) = Key(m.raw)
    BY DEF StampedEditReviewed
  <2>1. PICK r : r = m.raw
    OBVIOUS
  <2>2. m \in past /\ IsRaw(r) /\ ~NoId(r)
    BY <2>1, IdKeyFacts DEF SyncInv, TypeOK
  <2>3. PICK key : key = KeyWith(r, 0)
    OBVIOUS
  <2>4. key \in DOMAIN table
    BY <2>1, <2>2, <2>3 DEF SyncInv, TableOK, Keyed
  <2>5. Key(m.raw) = key
    <3>1. Key(r) = KeyWith(r, syn) /\ KeyWith(r, 0) = KeyWith(r, syn)
      BY <2>2, KeyIs, KeyWithFacts
    <3> QED
      BY <2>1, <2>3, <3>1
  <2>6. PICK q : q = table[key].raw
    OBVIOUS
  <2>7. RowOK(key, table[key], sent, syn)
    BY <2>4 DEF SyncInv, TableOK
  <2>8. PICK n \in sent : n.raw = q
    BY <2>6, <2>7 DEF RowOK
  <2>9. PICK t \in Nat : key = KeyWith(q, t)
    BY <2>6, <2>7 DEF RowOK
  <2>10. CASE q = r
    BY <2>1, <2>5, <2>6, <2>10
  <2>12. CASE ~Identified(q)
    <3>1. Key(q) = KeyWith(q, syn) /\ KeyWith(q, t) = KeyWith(r, 0)
      BY <2>3, <2>9, KeyIs
    <3>2. ~NoId(q)
      BY <2>2, <3>1, KeyWithFacts
    <3>3. Key(q) = Key(m.raw)
      BY <2>3, <2>5, <3>1, <3>2, KeyWithFacts
    <3> QED
      BY <2>8, <2>12, <3>3
  <2>11. CASE q # r /\ Identified(q)
    <3>1. n \in past /\ KeyWith(m.raw, 0) = KeyWith(n.raw, t) /\ n # m
      BY <2>1, <2>3, <2>8, <2>9, <2>11 DEF SyncInv, TypeOK
    <3>2. Identified(n.raw)
      BY <2>8, <2>11
    <3>3. m.rec = n.rec
      BY <2>2, <3>1, <3>2, OneRecord
    <3>4. PICK f \in LastUpdates \cap DOMAIN r.stamp :
            f = RevisionKey(r) /\ SourceRevision(r) = r.stamp[f]
      BY <2>1, <2>2, RevisionRenewed
    <3>5. DOMAIN q.stamp = DOMAIN r.stamp /\ q.system = r.system
      BY <2>1, <2>2, <2>8, <3>1, <3>3 DEF SyncInv, Origin, Alike
    <3>6. SourceRevision(q) = q.stamp[f]
      <4>1. f # "none"
        BY DEF LastUpdates
      <4>2. RevisionKey(q) = f
        BY <3>4, <3>5 DEF Revisions, RevisionKey
      <4> QED
        BY <4>1, <4>2 DEF SourceRevision
    <3>7. SourceRevision(r) = SourceRevision(q)
      BY <2>1, <2>8, <3>1, KeyWithFacts
    <3>8. f \in Bumps \cap DOMAIN m.raw.stamp /\ m.raw.stamp[f] = n.raw.stamp[f]
      BY <2>1, <2>8, <3>4, <3>6, <3>7, VendorAssumption
    <3>9. m.raw.stamp = n.raw.stamp
      BY <2>2, <3>1, <3>3, <3>8 DEF SyncInv, VersionsOK
    <3> QED
      BY <3>1, <3>3, <3>9
  <2> QED
    BY <2>10, <2>11, <2>12
<1> QED
  BY <1>1, SyncInvariant, PTL

\* _choose_ts and the projections: rows keep the order of the vendors' times, across
\* vendors, kinds and the ways a time with a zone is written.
THEOREM TimesInOrder == Spec => []TimelineOrder
<1>1. SyncInv => TimelineOrder
  <2> SUFFICES ASSUME SyncInv, NEW k \in DOMAIN table, NEW l \in DOMAIN table,
                      Legible(table[k].raw), Legible(table[l].raw),
                      \A f \in DOMAIN table[k].raw.stamp, g \in DOMAIN table[l].raw.stamp :
                        table[k].raw.stamp[f].at < table[l].raw.stamp[g].at
               PROVE  table[k].time < table[l].time
    BY DEF TimelineOrder
  <2>1. PICK a : a = table[k].raw
    OBVIOUS
  <2>2. PICK b : b = table[l].raw
    OBVIOUS
  <2>3. IsRaw(a) /\ IsRaw(b) /\ table[k].time = Project(a).time /\ table[l].time = Project(b).time
    BY <2>1, <2>2 DEF SyncInv, TypeOK, TableOK, RowOK
  <2>4. PICK f \in DOMAIN a.stamp : Project(a).time = a.stamp[f].at
    BY <2>1, <2>3, ProjectFacts
  <2>5. PICK g \in DOMAIN b.stamp : Project(b).time = b.stamp[g].at
    BY <2>2, <2>3, ProjectFacts
  <2> QED
    BY <2>1, <2>2, <2>3, <2>4, <2>5
<1> QED
  BY <1>1, SyncInvariant, PTL
=============================================================================
