----------------------- MODULE IngestEnvelopesProofs -----------------------
(***************************************************************************)
(* Proofs about IngestEnvelopes, for any clients, keys, items, batches and  *)
(* faults.                                                                 *)
(***************************************************************************)
EXTENDS IngestEnvelopes, TLAPS

\* A request in progress has an item left; once it saw a conflict its key has a
\* row, and the row it read has the digest the row has now.
RequestOK(r) ==
  /\ r.pc # "idle" => Len(r.results) < Len(r.batch)
  /\ Len(r.results) <= Len(r.batch)
  /\ r.pc \in {"select", "update"} => row[r.batch[Len(r.results) + 1].key] # None
  /\ r.pc = "update" => /\ r.saw \in Row
                        /\ r.saw.sha = row[r.batch[Len(r.results) + 1].key].sha

RequestsOK == \A c \in Client : RequestOK(req[c])

\* A row under review was not applied to any target yet, and only statuses the
\* code writes occur.
RowsOK ==
  \A k \in Key : row[k] # None =>
    /\ row[k].status \in {"preview", "approved", "applied", "duplicate", "quarantined", "conflict"}
    /\ row[k].status \in {"preview", "approved"} => row[k].target = None

IngestInv == TypeOK /\ RequestsOK /\ RowsOK /\ NoSilentMismatch

\* What may happen to the table in one step: rows stay, with their digest.
RowsKept == \A k \in Key : row[k] # None => row'[k] # None /\ row'[k].sha = row[k].sha

-----------------------------------------------------------------------------

LEMMA CurrentItem ==
  ASSUME TypeOK, RequestsOK, NEW c \in Client, req[c].pc # "idle"
  PROVE  Current(c) \in Item
<1>1. req[c] \in Request /\ Len(req[c].results) < Len(req[c].batch)
  BY DEF TypeOK, RequestsOK, RequestOK
<1>2. Len(req[c].results) + 1 \in 1..Len(req[c].batch)
  BY <1>1 DEF Request
<1> QED
  BY <1>1, <1>2, IngestAssumption DEF Current, Request

\* A client that does not move keeps what it knows when rows are kept.
LEMMA OthersKept ==
  ASSUME IngestInv, RowsKept, TypeOK', NEW d \in Client, req'[d] = req[d]
  PROVE  /\ RequestOK(req[d])'
         /\ \A n \in 1..Len(req[d].results) :
              Category(req[d].results[n]) \in {"accepted", "duplicate", "quarantined"}
                => /\ row'[req[d].batch[n].key] # None
                   /\ row'[req[d].batch[n].key].sha = req[d].batch[n].sha
<1>1. req[d] \in Request /\ RequestOK(req[d])
  BY DEF IngestInv, TypeOK, RequestsOK
<1>2. \A n \in 1..Len(req[d].batch) : req[d].batch[n].key \in Key
  BY <1>1, IngestAssumption DEF Request, Item
<1>3. Len(req[d].results) \in Nat /\ Len(req[d].batch) \in Nat
  BY <1>1 DEF Request
<1>4. RequestOK(req[d])'
  <2>1. CASE req[d].pc \in {"select", "update"}
    <3>1. req[d].batch[Len(req[d].results) + 1].key \in Key
      BY <1>1, <1>2, <1>3, <2>1 DEF RequestOK
    <3> QED
      BY <1>1, <2>1, <3>1 DEF RequestOK, RowsKept
  <2>2. CASE req[d].pc \notin {"select", "update"}
    BY <1>1, <2>2 DEF RequestOK
  <2> QED
    BY <2>1, <2>2
<1>5. ASSUME NEW n \in 1..Len(req[d].results),
             Category(req[d].results[n]) \in {"accepted", "duplicate", "quarantined"}
      PROVE  /\ row'[req[d].batch[n].key] # None
             /\ row'[req[d].batch[n].key].sha = req[d].batch[n].sha
  <2>1. req[d].batch[n].key \in Key
    BY <1>1, <1>2, <1>3 DEF RequestOK
  <2> QED
    BY <1>5, <2>1 DEF IngestInv, NoSilentMismatch, RowsKept
<1> QED
  BY <1>4, <1>5

\* Appending a result for the current item: fine if the table bears it out.
LEMMA ResultOK ==
  ASSUME IngestInv, RowsKept, row' \in [Key -> Row \cup {None}],
         NEW c \in Client, req[c].pc # "idle",
         NEW status \in Status, Result(c, status),
         Category(status) \in {"accepted", "duplicate", "quarantined"}
           => row'[Current(c).key] # None /\ row'[Current(c).key].sha = Current(c).sha
  PROVE  TypeOK' /\ RequestsOK' /\ NoSilentMismatch'
<1> DEFINE old == req[c]
           new == req'[c]
<1>1. old \in Request /\ RequestOK(old)
  BY DEF IngestInv, TypeOK, RequestsOK
<1>2. /\ new.results = Append(old.results, status) /\ new.batch = old.batch
      /\ new.pc \in {"idle", "project"} /\ new.saw = None /\ new.code \in {"none", "200"}
      /\ new.pc = "project" => Len(old.results) + 1 # Len(old.batch)
      /\ new \in Request
  <2> DEFINE done == Len(old.results) + 1 = Len(old.batch)
  <2>1. new = [old EXCEPT !.results = Append(@, status), !.saw = None,
                          !.pc = IF done THEN "idle" ELSE "project",
                          !.code = IF done THEN "200" ELSE "none"]
    BY DEF Result, IngestInv, TypeOK
  <2>2. Append(old.results, status) \in Seq(Status)
    BY <1>1 DEF Request
  <2> HIDE DEF old, new
  <2> QED
    BY <1>1, <2>1, <2>2 DEF Request
<1>3. \A d \in Client \ {c} : req'[d] = req[d]
  BY DEF Result, IngestInv, TypeOK
<1>4. TypeOK'
  BY <1>2, <1>3 DEF Result, IngestInv, TypeOK
<1>5. Len(old.results) \in Nat /\ Len(old.batch) \in Nat /\ Len(new.results) = Len(old.results) + 1
  BY <1>1, <1>2 DEF Request
<1>6. Len(old.results) < Len(old.batch)
  BY <1>1 DEF RequestOK
<1>7. RequestOK(req[c])'
  BY <1>2, <1>5, <1>6 DEF RequestOK
<1>8. RequestsOK'
  BY <1>3, <1>4, <1>7, OthersKept DEF RequestsOK
<1>9. ASSUME NEW d \in Client, NEW n \in 1..Len(req'[d].results),
             Category(req'[d].results[n]) \in {"accepted", "duplicate", "quarantined"}
      PROVE  /\ row'[req'[d].batch[n].key] # None
             /\ row'[req'[d].batch[n].key].sha = req'[d].batch[n].sha
  <2>1. CASE d # c
    BY <1>3, <1>4, <1>9, <2>1, OthersKept
  <2>2. CASE d = c /\ n = Len(old.results) + 1
    <3>1. req'[d].results[n] = status
      BY <1>1, <1>2, <1>5, <2>2 DEF Request
    <3>2. req'[d].batch[n] = Current(c)
      BY <1>2, <2>2 DEF Current
    <3> QED
      BY <1>9, <3>1, <3>2
  <2>3. CASE d = c /\ n # Len(old.results) + 1
    <3>1. n \in 1..Len(old.results)
      BY <1>5, <2>3
    <3>2. req'[d].results[n] = old.results[n]
      <4>1. old.results \in Seq(Status) /\ req'[d].results = Append(old.results, status)
        BY <1>1, <1>2, <2>3 DEF Request
      <4> HIDE DEF old
      <4> QED
        BY <3>1, <4>1
    <3>3. old.batch[n].key \in Key
      BY <1>1, <1>5, <1>6, <3>1, IngestAssumption DEF Request, Item
    <3>4. Category(old.results[n]) \in {"accepted", "duplicate", "quarantined"}
      BY <1>9, <3>2
    <3>5. row[old.batch[n].key] # None /\ row[old.batch[n].key].sha = old.batch[n].sha
      BY <3>1, <3>4 DEF IngestInv, NoSilentMismatch
    <3>6. req'[d].batch[n] = old.batch[n]
      BY <1>2, <2>3
    <3> HIDE DEF old
    <3> QED
      BY <3>3, <3>5, <3>6 DEF RowsKept
  <2> QED
    BY <2>1, <2>2, <2>3
<1> QED
  BY <1>4, <1>8, <1>9 DEF NoSilentMismatch

\* A request moves to another label, keeping its batch and its results.
LEMMA MoveOK ==
  ASSUME IngestInv, UNCHANGED row, NEW c \in Client, NEW s, req' = [req EXCEPT ![c] = s],
         s \in Request, RequestOK(s),
         (s.batch = req[c].batch /\ s.results = req[c].results) \/ s.results = <<>>
  PROVE  TypeOK' /\ RequestsOK' /\ NoSilentMismatch'
<1>1. req'[c] = s /\ \A d \in Client \ {c} : req'[d] = req[d]
  BY DEF IngestInv, TypeOK
<1>2. TypeOK'
  BY DEF IngestInv, TypeOK
<1>3. RequestOK(req[c])'
  BY <1>1 DEF RequestOK
<1>4. RowsKept
  BY DEF RowsKept
<1>5. RequestsOK'
  BY <1>1, <1>2, <1>3, <1>4, OthersKept DEF RequestsOK
<1>6. s.results = <<>> => 1..Len(s.results) = {}
  OBVIOUS
<1>7. NoSilentMismatch'
  <2> SUFFICES ASSUME NEW d \in Client, NEW n \in 1..Len(req'[d].results),
                      Category(req'[d].results[n]) \in {"accepted", "duplicate", "quarantined"}
               PROVE  /\ row'[req'[d].batch[n].key] # None
                      /\ row'[req'[d].batch[n].key].sha = req'[d].batch[n].sha
    BY DEF NoSilentMismatch
  <2>1. req'[d].results = req[d].results /\ req'[d].batch = req[d].batch
    BY <1>1, <1>6
  <2> QED
    BY <2>1 DEF IngestInv, NoSilentMismatch
<1> QED
  BY <1>2, <1>5, <1>7

-----------------------------------------------------------------------------
(* Every step keeps the invariant and the rows.                             *)

LEMMA InitIngest == Init => IngestInv
<1> SUFFICES ASSUME Init PROVE IngestInv
  OBVIOUS
<1>1. <<>> \in Seq(Items) /\ <<>> \in Seq(Status) /\ Len(<<>>) = 0
  OBVIOUS
<1>2. NoRequest \in Request
  BY <1>1 DEF NoRequest, Request
<1>3. \A c \in Client : req[c] = NoRequest
  BY DEF Init
<1>4. TypeOK
  BY <1>2 DEF Init, TypeOK
<1>5. RequestsOK
  <2>1. NoRequest.pc = "idle" /\ Len(NoRequest.results) = 0 /\ Len(NoRequest.batch) = 0
    BY <1>1 DEF NoRequest
  <2>2. RequestOK(NoRequest)
    BY <2>1 DEF RequestOK
  <2> QED
    BY <1>3, <2>2 DEF RequestsOK
<1>6. RowsOK
  BY DEF Init, RowsOK
<1>7. NoSilentMismatch
  BY <1>1, <1>3 DEF NoSilentMismatch, NoRequest
<1> QED
  BY <1>4, <1>5, <1>6, <1>7 DEF IngestInv

\* One row becomes r: it stays, with its digest.
LEMMA RowStep ==
  ASSUME IngestInv, NEW k \in Key, NEW r \in Row, row' = [row EXCEPT ![k] = r],
         row[k] # None => r.sha = row[k].sha,
         r.status \in {"preview", "approved", "applied", "duplicate", "quarantined", "conflict"},
         r.status \in {"preview", "approved"} => r.target = None
  PROVE  /\ row' \in [Key -> Row \cup {None}] /\ RowsKept /\ RowsOK'
         /\ row'[k] = r
<1>1. None \notin Row
  BY IngestAssumption
<1> QED
  BY <1>1 DEF IngestInv, TypeOK, RowsKept, RowsOK

LEMMA VerdictStatus ==
  ASSUME NEW r \in Row, NEW sha \in Sha
  PROVE  Verdict(r, sha) \in {"duplicate", "applied", "conflict"}
  BY DEF Verdict

\* The UPDATE of store_preview closes the row: what was read cannot be applied
\* already, or nothing would have been written.
ClosingInv ==
  \A c \in Client : req[c].pc = "update" =>
    Verdict(req[c].saw, Current(c).sha) \in {"duplicate", "conflict"}

LEMMA StoreStep ==
  ASSUME IngestInv, ClosingInv, NEW c \in Client,
         \/ StoreInsert(c) \/ StoreUpdate(c) \/ StoreLosesReply(c)
  PROVE  IngestInv' /\ RowsKept
<1> DEFINE it == Current(c)
<1>1. req[c].pc # "idle" /\ it \in Item /\ it.key \in Key /\ it.sha \in Sha
  BY CurrentItem DEF StoreInsert, StoreUpdate, StoreLosesReply, IngestInv, Item
<1>2. ASSUME InsertSucceeds(it.key), row' = [row EXCEPT ![it.key] = NewRow(it)]
      PROVE  /\ row' \in [Key -> Row \cup {None}] /\ RowsKept /\ RowsOK'
             /\ row'[it.key] # None /\ row'[it.key].sha = it.sha
  <2>1. /\ NewRow(it) \in Row /\ NewRow(it).sha = it.sha /\ NewRow(it).target = None
        /\ NewRow(it).status \in {"preview", "quarantined"}
    BY <1>1 DEF NewRow, Row, IntakeStatus, Status
  <2>2. NewRow(it) # None
    BY <2>1, IngestAssumption
  <2> HIDE DEF it
  <2> QED
    BY <1>1, <1>2, <2>1, <2>2, RowStep DEF InsertSucceeds
<1>3. ASSUME req[c].pc = "update",
             row' = [row EXCEPT ![it.key].status = Verdict(req[c].saw, it.sha)]
      PROVE  /\ row' \in [Key -> Row \cup {None}] /\ RowsKept /\ RowsOK'
             /\ row'[it.key] # None /\ row'[it.key].sha = req[c].saw.sha
  <2> DEFINE v == Verdict(req[c].saw, it.sha)
             r == [row[it.key] EXCEPT !.status = v]
  <2>1. v \in {"duplicate", "conflict"}
    BY <1>3 DEF ClosingInv
  <2>2. row[it.key] \in Row /\ row[it.key] # None /\ row[it.key].sha = req[c].saw.sha
    BY <1>1, <1>3 DEF IngestInv, TypeOK, RequestsOK, RequestOK, Current
  <2>3. r \in Row /\ r.sha = row[it.key].sha /\ r.status = v
    BY <2>1, <2>2 DEF Row, Status
  <2>4. row' = [row EXCEPT ![it.key] = r]
    BY <1>3
  <2>5. r # None
    BY <2>3, IngestAssumption
  <2> HIDE DEF r, v, it
  <2> QED
    BY <1>1, <2>1, <2>2, <2>3, <2>4, <2>5, RowStep
<1>4. CASE StoreInsert(c)
  <2>1. CASE InsertSucceeds(it.key)
    <3>1. row' = [row EXCEPT ![it.key] = NewRow(it)] /\ Result(c, NewRow(it).status)
      BY <1>4, <2>1 DEF StoreInsert
    <3>2. NewRow(it).status \in Status
      BY <1>1 DEF NewRow, IntakeStatus, Status
    <3> HIDE DEF it
    <3> QED
      BY <1>1, <1>2, <2>1, <3>1, <3>2, ResultOK DEF IngestInv, it
  <2>2. CASE ~InsertSucceeds(it.key)
    <3> DEFINE s == [req[c] EXCEPT !.pc = "select"]
    <3>1. req' = [req EXCEPT ![c] = s] /\ UNCHANGED row
      BY <1>4, <2>2 DEF StoreInsert, Goto
    <3>2. req[c] \in Request /\ RequestOK(req[c])
      BY DEF IngestInv, TypeOK, RequestsOK
    <3>3. s \in Request /\ s.batch = req[c].batch /\ s.results = req[c].results /\ s.pc = "select"
      BY <3>2 DEF Request
    <3>4. RequestOK(s)
      BY <1>1, <2>2, <3>2, <3>3 DEF RequestOK, InsertSucceeds, Current
    <3> HIDE DEF s
    <3>5. TypeOK' /\ RequestsOK' /\ NoSilentMismatch'
      BY <3>1, <3>3, <3>4, MoveOK
    <3> QED
      BY <3>1, <3>5 DEF IngestInv, RowsOK, RowsKept
  <2> QED
    BY <2>1, <2>2
<1>5. CASE StoreUpdate(c)
  <2> DEFINE v == Verdict(req[c].saw, it.sha)
  <2>1. /\ req[c].pc = "update" /\ Result(c, v)
        /\ row' = [row EXCEPT ![it.key].status = v]
    BY <1>5 DEF StoreUpdate
  <2>2. v \in Status
    BY <2>1 DEF ClosingInv, Status
  <2>3. Category(v) \in {"accepted", "duplicate", "quarantined"} => req[c].saw.sha = it.sha
    BY DEF Category, Verdict
  <2> HIDE DEF v
  <2>4. TypeOK' /\ RequestsOK' /\ NoSilentMismatch'
    BY <1>1, <1>3, <2>1, <2>2, <2>3, ResultOK DEF v
  <2> QED
    BY <1>3, <2>1, <2>4 DEF IngestInv, v
<1>6. CASE StoreLosesReply(c)
  <2>1. Result(c, "rejected") /\ "rejected" \in Status /\ Category("rejected") = "rejected"
    BY <1>6 DEF StoreLosesReply, Status, Category
  <2>2. /\ row' \in [Key -> Row \cup {None}] /\ RowsKept /\ RowsOK'
    BY <1>2, <1>3, <1>6 DEF StoreLosesReply
  <2> QED
    BY <1>1, <2>1, <2>2, ResultOK DEF IngestInv
<1> QED
  BY <1>4, <1>5, <1>6

\* Steps of a request that leave the table alone.
LEMMA QuietStep ==
  ASSUME IngestInv, NEW c \in Client,
         \/ \E b \in Batches : PostBatch(c, b)
         \/ Project(c) \/ StoreSelect(c) \/ StoreFails(c) \/ Crash(c)
  PROVE  IngestInv' /\ UNCHANGED row
<1>0. /\ UNCHANGED row /\ RowsKept /\ RowsOK' /\ row' \in [Key -> Row \cup {None}]
      /\ req[c] \in Request /\ RequestOK(req[c]) /\ NoRequest \in Request
  <2>1. NoRequest \in Request
    BY DEF NoRequest, Request
  <2> QED
    BY <2>1 DEF PostBatch, Project, StoreSelect, StoreFails, Crash, IngestInv, TypeOK, RequestsOK,
       RowsOK, RowsKept
<1>m. ASSUME NEW s \in Request, req' = [req EXCEPT ![c] = s], RequestOK(s),
             (s.batch = req[c].batch /\ s.results = req[c].results) \/ s.results = <<>>
      PROVE  IngestInv'
  BY <1>0, <1>m, MoveOK DEF IngestInv
<1>r. ASSUME Result(c, "rejected"), req[c].pc # "idle" PROVE IngestInv'
  <2>1. "rejected" \in Status /\ Category("rejected") = "rejected"
    BY DEF Status, Category
  <2> QED
    BY <1>0, <1>r, <2>1, ResultOK DEF IngestInv
<1>1. ASSUME NEW b \in Batches, PostBatch(c, b) PROVE IngestInv'
  <2> DEFINE s == [NoRequest EXCEPT !.pc = "project", !.batch = b]
  <2>1. b \in Seq(Items) /\ Len(b) > 0 /\ Len(b) \in Nat
    BY <1>1, IngestAssumption DEF Batches
  <2>2. /\ s \in Request /\ s.results = <<>> /\ s.batch = b /\ s.pc = "project"
    BY <1>0, <2>1 DEF NoRequest, Request
  <2>3. req' = [req EXCEPT ![c] = s]
    BY <1>1 DEF PostBatch
  <2>4. Len(s.results) = 0
    BY <2>2
  <2> HIDE DEF s
  <2>5. RequestOK(s)
    BY <2>1, <2>2, <2>4 DEF RequestOK
  <2> QED
    BY <1>m, <2>2, <2>3, <2>5
<1>n. ASSUME NEW code \in {"none", "400"}, req' = [req EXCEPT ![c] = [NoRequest EXCEPT !.code = code]]
      PROVE  IngestInv'
  <2> DEFINE s == [NoRequest EXCEPT !.code = code]
  <2>1. s \in Request /\ s.results = <<>> /\ s.batch = <<>> /\ s.pc = "idle"
    BY <1>0 DEF NoRequest, Request
  <2>2. Len(s.results) = 0 /\ Len(s.batch) = 0
    BY <2>1
  <2> HIDE DEF s
  <2>3. RequestOK(s)
    BY <2>1, <2>2 DEF RequestOK
  <2> QED
    BY <1>m, <1>n, <2>1, <2>3 DEF s
<1>2. CASE Project(c)
  <2>1. CASE Goto(c, "insert")
    <3> DEFINE s == [req[c] EXCEPT !.pc = "insert"]
    <3>1. s \in Request /\ s.results = req[c].results /\ s.batch = req[c].batch /\ s.pc = "insert"
      BY <1>0 DEF Request
    <3>2. req' = [req EXCEPT ![c] = s]
      BY <2>1 DEF Goto
    <3> HIDE DEF s
    <3>3. RequestOK(s)
      BY <1>0, <1>2, <3>1 DEF RequestOK, Project
    <3> QED
      BY <1>0, <1>m, <3>1, <3>2, <3>3
  <2> QED
    BY <1>2, <1>r, <1>n, <2>1 DEF Project
<1>3. CASE StoreSelect(c)
  <2> DEFINE it == Current(c)
             r == row[it.key]
  <2>1. it \in Item /\ it.key \in Key /\ it.sha \in Sha /\ r \in Row /\ r # None
    BY <1>0, <1>3, CurrentItem DEF StoreSelect, IngestInv, Item, TypeOK, RequestsOK, RequestOK, Current
  <2>2. CASE r.sha = it.sha /\ Result(c, r.status)
    <3>1. r.status \in Status /\ req[c].pc # "idle"
      BY <1>3, <2>1 DEF Row, StoreSelect
    <3> HIDE DEF it
    <3>2. row'[it.key] # None /\ row'[it.key].sha = it.sha
      BY <1>0, <2>1, <2>2
    <3>3. TypeOK' /\ RequestsOK' /\ NoSilentMismatch'
      BY <1>0, <2>2, <3>1, <3>2, ResultOK DEF it
    <3> QED
      BY <1>0, <3>3 DEF IngestInv
  <2>3. CASE req' = [req EXCEPT ![c].pc = "update", ![c].saw = r]
    <3> DEFINE s == [req[c] EXCEPT !.pc = "update", !.saw = r]
    <3>1. /\ s \in Request /\ s.results = req[c].results /\ s.batch = req[c].batch
          /\ s.pc = "update" /\ s.saw = r
      BY <1>0, <2>1 DEF Request
    <3>2. req' = [req EXCEPT ![c] = s]
      BY <2>3
    <3>3. req[c].pc = "select"
      BY <1>3 DEF StoreSelect
    <3> HIDE DEF s
    <3>4. RequestOK(s)
      BY <1>0, <2>1, <3>1, <3>3 DEF RequestOK, Current
    <3> QED
      BY <1>0, <1>m, <3>1, <3>2, <3>4
  <2> QED
    BY <1>3, <2>2, <2>3 DEF StoreSelect
<1>4. CASE StoreFails(c)
  BY <1>4, <1>r DEF StoreFails
<1>5. CASE Crash(c)
  <2>1. NoRequest = [NoRequest EXCEPT !.code = "none"]
    BY DEF NoRequest
  <2> QED
    BY <1>5, <1>n, <2>1 DEF Crash
<1> QED
  BY <1>0, <1>1, <1>2, <1>3, <1>4, <1>5

\* The review routes.
LEMMA ReviewStep ==
  ASSUME IngestInv, NEW k \in Key,
         \/ Approve(k) \/ MarkQuarantined(k)
         \/ \E t \in Target \cup {None} : ApplyCommit(k, t)
  PROVE  IngestInv' /\ RowsKept /\ UNCHANGED req
<1>1. row[k] \in Row /\ row[k] # None /\ UNCHANGED req
  BY DEF Approve, MarkQuarantined, ApplyCommit, Approvable, Committable, IngestInv, TypeOK
<1>2. PICK r \in Row :
        /\ row' = [row EXCEPT ![k] = r] /\ r.sha = row[k].sha
        /\ r.status \in {"preview", "approved", "applied", "quarantined"}
        /\ r.status \in {"preview", "approved"} => r.target = None
  <2>1. CASE Approve(k)
    <3> DEFINE r == [row[k] EXCEPT !.status = "approved"]
    <3>1. r \in Row /\ r.sha = row[k].sha /\ r.status = "approved" /\ r.target = row[k].target
      BY <1>1 DEF Row, Status
    <3>2. row[k].target = None
      BY <1>1, <2>1 DEF Approve, Approvable, IngestInv, RowsOK
    <3> QED
      BY <2>1, <3>1, <3>2 DEF Approve
  <2>2. CASE MarkQuarantined(k)
    <3> DEFINE r == [row[k] EXCEPT !.status = "quarantined"]
    <3>1. r \in Row /\ r.sha = row[k].sha /\ r.status = "quarantined"
      BY <1>1 DEF Row, Status
    <3> QED
      BY <2>2, <3>1 DEF MarkQuarantined
  <2>3. ASSUME NEW t \in Target \cup {None}, ApplyCommit(k, t)
        PROVE  \E r \in Row :
                 /\ row' = [row EXCEPT ![k] = r] /\ r.sha = row[k].sha
                 /\ r.status \in {"preview", "approved", "applied", "quarantined"}
                 /\ r.status \in {"preview", "approved"} => r.target = None
    <3> DEFINE r == [row[k] EXCEPT !.status = "applied", !.target = IF t = None THEN @ ELSE t]
    <3>1. r \in Row /\ r.sha = row[k].sha /\ r.status = "applied"
      BY <1>1 DEF Row, Status
    <3> QED
      BY <2>3, <3>1 DEF ApplyCommit
  <2> QED
    BY <2>1, <2>2, <2>3
<1>3. /\ row' \in [Key -> Row \cup {None}] /\ RowsKept /\ RowsOK'
  BY <1>1, <1>2, RowStep
<1>4. TypeOK'
  BY <1>1, <1>3 DEF IngestInv, TypeOK
<1>5. RequestsOK' /\ NoSilentMismatch'
  BY <1>1, <1>3, <1>4, OthersKept DEF RequestsOK, NoSilentMismatch
<1> QED
  BY <1>1, <1>3, <1>4, <1>5 DEF IngestInv

FullInv == IngestInv /\ ClosingInv

LEMMA NextIngest == FullInv /\ [Next]_vars => FullInv'
<1> SUFFICES ASSUME FullInv, [Next]_vars PROVE FullInv'
  OBVIOUS
<1>1. IngestInv'
  <2>1. CASE UNCHANGED vars
    BY <2>1 DEF FullInv, IngestInv, vars, TypeOK, RequestsOK, RequestOK, RowsOK, NoSilentMismatch
  <2> QED
    BY <2>1, QuietStep, StoreStep, ReviewStep DEF FullInv, Next, Handle
<1>2. ASSUME NEW d \in Client, req'[d].pc = "update"
      PROVE  Verdict(req'[d].saw, Current(d)'.sha) \in {"duplicate", "conflict"}
  <2>1. CASE req'[d] = req[d]
    BY <1>2, <2>1 DEF FullInv, ClosingInv, Current
  <2>2. CASE StoreSelect(d)
    <3> DEFINE it == Current(d)
               r == row[it.key]
               s == [req[d] EXCEPT !.pc = "update", !.saw = r]
    <3>0. req[d] \in Request /\ req \in [Client -> Request]
      BY DEF FullInv, IngestInv, TypeOK
    <3>1. ~Result(d, r.status)
      BY <1>2, <3>0 DEF Result, Request
    <3>2. req' = [req EXCEPT ![d] = s] /\ ~(r.sha = it.sha /\ Verdict(r, it.sha) = r.status)
      BY <2>2, <3>1 DEF StoreSelect
    <3>3. req'[d].saw = r /\ req'[d].results = req[d].results /\ req'[d].batch = req[d].batch
      BY <3>0, <3>2 DEF Request
    <3>4. Current(d)' = it
      BY <3>3 DEF Current
    <3>5. Verdict(r, it.sha) \in {"duplicate", "conflict"}
      BY <3>2 DEF Verdict
    <3> QED
      BY <3>3, <3>4, <3>5
  <2>3. req'[d] = req[d] \/ StoreSelect(d)
    <3>0. req \in [Client -> Request]
      BY DEF FullInv, IngestInv, TypeOK
    <3>1. ASSUME NEW c \in Client, NEW s, c # d, req' = [req EXCEPT ![c] = s] PROVE req'[d] = req[d]
      BY <3>0, <3>1
    <3>2. ASSUME NEW c \in Client, c # d,
                 (\E b \in Batches : PostBatch(c, b)) \/ Handle(c) \/ StoreFails(c)
                   \/ StoreLosesReply(c) \/ Crash(c)
          PROVE  req'[d] = req[d]
      BY <3>0, <3>2 DEF PostBatch, Handle, Project, StoreInsert, StoreSelect, StoreUpdate, StoreFails,
         StoreLosesReply, Crash, Result, Goto
    <3>3. ASSUME NEW status, Result(d, status) PROVE FALSE
      BY <1>2, <3>0, <3>3 DEF Result, Request
    <3>4. ASSUME NEW l, l # "update", Goto(d, l) PROVE FALSE
      BY <1>2, <3>0, <3>4 DEF Goto, Request
    <3>5. ASSUME NEW code, req' = [req EXCEPT ![d] = [NoRequest EXCEPT !.code = code]] PROVE FALSE
      BY <1>2, <3>0, <3>5 DEF NoRequest
    <3>6. ~(Project(d) \/ StoreInsert(d) \/ StoreUpdate(d) \/ StoreFails(d) \/ StoreLosesReply(d))
      BY <3>3, <3>4, <3>5 DEF Project, StoreInsert, StoreUpdate, StoreFails, StoreLosesReply
    <3>7. ~(Crash(d) \/ \E b \in Batches : PostBatch(d, b))
      <4>1. NoRequest.pc = "idle" /\ \A b : [NoRequest EXCEPT !.pc = "project", !.batch = b].pc = "project"
        BY DEF NoRequest
      <4> QED
        BY <1>2, <3>0, <4>1 DEF Crash, PostBatch
    <3>8. CASE \E k \in Key : \/ Approve(k) \/ MarkQuarantined(k)
                              \/ \E t \in Target \cup {None} : ApplyCommit(k, t)
      BY <3>8 DEF Approve, MarkQuarantined, ApplyCommit
    <3> QED
      BY <3>2, <3>6, <3>7, <3>8 DEF Next, Handle, vars
  <2> QED
    BY <2>1, <2>2, <2>3
<1>3. ClosingInv'
  BY <1>2 DEF ClosingInv
<1> QED
  BY <1>1, <1>3 DEF FullInv

LEMMA InitFull == Init => FullInv
<1> SUFFICES ASSUME Init PROVE FullInv
  OBVIOUS
<1>1. \A c \in Client : req[c].pc = "idle"
  BY DEF Init, NoRequest
<1> QED
  BY <1>1, InitIngest DEF FullInv, ClosingInv

\* The table and the requests keep their shape (db.py, ingest.py).
THEOREM IngestTypeCorrect == Spec => []TypeOK
<1>1. FullInv => TypeOK
  BY DEF FullInv, IngestInv
<1> QED
  BY <1>1, InitFull, NextIngest, PTL DEF Spec

\* An item counted accepted, duplicate or quarantined was sent with the content
\* the table holds, for any number of racing clients and any faults.
THEOREM MismatchNeverSilent == Spec => []NoSilentMismatch
<1>1. FullInv => NoSilentMismatch
  BY DEF FullInv, IngestInv
<1> QED
  BY <1>1, InitFull, NextIngest, PTL DEF Spec

-----------------------------------------------------------------------------
(* One opening per key.                                                     *)

Opened(status) == status \in {"preview", "quarantined"}

\* An opened item has a row.
LEMMA OpenedHasRow ==
  ASSUME FullInv, NEW c \in Client, NEW n \in 1..Len(req[c].results), Opened(req[c].results[n])
  PROVE  row[req[c].batch[n].key] # None
BY DEF FullInv, IngestInv, NoSilentMismatch, Category, Opened

\* Requests that get no result keep theirs or drop them all.
LEMMA OnceKept ==
  ASSUME AcceptedOnce,
         \A d \in Client : \/ req'[d].results = req[d].results /\ req'[d].batch = req[d].batch
                           \/ req'[d].results = <<>>
  PROVE  AcceptedOnce'
<1>1. \A d \in Client : \A n \in 1..Len(req'[d].results) :
        /\ n \in 1..Len(req[d].results) /\ req'[d].results[n] = req[d].results[n]
        /\ req'[d].batch[n] = req[d].batch[n]
  OBVIOUS
<1> QED
  BY <1>1 DEF AcceptedOnce

\* A result that opens a record does so for a key without a row.
LEMMA OnceAppended ==
  ASSUME FullInv, AcceptedOnce, NEW c \in Client, req[c].pc # "idle",
         NEW status \in Status, Result(c, status),
         Opened(status) => row[Current(c).key] = None
  PROVE  AcceptedOnce'
<1> DEFINE old == req[c].results
           len == Len(old)
<1>1. req[c] \in Request /\ old \in Seq(Status) /\ len \in Nat
  BY DEF FullInv, IngestInv, TypeOK, Request
<1>2. /\ req'[c].results = Append(old, status) /\ req'[c].batch = req[c].batch
      /\ \A d \in Client \ {c} : req'[d] = req[d]
  <2>1. req \in [Client -> Request]
    BY DEF FullInv, IngestInv, TypeOK
  <2> QED
    BY <1>1, <2>1 DEF Result, Request
<1>3. /\ Len(req'[c].results) = len + 1
      /\ req'[c].results[len + 1] = status
      /\ \A n \in 1..len : req'[c].results[n] = old[n]
  <2> HIDE DEF old
  <2> QED
    BY <1>1, <1>2
<1>4. ASSUME NEW d \in Client, NEW n \in 1..Len(req'[d].results), Opened(req'[d].results[n])
      PROVE  \/ /\ n \in 1..Len(req[d].results) /\ req'[d].results[n] = req[d].results[n]
                /\ req'[d].batch[n] = req[d].batch[n] /\ row[req'[d].batch[n].key] # None
             \/ d = c /\ n = len + 1 /\ row[req'[d].batch[n].key] = None
  <2>1. CASE d # c
    BY <1>2, <1>4, <2>1, OpenedHasRow
  <2>2. CASE d = c /\ n = len + 1
    BY <1>2, <1>3, <1>4, <2>2 DEF Current
  <2>3. CASE d = c /\ n # len + 1
    <3>1. n \in 1..len
      BY <1>1, <1>3, <2>3
    <3> QED
      BY <1>2, <1>3, <1>4, <2>3, <3>1, OpenedHasRow
  <2> QED
    BY <2>1, <2>2, <2>3
<1> SUFFICES ASSUME NEW d \in Client, NEW e \in Client,
                    NEW m \in 1..Len(req'[d].results), NEW n \in 1..Len(req'[e].results),
                    Opened(req'[d].results[m]), Opened(req'[e].results[n]),
                    req'[d].batch[m].key = req'[e].batch[n].key
             PROVE  <<d, m>> = <<e, n>>
  BY DEF AcceptedOnce, Opened
<1>5. CASE d = c /\ m = len + 1 /\ row[req'[d].batch[m].key] = None
  BY <1>4, <1>5
<1>6. CASE /\ m \in 1..Len(req[d].results) /\ req'[d].results[m] = req[d].results[m]
           /\ req'[d].batch[m] = req[d].batch[m] /\ row[req'[d].batch[m].key] # None
  <2>1. /\ n \in 1..Len(req[e].results) /\ req'[e].results[n] = req[e].results[n]
        /\ req'[e].batch[n] = req[e].batch[n]
    BY <1>4, <1>6
  <2> QED
    BY <1>6, <2>1 DEF AcceptedOnce, Opened
<1> QED
  BY <1>4, <1>5, <1>6

LEMMA NextOnce == FullInv /\ AcceptedOnce /\ [Next]_vars => AcceptedOnce'
<1> SUFFICES ASSUME FullInv, AcceptedOnce, [Next]_vars PROVE AcceptedOnce'
  OBVIOUS
<1>1. req \in [Client -> Request]
  BY DEF FullInv, IngestInv, TypeOK
<1>2. ASSUME NEW c \in Client, NEW r, req' = [req EXCEPT ![c] = r],
             \/ r.results = req[c].results /\ r.batch = req[c].batch
             \/ r.results = <<>>
      PROVE  AcceptedOnce'
  <2>1. \A d \in Client : req'[d] = IF d = c THEN r ELSE req[d]
    BY <1>1, <1>2
  <2> QED
    BY <1>2, <2>1, OnceKept
<1>3. ASSUME NEW c \in Client, NEW l, Goto(c, l)
      PROVE  AcceptedOnce'
  <2> DEFINE s == [req[c] EXCEPT !.pc = l]
  <2>1. s.results = req[c].results /\ s.batch = req[c].batch
    BY <1>1 DEF Request
  <2> QED
    BY <1>2, <1>3, <2>1 DEF Goto
<1>4. ASSUME NEW c \in Client, req[c].pc # "idle", NEW status \in Status \ {"preview", "quarantined"},
             Result(c, status)
      PROVE  AcceptedOnce'
  BY <1>4, OnceAppended DEF Opened
<1>5. {"rejected", "conflict", "duplicate", "applied"} \subseteq Status \ {"preview", "quarantined"}
  BY DEF Status
<1>6. ASSUME NEW c \in Client, \E b \in Batches : PostBatch(c, b)
      PROVE  AcceptedOnce'
  <2>1. PICK b \in Batches : PostBatch(c, b)
    BY <1>6
  <2> DEFINE s == [NoRequest EXCEPT !.pc = "project", !.batch = b]
  <2>2. s.results = <<>>
    BY DEF NoRequest
  <2> QED
    BY <1>2, <2>1, <2>2 DEF PostBatch
<1>7. ASSUME NEW c \in Client, Project(c)
      PROVE  AcceptedOnce'
  <2>1. CASE req' = [req EXCEPT ![c] = [NoRequest EXCEPT !.code = "400"]]
    <3>1. [NoRequest EXCEPT !.code = "400"].results = <<>>
      BY DEF NoRequest
    <3> QED
      BY <1>2, <2>1, <3>1
  <2>2. CASE Result(c, "rejected")
    BY <1>4, <1>5, <1>7, <2>2 DEF Project
  <2> QED
    BY <1>3, <1>7, <2>1, <2>2 DEF Project
<1>8. ASSUME NEW c \in Client, StoreInsert(c)
      PROVE  AcceptedOnce'
  <2>1. CASE InsertSucceeds(Current(c).key) /\ Result(c, NewRow(Current(c)).status)
    <3>1. NewRow(Current(c)).status \in Status
      BY DEF NewRow, IntakeStatus, Status
    <3> QED
      BY <1>8, <2>1, <3>1, OnceAppended DEF StoreInsert, InsertSucceeds
  <2> QED
    BY <1>3, <1>8, <2>1 DEF StoreInsert
<1>9. ASSUME NEW c \in Client, StoreSelect(c)
      PROVE  AcceptedOnce'
  <2> DEFINE r == row[Current(c).key]
             s == [req[c] EXCEPT !.pc = "update", !.saw = r]
  <2>1. CASE r.sha = Current(c).sha /\ Verdict(r, Current(c).sha) = r.status /\ Result(c, r.status)
    <3>1. r.status \in {"duplicate", "applied", "conflict"}
      BY <2>1 DEF Verdict
    <3> QED
      BY <1>4, <1>5, <1>9, <2>1, <3>1 DEF StoreSelect
  <2>2. CASE req' = [req EXCEPT ![c] = s]
    <3>1. s.results = req[c].results /\ s.batch = req[c].batch
      BY <1>1 DEF Request
    <3> QED
      BY <1>2, <2>2, <3>1
  <2> QED
    BY <1>9, <2>1, <2>2 DEF StoreSelect
<1>10. ASSUME NEW c \in Client, StoreUpdate(c)
       PROVE  AcceptedOnce'
  <2>1. Verdict(req[c].saw, Current(c).sha) \in {"duplicate", "applied", "conflict"}
    BY DEF Verdict
  <2> QED
    BY <1>4, <1>5, <1>10, <2>1 DEF StoreUpdate
<1>11. ASSUME NEW c \in Client, StoreFails(c) \/ StoreLosesReply(c)
       PROVE  AcceptedOnce'
  BY <1>4, <1>5, <1>11 DEF StoreFails, StoreLosesReply
<1>12. ASSUME NEW c \in Client, Crash(c)
       PROVE  AcceptedOnce'
  <2>1. NoRequest.results = <<>>
    BY DEF NoRequest
  <2> QED
    BY <1>2, <1>12, <2>1 DEF Crash
<1>13. CASE req' = req
  BY <1>13 DEF AcceptedOnce
<1>14. ASSUME NEW k \in Key, \/ Approve(k) \/ MarkQuarantined(k)
                             \/ \E t \in Target \cup {None} : ApplyCommit(k, t)
       PROVE  req' = req
  BY <1>14 DEF Approve, MarkQuarantined, ApplyCommit
<1> QED
  BY <1>6, <1>7, <1>8, <1>9, <1>10, <1>11, <1>12, <1>13, <1>14 DEF Next, Handle, vars

\* Of the items sent with one key at most one is told that it opened a record,
\* whoever races, and although a reply can be lost after the row was stored.
THEOREM OpenedOnce == Spec => []AcceptedOnce
<1>1. Init => AcceptedOnce
  BY DEF Init, AcceptedOnce, NoRequest
<1> QED
  BY <1>1, InitFull, NextIngest, NextOnce, PTL DEF Spec

-----------------------------------------------------------------------------
(* The refinement of EnvelopeReview.                                        *)

StageOf(r) == IF r.status \in {"duplicate", "quarantined", "conflict"} THEN "closed" ELSE r.status

\* Two functions that differ at one point.
LEMMA PointUpdate ==
  ASSUME NEW S, NEW k \in S, NEW f, NEW g, f = [j \in S |-> f[j]], g = [j \in S |-> g[j]],
         \A j \in S \ {k} : g[j] = f[j], NEW x, g[k] = x
  PROVE  g = [f EXCEPT ![k] = x]
  OBVIOUS

\* How the abstract state moves when one row is written.
LEMMA MapRow ==
  ASSUME TypeOK, NEW k \in Key, NEW r \in Row, row' = [row EXCEPT ![k] = r]
  PROVE  /\ Stage' = [Stage EXCEPT ![k] = StageOf(r)]
         /\ Content' = [Content EXCEPT ![k] = r.sha]
         /\ Applied' = [Applied EXCEPT ![k] = r.target]
<1>1. r # None
  BY IngestAssumption
<1>2. row'[k] = r /\ \A j \in Key \ {k} : row'[j] = row[j]
  BY DEF TypeOK
<1>3. /\ Stage'[k] = StageOf(r) /\ Content'[k] = r.sha /\ Applied'[k] = r.target
      /\ \A j \in Key \ {k} : /\ Stage'[j] = Stage[j] /\ Content'[j] = Content[j]
                              /\ Applied'[j] = Applied[j]
  BY <1>1, <1>2 DEF Stage, Content, Applied, StageOf
<1>4. /\ Stage = [j \in Key |-> Stage[j]] /\ Content = [j \in Key |-> Content[j]]
      /\ Applied = [j \in Key |-> Applied[j]]
  BY DEF Stage, Content, Applied
<1>5. /\ Stage' = [j \in Key |-> Stage'[j]] /\ Content' = [j \in Key |-> Content'[j]]
      /\ Applied' = [j \in Key |-> Applied'[j]]
  BY DEF Stage, Content, Applied
<1> QED
  BY <1>3, <1>4, <1>5, PointUpdate

\* Writing back the value that is there.
LEMMA SameValue ==
  ASSUME NEW k \in Key, row[k] # None
  PROVE  /\ [Content EXCEPT ![k] = row[k].sha] = Content
         /\ [Applied EXCEPT ![k] = row[k].target] = Applied
<1>1. Content[k] = row[k].sha /\ Applied[k] = row[k].target
  BY DEF Content, Applied
<1>2. [Content EXCEPT ![k] = Content[k]] = Content
  BY DEF Content
<1>3. [Applied EXCEPT ![k] = Applied[k]] = Applied
  BY DEF Applied
<1> QED
  BY <1>1, <1>2, <1>3

\* A row that is closed: only its status, or its reference, changes.
LEMMA MapClose ==
  ASSUME TypeOK, NEW k \in Key, NEW r \in Row, row' = [row EXCEPT ![k] = r], row[k] # None,
         row[k] \in Row, r.sha = row[k].sha, r.target = row[k].target, StageOf(r) = "closed"
  PROVE  Review!Next
<1>1. Stage[k] # "absent"
  BY DEF Stage, StageOf, Row, Status
<1>2. /\ Stage' = [Stage EXCEPT ![k] = StageOf(r)]
      /\ Content' = [Content EXCEPT ![k] = r.sha]
      /\ Applied' = [Applied EXCEPT ![k] = r.target]
  BY MapRow
<1>3. Content' = Content /\ Applied' = Applied
  BY <1>2, SameValue
<1> QED
  BY <1>1, <1>2, <1>3 DEF Review!Next, Review!Close

LEMMA MapStep ==
  ASSUME FullInv, [Next]_vars
  PROVE  [Review!Next]_(Review!vars)
<1> USE DEF FullInv
<1>0. TypeOK
  BY DEF IngestInv
<1>q. UNCHANGED row => [Review!Next]_(Review!vars)
  BY DEF Review!vars, Stage, Content, Applied
<1>i. ASSUME NEW it \in Item, InsertSucceeds(it.key), row' = [row EXCEPT ![it.key] = NewRow(it)]
      PROVE  Review!Next
  <2> DEFINE k == it.key
             r == NewRow(it)
  <2>1. /\ k \in Key /\ r \in Row /\ r.sha = it.sha /\ it.sha \in Sha /\ r.target = None
        /\ StageOf(r) \in {"preview", "closed"}
    BY DEF Item, NewRow, Row, IntakeStatus, Status, StageOf
  <2>2. Stage[k] = "absent" /\ Applied[k] = None
    BY <1>i, <2>1 DEF InsertSucceeds, Stage, Applied
  <2> HIDE DEF k, r
  <2>3. /\ Stage' = [Stage EXCEPT ![k] = StageOf(r)]
        /\ Content' = [Content EXCEPT ![k] = r.sha]
        /\ Applied' = [Applied EXCEPT ![k] = r.target]
    BY <1>0, <1>i, <2>1, MapRow DEF k, r
  <2>4. Applied' = Applied
    BY <2>1, <2>2, <2>3 DEF Applied
  <2> QED
    BY <2>1, <2>2, <2>3, <2>4 DEF Review!Next, Review!Open
<1>u. ASSUME NEW c \in Client, req[c].pc = "update",
             row' = [row EXCEPT ![Current(c).key].status = Verdict(req[c].saw, Current(c).sha)]
      PROVE  Review!Next
  <2> DEFINE k == Current(c).key
             v == Verdict(req[c].saw, Current(c).sha)
             r == [row[k] EXCEPT !.status = v]
  <2>1. k \in Key
    BY <1>0, <1>u, CurrentItem DEF IngestInv, Item
  <2>2. row[k] \in Row /\ row[k] # None /\ v \in {"duplicate", "conflict"}
    BY <1>0, <1>u, <2>1 DEF IngestInv, RequestsOK, RequestOK, TypeOK, Current, ClosingInv
  <2>3. r \in Row /\ r.sha = row[k].sha /\ r.target = row[k].target /\ r.status = v
    BY <2>2 DEF Row, Status
  <2>4. StageOf(r) = "closed" /\ row' = [row EXCEPT ![k] = r]
    BY <1>u, <2>2, <2>3 DEF StageOf
  <2> HIDE DEF k, v, r
  <2> QED
    BY <1>0, <2>1, <2>2, <2>3, <2>4, MapClose
<1>1. ASSUME NEW c \in Client, StoreInsert(c) \/ StoreUpdate(c) \/ StoreLosesReply(c)
      PROVE  [Review!Next]_(Review!vars)
  <2>1. Current(c) \in Item
    BY <1>0, <1>1, CurrentItem DEF IngestInv, StoreInsert, StoreUpdate, StoreLosesReply
  <2> QED
    BY <1>1, <1>i, <1>u, <1>q, <2>1 DEF StoreInsert, StoreUpdate, StoreLosesReply
<1>2. ASSUME NEW k \in Key, Approve(k) PROVE Review!Next
  <2> DEFINE r == [row[k] EXCEPT !.status = "approved"]
  <2>1. row[k] \in Row /\ row[k] # None /\ row[k].status = "preview"
    BY <1>0, <1>2 DEF Approve, Approvable, TypeOK
  <2>2. r \in Row /\ r.sha = row[k].sha /\ r.target = row[k].target /\ StageOf(r) = "approved"
    BY <2>1 DEF Row, Status, StageOf
  <2>3. row' = [row EXCEPT ![k] = r]
    BY <1>2 DEF Approve
  <2>4. Stage[k] = "preview"
    BY <2>1 DEF Stage
  <2> HIDE DEF r
  <2>5. /\ Stage' = [Stage EXCEPT ![k] = StageOf(r)]
        /\ Content' = [Content EXCEPT ![k] = r.sha]
        /\ Applied' = [Applied EXCEPT ![k] = r.target]
    BY <1>0, <2>2, <2>3, MapRow
  <2>6. Content' = Content /\ Applied' = Applied
    BY <2>1, <2>2, <2>5, SameValue
  <2> QED
    BY <2>2, <2>4, <2>5, <2>6 DEF Review!Next, Review!Approve
<1>3. ASSUME NEW k \in Key, MarkQuarantined(k) PROVE Review!Next
  <2> DEFINE r == [row[k] EXCEPT !.status = "quarantined"]
  <2>1. row[k] \in Row /\ row[k] # None
    BY <1>0, <1>3 DEF MarkQuarantined, TypeOK
  <2>2. r \in Row /\ r.sha = row[k].sha /\ r.target = row[k].target /\ StageOf(r) = "closed"
    BY <2>1 DEF Row, Status, StageOf
  <2>3. row' = [row EXCEPT ![k] = r]
    BY <1>3 DEF MarkQuarantined
  <2> HIDE DEF r
  <2> QED
    BY <1>0, <2>1, <2>2, <2>3, MapClose
<1>4. ASSUME NEW k \in Key, NEW t \in Target \cup {None}, ApplyCommit(k, t) PROVE Review!Next
  <2> DEFINE r == [row[k] EXCEPT !.status = "applied", !.target = IF t = None THEN @ ELSE t]
  <2>1. row[k] \in Row /\ row[k] # None /\ row[k].status \in {"approved", "preview"}
    BY <1>0, <1>4 DEF ApplyCommit, Committable, TypeOK
  <2>2. row[k].target = None
    BY <2>1 DEF IngestInv, RowsOK
  <2>3. r \in Row /\ r.sha = row[k].sha /\ r.target = t /\ StageOf(r) = "applied"
    BY <2>1, <2>2 DEF Row, Status, StageOf
  <2>4. row' = [row EXCEPT ![k] = r]
    BY <1>4 DEF ApplyCommit
  <2>5. Stage[k] \in {"preview", "approved"} /\ Applied[k] = None
    BY <2>1, <2>2 DEF Stage, Applied
  <2> HIDE DEF r
  <2>6. /\ Stage' = [Stage EXCEPT ![k] = StageOf(r)]
        /\ Content' = [Content EXCEPT ![k] = r.sha]
        /\ Applied' = [Applied EXCEPT ![k] = r.target]
    BY <1>0, <2>3, <2>4, MapRow
  <2>7. Content' = Content
    BY <2>1, <2>3, <2>6, SameValue
  <2> QED
    BY <2>3, <2>5, <2>6, <2>7 DEF Review!Next, Review!Apply
<1>5. ASSUME NEW c \in Client,
             \/ \E b \in Batches : PostBatch(c, b)
             \/ Project(c) \/ StoreSelect(c) \/ StoreFails(c) \/ Crash(c)
      PROVE  UNCHANGED row
  BY <1>5, QuietStep
<1> QED
  BY <1>q, <1>1, <1>2, <1>3, <1>4, <1>5 DEF Next, Handle, vars

\* The envelope table is a review queue: contents and targets are written once,
\* and no race between store_preview, approve, apply_commit and mark_quarantined
\* brings a closed row back.
THEOREM RefinesReview == Spec => ImplementsReview
<1>1. Init => Review!Init
  BY DEF Init, Stage, Content, Applied, Review!Init
<1> QED
  BY <1>1, InitFull, NextIngest, MapStep, PTL DEF Spec, ImplementsReview, Review!Spec
=============================================================================
