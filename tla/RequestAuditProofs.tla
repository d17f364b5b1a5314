-------------------------- MODULE RequestAuditProofs -------------------------
(***************************************************************************)
(* Proofs about RequestAudit, for any requests, old events, page size and  *)
(* restarts.                                                               *)
(***************************************************************************)
EXTENDS RequestAudit, FiniteSetTheorems, TLAPS

Pc == {"new", "insert", "select", "answer", "record", "write", "done", "past", "dead"}
Event == [id : EventId, at : Nat, req : Req \cup {None}]
Reader == [offset : Nat, seen : SUBSET EventId, owed : SUBSET EventId,
           at : {"start", "more", "end", "blind"}]

Shapes ==
  /\ kind \in [Req -> Kind] /\ pc \in [Req -> Pc]
  /\ status \in [Req -> Status] /\ shown \in [Req -> Req \cup {None}]
  /\ pool \in BOOLEAN /\ case \in Req \cup {None} /\ flag \in Req \cup {None}
  /\ audit \subseteq Event /\ open \in [Req -> SUBSET Event] /\ log \subseteq Req
  /\ http \in [Class -> Nat] /\ failures \in Nat /\ clock \in Nat
  /\ reader \in Reader

\* The rows and the answers about them: a row under way is the only one, and a
\* stored row is of a request that has got past its INSERT.
RowsOK ==
  /\ \A r \in Req : pc[r] \in {"new", "insert", "select"} => status[r] = "none"
  /\ \A r \in Req : pc[r] \in {"answer", "record", "write", "done", "past"} => status[r] # "none"
  /\ \A r \in Req : pc[r] = "insert" => \/ kind[r] = "case" /\ case = None
                                        \/ kind[r] = "flag" /\ flag = None
  /\ \A r \in Req : pc[r] = "select" => kind[r] = "flag" /\ flag # None
  /\ \A q, r \in Req : pc[q] = "insert" /\ pc[r] = "insert" /\ kind[q] = kind[r] => q = r
  /\ \A r \in Req : (r = case => kind[r] = "case") /\ (r = flag => kind[r] = "flag")
  /\ \A r \in Req : r \in {case, flag} => pc[r] # "new"

\* The events: ids are not shared, an event in the table is of a request that has
\* ended, and one that is being written is in exactly one open transaction.
EventsOK ==
  /\ \A e, f \in audit : e = f \/ (e.id # f.id /\ (e.req = None \/ e.req # f.req))
  /\ \A r \in Req : open[r] # {} => pc[r] = "write"
  /\ \A r \in Req : pc[r] = "write" => \E e \in Event : open[r] = {e} /\ e.req = r
  /\ \A e \in audit : e.req # None => pc[e.req] \in {"done", "past"}
  /\ \A r \in Req : \A e \in open[r], f \in audit : e.id # f.id
  /\ \A q, r \in Req : \A e \in open[q], f \in open[r] : q # r => e.id # f.id

\* A request that has ended and was not an error has left a trace.
TracesOK ==
  /\ \A r \in Req : pc[r] \in {"done", "past"} /\ kind[r] # "health" /\ status[r] # "500"
                      => Audited(r) \/ r \in log
  /\ pool /\ failures = 0 => \A r \in Req : pc[r] = "done" /\ kind[r] # "health" /\ status[r] # "500"
                                              => Audited(r)

OfClass(c) == {r \in Counted : status[r] = c}
CountsOK == \A c \in Class : http[c] = Cardinality(OfClass(c))

\* What the client is still owed ranks behind the pages it has read.
PagesOK ==
  /\ IsFiniteSet(audit)
  /\ reader.owed \subseteq Ids(audit)
  /\ reader.at = "start" => reader.offset = 0
  /\ reader.at = "more" => \A e \in audit : e.id \in reader.owed => e.id \in reader.seen \/ reader.offset <= Rank(e)
  /\ PagingComplete

AuditInv ==
  Shapes /\ RowsOK /\ EventsOK /\ TracesOK /\ CountsOK /\ PagesOK /\ AnswersDurable

-----------------------------------------------------------------------------
(* Shapes.                                                                  *)

LEMMA ShapesInit == Init => Shapes
<1> SUFFICES ASSUME Init PROVE Shapes
  OBVIOUS
<1>1. audit \subseteq Event
  <2> SUFFICES ASSUME NEW i \in 1..Old PROVE 2 * i \in EventId
    BY DEF Init, Event
  <2>1. Cardinality(Req) \in Nat /\ Old \in Nat /\ Old <= Cardinality(Req)
    BY AuditAssumption, FS_CardinalityType
  <2> QED
    BY <2>1 DEF EventId
<1>2. reader \in Reader
  BY DEF Init, NewReader, Reader
<1> QED
  BY <1>1, <1>2 DEF Init, Shapes, Pc, Class, Status, NoCount

\* A step of one request changes only what is its own.
LEMMA OwnStep ==
  ASSUME Shapes, NEW r \in Req, Step(r)
  PROVE  /\ UNCHANGED <<kind, pool, restarts>>
         /\ \E w \in Pc : pc' = [pc EXCEPT ![r] = w]
         /\ \E c \in Status : status' = [status EXCEPT ![r] = c]
         /\ \E q \in Req \cup {None} : shown' = [shown EXCEPT ![r] = q]
<1>1. UNCHANGED <<kind, pool, restarts>>
  BY DEF Step, Refuse, Health, CreateInsert, FlagInsert, FlagSelect, Commit, HandlerFails, ReadPage,
         Respond, RecordNoPool, RecordInsert, RecordCommit, RecordFails
<1>2. \E w \in Pc : pc' = [pc EXCEPT ![r] = w]
  BY DEF Step, Refuse, Health, CreateInsert, FlagInsert, FlagSelect, Commit, HandlerFails, ReadPage,
         Respond, RecordNoPool, RecordInsert, RecordCommit, RecordFails, Answer, Raise, Goto, Pc
<1>3. \E c \in Status : status' = [status EXCEPT ![r] = c]
  <2>1. status = [status EXCEPT ![r] = status[r]] /\ status[r] \in Status
    BY DEF Shapes
  <2>2. UNCHANGED status \/ \E c \in Status : status' = [status EXCEPT ![r] = c]
    BY DEF Step, Refuse, Health, CreateInsert, FlagInsert, FlagSelect, Commit, HandlerFails, ReadPage,
           Respond, RecordNoPool, RecordInsert, RecordCommit, RecordFails, Answer, Raise, Status, Class
  <2> QED
    BY <2>1, <2>2
<1>4. \E q \in Req \cup {None} : shown' = [shown EXCEPT ![r] = q]
  <2>1. shown = [shown EXCEPT ![r] = shown[r]] /\ shown[r] \in Req \cup {None} /\ flag \in Req \cup {None}
    BY DEF Shapes
  <2>2. \/ UNCHANGED shown \/ shown' = [shown EXCEPT ![r] = r] \/ shown' = [shown EXCEPT ![r] = flag]
    BY DEF Step, Refuse, Health, CreateInsert, FlagInsert, FlagSelect, Commit, HandlerFails, ReadPage,
           Respond, RecordNoPool, RecordInsert, RecordCommit, RecordFails, Handling
  <2> QED
    BY <2>1, <2>2
<1> QED
  BY <1>1, <1>2, <1>3, <1>4

LEMMA ShapesStep == ASSUME Shapes, NEW r \in Req, Step(r) PROVE Shapes'
<1>1. /\ kind' \in [Req -> Kind] /\ pool' \in BOOLEAN /\ pc' \in [Req -> Pc]
      /\ status' \in [Req -> Status] /\ shown' \in [Req -> Req \cup {None}]
  BY OwnStep DEF Shapes
<1>2. case' \in Req \cup {None} /\ flag' \in Req \cup {None}
  BY DEF Shapes, Step, Refuse, Health, CreateInsert, FlagInsert, FlagSelect, Commit, HandlerFails,
         ReadPage, Respond, RecordNoPool, RecordInsert, RecordCommit, RecordFails, Handling, Apply
<1>3. audit' \subseteq Event /\ open' \in [Req -> SUBSET Event] /\ clock' \in Nat
  <2>1. CASE RecordInsert(r)
    <3>1. PICK at \in {clock, clock + 1}, id \in EventId \ UsedIds :
            /\ clock' = at
            /\ open' = [open EXCEPT ![r] = {[id |-> id, at |-> at, req |-> r]}]
      BY <2>1 DEF RecordInsert
    <3>2. [id |-> id, at |-> at, req |-> r] \in Event /\ at \in Nat
      BY <3>1 DEF Event, Shapes
    <3> QED
      BY <2>1, <3>1, <3>2 DEF RecordInsert, Shapes
  <2>2. CASE RecordCommit(r) \/ RecordFails(r)
    BY <2>2 DEF RecordCommit, RecordFails, Shapes
  <2>3. CASE ~RecordInsert(r) /\ ~RecordCommit(r) /\ ~RecordFails(r)
    BY <2>3 DEF Shapes, Step, Refuse, Health, CreateInsert, FlagInsert, FlagSelect, Commit,
                HandlerFails, ReadPage, Respond, RecordNoPool, Sink
  <2> QED
    BY <2>1, <2>2, <2>3
<1>4. log' \subseteq Req /\ failures' \in Nat
  BY DEF Shapes, Step, Refuse, Health, CreateInsert, FlagInsert, FlagSelect, Commit,
         HandlerFails, ReadPage, Respond, RecordNoPool, RecordInsert, RecordCommit, RecordFails, Sink
<1>5. http' \in [Class -> Nat]
  BY DEF Shapes, Step, Refuse, Health, CreateInsert, FlagInsert, FlagSelect, Commit,
         HandlerFails, ReadPage, Respond, RecordNoPool, RecordInsert, RecordCommit, RecordFails,
         Raise, Count
<1>6. reader' \in Reader
  <2>1. CASE ReadPage(r)
    <3>1. Ids(audit) \subseteq EventId /\ Ids(Page(reader.offset)) \subseteq EventId
      BY DEF Ids, Page, Shapes, Event
    <3>2. reader.offset + Limit \in Nat /\ reader.seen \subseteq EventId /\ reader.owed \subseteq EventId
      BY AuditAssumption DEF Shapes, Reader
    <3> QED
      BY <2>1, <3>1, <3>2 DEF ReadPage, Shapes, Reader
  <2>2. CASE ~ReadPage(r)
    BY <2>2 DEF Shapes, Step, Refuse, Health, CreateInsert, FlagInsert, FlagSelect, Commit,
         HandlerFails, Respond, RecordNoPool, RecordInsert, RecordCommit, RecordFails
  <2> QED
    BY <2>1, <2>2
<1> QED
  BY <1>1, <1>2, <1>3, <1>4, <1>5, <1>6 DEF Shapes

LEMMA ShapesRestart == ASSUME Shapes, Restart PROVE Shapes'
BY DEF Shapes, Restart, Handling, Pc, NoCount, Class

-----------------------------------------------------------------------------
(* Rows.                                                                    *)

LEMMA RowsStep ==
  ASSUME Shapes, RowsOK, AnswersDurable, NEW r \in Req, Step(r)
  PROVE  RowsOK' /\ AnswersDurable'
<1>1. CASE Refuse(r) \/ Health(r) \/ ReadPage(r)
  BY <1>1 DEF Refuse, Health, ReadPage, Answer, Goto, Handling, Shapes, RowsOK, AnswersDurable, Status, Class
<1>2. CASE CreateInsert(r)
  BY <1>2 DEF CreateInsert, Waits, Raise, Goto, Handling, Shapes, RowsOK, AnswersDurable, Status, Class
<1>3. CASE FlagInsert(r)
  BY <1>3 DEF FlagInsert, Waits, Goto, Handling, Shapes, RowsOK, AnswersDurable, Status
<1>4. CASE FlagSelect(r)
  BY <1>4 DEF FlagSelect, Answer, Goto, Handling, Shapes, RowsOK, AnswersDurable, Status
<1>5. CASE Commit(r)
  BY <1>5, AuditAssumption DEF Commit, Apply, Answer, Goto, Shapes, RowsOK, AnswersDurable, Status, Class
<1>6. CASE HandlerFails(r)
  BY <1>6, AuditAssumption DEF HandlerFails, Apply, Raise, Goto, Shapes, RowsOK, AnswersDurable, Status
<1>7. CASE Respond(r) \/ RecordNoPool(r) \/ RecordInsert(r) \/ RecordCommit(r) \/ RecordFails(r)
  BY <1>7 DEF Respond, RecordNoPool, RecordInsert, RecordCommit, RecordFails, Goto, Handling,
              Shapes, RowsOK, AnswersDurable, Status
<1> QED
  BY <1>1, <1>2, <1>3, <1>4, <1>5, <1>6, <1>7 DEF Step

LEMMA RowsRestart ==
  ASSUME Shapes, RowsOK, AnswersDurable, Restart
  PROVE  RowsOK' /\ AnswersDurable'
<1>1. \A q \in Req : /\ pc'[q] \in {pc[q], "past", "dead"}
                     /\ pc'[q] = "past" => pc[q] \in {"done", "past"}
  BY DEF Restart, Shapes
<1> QED
  BY <1>1 DEF Restart, Handling, InFlight, Shapes, RowsOK, AnswersDurable

-----------------------------------------------------------------------------
(* Events.                                                                  *)

LEMMA EventsInit == Init => EventsOK
<1> SUFFICES ASSUME Init PROVE EventsOK
  OBVIOUS
<1>1. \A e, f \in audit : e = f \/ (e.id # f.id /\ (e.req = None \/ e.req # f.req))
  <2> SUFFICES ASSUME NEW i \in 1..Old, NEW k \in 1..Old, i # k PROVE 2 * i # 2 * k
    BY DEF Init
  <2> QED
    BY AuditAssumption
<1>2. \A e \in audit : e.req = None
  BY DEF Init
<1> QED
  BY <1>1, <1>2 DEF Init, EventsOK

\* Steps before the record leave the sink alone.
LEMMA EventsEarly ==
  ASSUME Shapes, EventsOK, NEW r \in Req, pc[r] \in {"new", "insert", "select", "answer", "record"},
         UNCHANGED <<audit, open>>, NEW w, w # "write", pc' = [pc EXCEPT ![r] = w]
  PROVE  EventsOK'
<1>1. \A q \in Req : pc'[q] = IF q = r THEN w ELSE pc[q]
  BY DEF Shapes
<1>2. \A e \in audit : e.req # None => e.req \in Req
  BY DEF Shapes, Event
<1> QED
  BY <1>1, <1>2 DEF EventsOK

LEMMA EventsInsert ==
  ASSUME Shapes, EventsOK, NEW r \in Req, RecordInsert(r)
  PROVE  EventsOK'
<1>1. PICK at \in {clock, clock + 1}, id \in EventId \ UsedIds :
        /\ clock' = at
        /\ open' = [open EXCEPT ![r] = {[id |-> id, at |-> at, req |-> r]}]
  BY DEF RecordInsert
<1>2. PICK e : e = [id |-> id, at |-> at, req |-> r]
  OBVIOUS
<1>3. e \in Event /\ e.id = id /\ e.req = r
  BY <1>1, <1>2 DEF Event, Shapes
<1>4. \A q \in Req : open'[q] = IF q = r THEN {e} ELSE open[q]
  BY <1>1, <1>2 DEF Shapes
<1>5. /\ \A f \in audit : f.id # id
      /\ \A q \in Req : \A f \in open[q] : f.id # id
  BY DEF UsedIds, Ids
<1>6. \A q \in Req : pc'[q] = IF q = r THEN "write" ELSE pc[q]
  BY DEF RecordInsert, Goto, Shapes
<1>7. audit' = audit /\ pc[r] = "record"
  BY DEF RecordInsert
<1>8. \A f \in audit : f.req # None => f.req \in Req
  BY DEF Shapes, Event
<1>9. \A q \in Req : pc'[q] = "write" => \E f \in Event : open'[q] = {f} /\ f.req = q
  BY <1>3, <1>4, <1>6 DEF EventsOK
<1>10. \A q \in Req : \A f \in open'[q], g \in audit' : f.id # g.id
  BY <1>3, <1>4, <1>5, <1>7 DEF EventsOK
<1>11. \A q, p \in Req : \A f \in open'[q], g \in open'[p] : q # p => f.id # g.id
  BY <1>3, <1>4, <1>5 DEF EventsOK
<1>12. \A q \in Req : open'[q] # {} => pc'[q] = "write"
  BY <1>4, <1>6 DEF EventsOK
<1>13. \A f \in audit' : f.req # None => pc'[f.req] \in {"done", "past"}
  BY <1>6, <1>7, <1>8 DEF EventsOK
<1> QED
  BY <1>7, <1>9, <1>10, <1>11, <1>12, <1>13 DEF EventsOK

\* The record ends, with its row in the table or not.
LEMMA EventsEnd ==
  ASSUME Shapes, EventsOK, NEW r \in Req, pc[r] \in {"record", "write"},
         audit' \in {audit, audit \cup open[r]}, open' = [open EXCEPT ![r] = {}],
         pc' = [pc EXCEPT ![r] = "done"]
  PROVE  EventsOK'
<1>1. \A q \in Req : /\ open'[q] = IF q = r THEN {} ELSE open[q]
                     /\ pc'[q] = IF q = r THEN "done" ELSE pc[q]
  BY DEF Shapes
<1>2. \A f \in audit : f.req # None => f.req \in Req
  BY DEF Shapes, Event
<1>3. \A e \in open[r] : e.req = r
  BY DEF EventsOK
<1>4. \A f \in audit : f.req # r
  BY AuditAssumption DEF EventsOK
<1>5. \A e, f \in audit' : e = f \/ (e.id # f.id /\ (e.req = None \/ e.req # f.req))
  <2> SUFFICES ASSUME NEW e \in audit', NEW f \in audit', e # f
               PROVE  e.id # f.id /\ (e.req = None \/ e.req # f.req)
    OBVIOUS
  <2>1. CASE e \in audit /\ f \in audit
    BY <2>1 DEF EventsOK
  <2>2. CASE e \in audit /\ f \in open[r]
    BY <1>3, <1>4, <2>2 DEF EventsOK
  <2>3. CASE e \in open[r] /\ f \in audit
    BY <1>3, <1>4, <2>3 DEF EventsOK
  <2>4. ~(e \in open[r] /\ f \in open[r])
    BY DEF EventsOK
  <2> QED
    BY <2>1, <2>2, <2>3, <2>4
<1>6. \A f \in audit' : f.req # None => pc'[f.req] \in {"done", "past"}
  BY <1>1, <1>2, <1>3 DEF EventsOK
<1>7. \A q \in Req : \A f \in open'[q], g \in audit' : f.id # g.id
  BY <1>1 DEF EventsOK
<1>8. \A q, p \in Req : \A f \in open'[q], g \in open'[p] : q # p => f.id # g.id
  BY <1>1 DEF EventsOK
<1>9. \A q \in Req : /\ open'[q] # {} => pc'[q] = "write"
                     /\ pc'[q] = "write" => \E f \in Event : open'[q] = {f} /\ f.req = q
  BY <1>1 DEF EventsOK
<1> QED
  BY <1>5, <1>6, <1>7, <1>8, <1>9 DEF EventsOK

LEMMA EventsStep == ASSUME Shapes, EventsOK, NEW r \in Req, Step(r) PROVE EventsOK'
<1>1. CASE RecordInsert(r)
  BY <1>1, EventsInsert
<1>2. CASE RecordCommit(r) \/ RecordFails(r)
  BY <1>2, EventsEnd DEF RecordCommit, RecordFails, Goto
<1>3. CASE ~RecordInsert(r) /\ ~RecordCommit(r) /\ ~RecordFails(r)
  <2>1. /\ pc[r] \in {"new", "insert", "select", "answer", "record"} /\ UNCHANGED <<audit, open>>
        /\ \E w : w # "write" /\ pc' = [pc EXCEPT ![r] = w]
    BY <1>3 DEF Step, Refuse, Health, CreateInsert, FlagInsert, FlagSelect, Commit,
         HandlerFails, ReadPage, Respond, RecordNoPool, Answer, Raise, Goto, Sink
  <2> QED
    BY <2>1, EventsEarly
<1> QED
  BY <1>1, <1>2, <1>3

LEMMA EventsRestart == ASSUME Shapes, EventsOK, Restart PROVE EventsOK'
<1>1. \A q \in Req : pc'[q] # "write" /\ open'[q] = {} /\ (pc[q] \in {"done", "past"} => pc'[q] = "past")
  BY DEF Restart, InFlight, Shapes
<1>2. \A f \in audit : f.req # None => f.req \in Req
  BY DEF Shapes, Event
<1> QED
  BY <1>1, <1>2 DEF EventsOK, Restart

-----------------------------------------------------------------------------
(* Traces.                                                                  *)

LEMMA TracesStep ==
  ASSUME Shapes, EventsOK, TracesOK, RowsOK, NEW r \in Req, Step(r)
  PROVE  TracesOK'
<1>1. CASE RecordCommit(r)
  <2>1. \A q \in Req : Audited(q) => Audited(q)'
    BY <1>1 DEF RecordCommit, Audited
  <2>2. Audited(r)'
    <3>1. PICK e \in Event : open[r] = {e} /\ e.req = r
      BY <1>1 DEF RecordCommit, EventsOK
    <3> QED
      BY <1>1, <3>1 DEF RecordCommit, Audited
  <2>3. \A q \in Req : pc'[q] = IF q = r THEN "done" ELSE pc[q]
    BY <1>1 DEF RecordCommit, Goto, Shapes
  <2> QED
    BY <1>1, <2>1, <2>2, <2>3 DEF RecordCommit, TracesOK, Shapes
<1>2. CASE RecordFails(r)
  <2>1. \A q \in Req : Audited(q) => Audited(q)'
    BY <1>2 DEF RecordFails, Audited
  <2>2. \A q \in Req : pc'[q] = IF q = r THEN "done" ELSE pc[q]
    BY <1>2 DEF RecordFails, Goto, Shapes
  <2> QED
    BY <1>2, <2>1, <2>2 DEF RecordFails, TracesOK, Shapes
<1>3. CASE RecordNoPool(r)
  <2>1. \A q \in Req : Audited(q) => Audited(q)'
    BY <1>3 DEF RecordNoPool, Audited
  <2>2. \A q \in Req : pc'[q] = IF q = r THEN "done" ELSE pc[q]
    BY <1>3 DEF RecordNoPool, Goto, Shapes
  <2> QED
    BY <1>3, <2>1, <2>2 DEF RecordNoPool, TracesOK, Shapes
<1>4. CASE ~RecordCommit(r) /\ ~RecordFails(r) /\ ~RecordNoPool(r)
  <2>1. \A q \in Req : Audited(q) => Audited(q)'
    BY <1>4 DEF Step, Refuse, Health, CreateInsert, FlagInsert, FlagSelect, Commit, HandlerFails,
                ReadPage, Respond, RecordInsert, Sink, Audited
  <2>2. /\ UNCHANGED <<kind, pool, log, failures>>
        /\ \E w \in Pc : /\ pc' = [pc EXCEPT ![r] = w] /\ w # "past" /\ pc[r] \notin {"done", "past"}
                         /\ w = "done" => kind[r] = "health" \/ status'[r] = "500"
        /\ \E c \in Status : status' = [status EXCEPT ![r] = c]
    <3>1. UNCHANGED <<kind, pool>> /\ \E c \in Status : status' = [status EXCEPT ![r] = c]
      BY OwnStep
    <3>2. /\ UNCHANGED <<log, failures>> /\ pc[r] \notin {"done", "past"}
          /\ \E w \in Pc : /\ pc' = [pc EXCEPT ![r] = w] /\ w # "past"
                           /\ w = "done" => kind[r] = "health" \/ status'[r] = "500"
      BY <1>4 DEF Step, Refuse, Health, CreateInsert, FlagInsert, FlagSelect, Commit, HandlerFails,
                ReadPage, Respond, RecordInsert, Sink, Answer, Raise, Goto, Pc, Shapes
    <3> QED
      BY <3>1, <3>2
  <2> QED
    BY <2>1, <2>2 DEF TracesOK, Shapes
<1> QED
  BY <1>1, <1>2, <1>3, <1>4

LEMMA TracesRestart == ASSUME Shapes, TracesOK, Restart PROVE TracesOK'
<1>1. \A q \in Req : pc'[q] # "done" /\ (pc'[q] = "past" => pc[q] \in {"done", "past"})
  BY DEF Restart, InFlight, Shapes
<1>2. failures' = 0 /\ UNCHANGED <<kind, status, log, audit>>
  BY DEF Restart
<1> QED
  BY <1>1, <1>2 DEF TracesOK, Audited

-----------------------------------------------------------------------------
(* Counters.                                                                *)

LEMMA OfClassFinite == \A c : IsFiniteSet(OfClass(c)) /\ Cardinality(OfClass(c)) \in Nat
<1> SUFFICES ASSUME NEW c PROVE IsFiniteSet(OfClass(c)) /\ Cardinality(OfClass(c)) \in Nat
  OBVIOUS
<1>1. OfClass(c) \subseteq Req
  BY DEF OfClass, Counted
<1>2. IsFiniteSet(OfClass(c))
  BY <1>1, AuditAssumption, FS_Subset
<1> QED
  BY <1>2, FS_CardinalityType

\* The middleware counts a request once, under the class of its answer.
LEMMA CountedOnce ==
  ASSUME Shapes, CountsOK, NEW r \in Req, NEW w \in {"record", "done"}, NEW k \in Class,
         pc[r] \notin {"record", "write", "done"}, pc' = [pc EXCEPT ![r] = w],
         status' = [status EXCEPT ![r] = k], http' = [http EXCEPT ![k] = @ + 1]
  PROVE  CountsOK'
<1> SUFFICES ASSUME NEW c \in Class PROVE http'[c] = Cardinality(OfClass(c)')
  BY DEF CountsOK
<1>1. /\ r \notin OfClass(c) /\ IsFiniteSet(OfClass(c)) /\ http[c] = Cardinality(OfClass(c))
  BY OfClassFinite DEF OfClass, Counted, CountsOK
<1>2. OfClass(c)' = IF c = k THEN OfClass(c) \cup {r} ELSE OfClass(c)
  BY DEF OfClass, Counted, Shapes
<1>3. http'[c] = IF c = k THEN http[c] + 1 ELSE http[c]
  BY DEF Shapes
<1> QED
  BY <1>1, <1>2, <1>3, FS_AddElement

LEMMA NotCounted ==
  ASSUME Shapes, CountsOK, NEW r \in Req, UNCHANGED http,
         NEW w \in Pc, pc' = [pc EXCEPT ![r] = w], NEW k \in Status, status' = [status EXCEPT ![r] = k],
         \/ pc[r] \notin {"record", "write", "done"} /\ w \notin {"record", "write", "done"}
         \/ pc[r] \in {"record", "write", "done"} /\ w \in {"record", "write", "done"} /\ k = status[r]
  PROVE  CountsOK'
<1>1. \A c \in Class : OfClass(c)' = OfClass(c)
  BY DEF OfClass, Counted, Shapes
<1> QED
  BY <1>1 DEF CountsOK

LEMMA CountsStep == ASSUME Shapes, RowsOK, CountsOK, NEW r \in Req, Step(r) PROVE CountsOK'
<1>1. CASE Respond(r)
  <2>1. status[r] \in Class
    BY <1>1 DEF Respond, RowsOK, Shapes, Status, Class
  <2>2. PICK w \in {"record", "done"} : pc' = [pc EXCEPT ![r] = w]
    BY <1>1 DEF Respond, Goto
  <2>3. PICK k \in Class : k = status[r]
    BY <2>1
  <2>4. status' = [status EXCEPT ![r] = k]
    BY <1>1, <2>3 DEF Respond, Shapes
  <2> QED
    BY <1>1, <2>2, <2>3, <2>4, CountedOnce DEF Respond, Count
<1>2. CASE Raise(r) /\ pc[r] \in {"new", "insert", "select"}
  BY <1>2, CountedOnce DEF Raise, Goto, Count, Class
<1>3. CASE Answer(r, "4xx") \/ Answer(r, "503") \/ Answer(r, "2xx")
  <2>1. CASE pc[r] \in {"new", "insert", "select"} /\ UNCHANGED http
    BY <1>3, <2>1, NotCounted DEF Answer, Goto, Pc, Status, Class
  <2>2. CASE ~(pc[r] \in {"new", "insert", "select"} /\ UNCHANGED http)
    <3>1. pc'[r] = "answer"
      BY <1>3 DEF Answer, Goto, Shapes
    <3>2. Refuse(r) \/ Health(r) \/ FlagSelect(r) \/ Commit(r) \/ ReadPage(r)
      BY <3>1 DEF Step, CreateInsert, FlagInsert, HandlerFails, Respond, RecordNoPool, RecordInsert,
                  RecordCommit, RecordFails, Raise, Goto, Shapes
    <3> QED
      BY <2>2, <3>2 DEF Refuse, Health, FlagSelect, Commit, ReadPage
  <2> QED
    BY <2>1, <2>2
<1>4. CASE UNCHANGED <<status, http>> /\ ~Respond(r)
  <2>1. PICK w \in Pc : /\ pc' = [pc EXCEPT ![r] = w]
                        /\ \/ pc[r] \notin {"record", "write", "done"} /\ w \notin {"record", "write", "done"}
                           \/ pc[r] \in {"record", "write", "done"} /\ w \in {"record", "write", "done"}
    BY <1>4 DEF Step, Refuse, Health, CreateInsert, FlagInsert, FlagSelect, Commit, HandlerFails,
                ReadPage, RecordNoPool, RecordInsert, RecordCommit, RecordFails, Answer, Raise, Goto,
                Count, Pc, Shapes, RowsOK, Status, Class
  <2>2. PICK k \in Status : k = status[r] /\ status' = [status EXCEPT ![r] = k]
    BY <1>4 DEF Shapes
  <2> QED
    BY <1>4, <2>1, <2>2, NotCounted
<1> QED
  BY <1>1, <1>2, <1>3, <1>4 DEF Step, Refuse, Health, CreateInsert, FlagInsert, FlagSelect, Commit,
     HandlerFails, ReadPage, RecordNoPool, RecordInsert, RecordCommit, RecordFails

LEMMA CountsRestart == ASSUME Shapes, Restart PROVE CountsOK'
<1>1. \A c \in Class : OfClass(c)' = {}
  BY DEF Restart, OfClass, Counted, InFlight, Shapes
<1> QED
  BY <1>1, FS_EmptySet DEF CountsOK, Restart, NoCount, Class

-----------------------------------------------------------------------------
(* Pages.                                                                   *)

LEMMA PagesInit == Init => PagesOK
<1> SUFFICES ASSUME Init PROVE PagesOK
  OBVIOUS
<1>1. IsFiniteSet(audit)
  <2> DEFINE f == [i \in 1..Old |-> [id |-> 2 * i, at |-> 0, req |-> None]]
  <2>1. f \in Surjection(1..Old, audit)
    BY DEF Init, Surjection
  <2>2. IsFiniteSet(1..Old)
    BY AuditAssumption, FS_Interval
  <2> QED
    BY <2>1, <2>2, FS_Surjection
<1> QED
  BY <1>1 DEF Init, PagesOK, NewReader, Ids, PagingComplete

\* The rank of an event never falls, and is below the count.
LEMMA RankFacts ==
  ASSUME Shapes, IsFiniteSet(audit), NEW e \in audit
  PROVE  /\ Rank(e) \in Nat /\ Rank(e) < Cardinality(audit)
         /\ audit \subseteq audit' /\ IsFiniteSet(audit') => Rank(e)' \in Nat /\ Rank(e) <= Rank(e)'
<1> DEFINE A == {f \in audit : Before(f, e)}
           B == {f \in audit' : Before(f, e)}
<1>1. A \subseteq audit /\ e \notin A
  BY DEF Before, Shapes, Event, EventId
<1>2. Cardinality(A) \in Nat /\ Cardinality(A) <= Cardinality(audit) /\ Cardinality(audit) \in Nat
      /\ (Cardinality(audit) = Cardinality(A) => audit = A)
  BY <1>1, FS_Subset, FS_CardinalityType
<1>3. ASSUME audit \subseteq audit', IsFiniteSet(audit')
      PROVE  Cardinality(B) \in Nat /\ Cardinality(A) <= Cardinality(B)
  <2>1. A \subseteq B /\ B \subseteq audit'
    BY <1>3
  <2>2. IsFiniteSet(B)
    BY <1>3, <2>1, FS_Subset
  <2> QED
    BY <2>1, <2>2, FS_Subset, FS_CardinalityType
<1>4. Rank(e) = Cardinality(A) /\ Rank(e)' = Cardinality(B)
  BY DEF Rank, Before
<1> QED
  BY <1>1, <1>2, <1>3, <1>4

\* Another event is committed, wherever its time and id put it.
LEMMA PagesGrow ==
  ASSUME Shapes, EventsOK, PagesOK, NEW r \in Req, audit' \in {audit, audit \cup open[r]}, UNCHANGED reader
  PROVE  PagesOK'
<1>1. audit \subseteq audit' /\ IsFiniteSet(audit')
  <2>1. IsFiniteSet(open[r])
    <3>1. open[r] = {} \/ \E e \in Event : open[r] = {e}
      BY DEF EventsOK
    <3> QED
      BY <3>1, FS_EmptySet, FS_Singleton
  <2> QED
    BY <2>1, FS_Union DEF PagesOK
<1>2. reader.owed \subseteq Ids(audit')
  BY <1>1 DEF PagesOK, Ids
<1>3. ASSUME reader.at = "more", NEW e \in audit', e.id \in reader.owed
      PROVE  e.id \in reader.seen \/ reader.offset <= Rank(e)'
  <2>1. e \in audit
    <3>1. PICK f \in audit : f.id = e.id
      BY <1>3 DEF PagesOK, Ids
    <3> QED
      BY <3>1 DEF EventsOK
  <2>2. e.id \in reader.seen \/ reader.offset <= Rank(e)
    BY <1>3, <2>1 DEF PagesOK
  <2>3. Rank(e) \in Nat /\ Rank(e)' \in Nat /\ Rank(e) <= Rank(e)' /\ reader.offset \in Nat
    BY <1>1, <2>1, RankFacts DEF PagesOK, Shapes, Reader
  <2> QED
    BY <2>2, <2>3
<1>4. Ids(audit)' = Ids(audit')
  BY DEF Ids
<1> QED
  BY <1>1, <1>2, <1>3, <1>4 DEF PagesOK, PagingComplete

LEMMA PagesRead ==
  ASSUME Shapes, PagesOK, NEW r \in Req, ReadPage(r)
  PROVE  PagesOK'
<1>1. audit' = audit /\ IsFiniteSet(audit) /\ Ids(audit)' = Ids(audit)
  BY DEF ReadPage, Sink, PagesOK, Ids
<1>2. \A e \in audit : Rank(e)' = Rank(e) /\ Rank(e) \in Nat /\ Rank(e) < Cardinality(audit)
  <2>1. \A e \in audit : Rank(e)' = Rank(e)
    BY <1>1 DEF Rank
  <2> QED
    BY <1>1, <2>1, RankFacts
<1>3. CASE reader' = reader
  BY <1>1, <1>2, <1>3 DEF PagesOK, PagingComplete
<1>4. CASE reader' = [reader EXCEPT !.at = "blind"]
  BY <1>1, <1>4 DEF PagesOK, PagingComplete, Shapes, Reader
<1>5. CASE /\ reader.at \notin {"end", "blind"}
           /\ reader' = [offset |-> reader.offset + Limit,
                seen   |-> reader.seen \cup Ids(Page(reader.offset)),
                owed   |-> IF reader.at = "start" THEN Ids(audit) ELSE reader.owed,
                at     |-> IF reader.offset + Limit >= Cardinality(audit) THEN "end" ELSE "more"]
  <2>1. /\ reader'.offset = reader.offset + Limit
        /\ reader'.seen = reader.seen \cup Ids(Page(reader.offset))
        /\ reader'.owed = IF reader.at = "start" THEN Ids(audit) ELSE reader.owed
        /\ reader'.at = IF reader.offset + Limit >= Cardinality(audit) THEN "end" ELSE "more"
    BY <1>5
  <2>2. reader.offset \in Nat /\ Limit \in Nat /\ Cardinality(audit) \in Nat
        /\ reader.at \in {"start", "more"} /\ (reader.at = "start" => reader.offset = 0)
    BY <1>1, <1>5, AuditAssumption, FS_CardinalityType DEF Shapes, Reader, PagesOK
  <2>3. reader'.owed \subseteq Ids(audit)
    BY <2>1 DEF PagesOK
  <2>4. \A e \in audit : e.id \in reader'.owed => e.id \in reader.seen \/ reader.offset <= Rank(e)
    BY <1>2, <2>1, <2>2 DEF PagesOK
  <2>5. \A e \in audit : e.id \in reader'.owed => e.id \in reader'.seen \/ reader.offset + Limit <= Rank(e)
    <3> SUFFICES ASSUME NEW e \in audit, e.id \in reader'.owed, e.id \notin reader.seen,
                        ~(reader.offset + Limit <= Rank(e))
                 PROVE  e.id \in reader'.seen
      BY <2>1
    <3>1. e \in Page(reader.offset)
      BY <1>2, <2>2, <2>4 DEF Page
    <3> QED
      BY <2>1, <3>1 DEF Ids
  <2>6. ASSUME reader'.at = "end" PROVE reader'.owed \subseteq reader'.seen
    <3>1. reader.offset + Limit >= Cardinality(audit)
      BY <2>1, <2>6
    <3>2. \A e \in audit : ~(reader.offset + Limit <= Rank(e))
      BY <1>2, <2>2, <3>1
    <3> QED
      BY <2>3, <2>5, <3>2 DEF Ids
  <2>7. reader'.at \in {"end", "more"}
    BY <2>1
  <2> QED
    BY <1>1, <1>2, <2>1, <2>3, <2>5, <2>6, <2>7 DEF PagesOK, PagingComplete
<1> QED
  BY <1>3, <1>4, <1>5 DEF ReadPage

LEMMA PagesStep == ASSUME Shapes, EventsOK, PagesOK, NEW r \in Req, Step(r) PROVE PagesOK'
<1>1. CASE ReadPage(r)
  BY <1>1, PagesRead
<1>2. CASE ~ReadPage(r)
  <2>1. audit' \in {audit, audit \cup open[r]} /\ UNCHANGED reader
    BY <1>2 DEF Step, Refuse, Health, CreateInsert, FlagInsert, FlagSelect, Commit, HandlerFails,
                Respond, RecordNoPool, RecordInsert, RecordCommit, RecordFails, Sink
  <2> QED
    BY <2>1, PagesGrow
<1> QED
  BY <1>1, <1>2

LEMMA PagesSame == ASSUME PagesOK, UNCHANGED <<audit, reader>> PROVE PagesOK'
<1>1. \A e \in audit : Rank(e)' = Rank(e)
  BY DEF Rank
<1>2. Ids(audit)' = Ids(audit)
  BY DEF Ids
<1> QED
  BY <1>1, <1>2 DEF PagesOK, PagingComplete

-----------------------------------------------------------------------------
(* The theorems.                                                            *)

LEMMA AuditInit == Init => AuditInv
<1> SUFFICES ASSUME Init PROVE AuditInv
  OBVIOUS
<1>1. RowsOK /\ AnswersDurable
  BY AuditAssumption DEF Init, RowsOK, AnswersDurable
<1>2. TracesOK
  BY DEF Init, TracesOK
<1>3. CountsOK
  <2>1. \A c \in Class : OfClass(c) = {}
    BY DEF Init, OfClass, Counted
  <2> QED
    BY <2>1, FS_EmptySet DEF Init, CountsOK, NoCount, Class
<1> QED
  BY <1>1, <1>2, <1>3, ShapesInit, EventsInit, PagesInit DEF AuditInv

LEMMA AuditNext == AuditInv /\ [Next]_vars => AuditInv'
<1> SUFFICES ASSUME AuditInv, [Next]_vars PROVE AuditInv'
  OBVIOUS
<1>1. CASE UNCHANGED vars
  <2>1. PagesOK'
    BY <1>1, PagesSame DEF vars, AuditInv
  <2>2. CountsOK'
    BY <1>1 DEF vars, AuditInv, CountsOK, OfClass, Counted
  <2> QED
    BY <1>1, <2>1, <2>2 DEF vars, AuditInv, Shapes, RowsOK, EventsOK, TracesOK, Audited, AnswersDurable
<1>2. CASE Restart
  <2>1. PagesOK'
    BY <1>2, PagesSame DEF Restart, AuditInv
  <2> QED
    BY <1>2, <2>1, ShapesRestart, RowsRestart, EventsRestart, TracesRestart, CountsRestart DEF AuditInv
<1>3. ASSUME NEW r \in Req, Step(r) PROVE AuditInv'
  BY <1>3, ShapesStep, RowsStep, EventsStep, TracesStep, CountsStep, PagesStep DEF AuditInv
<1> QED
  BY <1>1, <1>2, <1>3 DEF Next

\* Whatever requests, failures and restarts follow each other: rows, events, traces,
\* counters and pages keep in step (api.py, audit.py, timeline_flags.py).
THEOREM AuditInvariant == Spec => []AuditInv
BY AuditInit, AuditNext, PTL DEF Spec

\* The variables keep their types, event ids are not shared, and no request has
\* two events (AuditRepository.record).
THEOREM AuditTypeCorrect == Spec => []TypeOK
<1>1. AuditInv => TypeOK
  BY DEF AuditInv, Shapes, EventsOK, TypeOK, NoCount, Class
<1> QED
  BY <1>1, AuditInvariant, PTL

\* What a request was told about a case or a flag stays true, whoever raced for
\* the row (_resource_create, create_flag).
THEOREM AnswersStayTrue == Spec => []AnswersDurable
<1>1. AuditInv => AnswersDurable
  BY DEF AuditInv
<1> QED
  BY <1>1, AuditInvariant, PTL

\* A client that pages to the end has seen every event that was there when it
\* began, for any page size, while events are committed out of order (query).
THEOREM PagingSeesAll == Spec => []PagingComplete
<1>1. AuditInv => PagingComplete
  BY DEF AuditInv, PagesOK
<1> QED
  BY <1>1, AuditInvariant, PTL

\* Every answer a handler gave has left its event in the table or in the log
\* (AuditRepository.record).
THEOREM AnswersRecorded == Spec => []EveryAnswerRecorded
<1>1. AuditInv => EveryAnswerRecorded
  BY DEF AuditInv, TracesOK, EveryAnswerRecorded, Answered
<1> QED
  BY <1>1, AuditInvariant, PTL

\* The request counter has each request once, whatever class it ended in and
\* however it ended; a process with a pool and no alert has every event of its
\* answers in the table (_observability, AuditRepository.record, alerts.py).
THEOREM MetricsAreTrue == Spec => []MetricsTrue
<1>1. AuditInv => CountsExact
  BY DEF AuditInv, CountsOK, OfClass, CountsExact
<1>2. AuditInv => QuietSink
  <2> SUFFICES ASSUME AuditInv, pool, ~AuditSinkDegraded, NEW r \in Req, Answered(r), pc[r] = "done"
               PROVE  Audited(r)
    BY DEF QuietSink
  <2>1. failures = 0
    BY DEF AuditInv, Shapes, AuditSinkDegraded
  <2> QED
    BY <2>1 DEF AuditInv, TracesOK, Answered
<1> QED
  BY <1>1, <1>2, AuditInvariant, PTL DEF MetricsTrue
=============================================================================
