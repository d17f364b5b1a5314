---------------------------- MODULE RequestAudit -----------------------------
(***************************************************************************)
(* One request through the API shell: the handlers that write a row        *)
(* (_resource_create, TimelineFlagRepository.create_flag), the middleware   *)
(* that counts and audits it (_observability, AuditRepository.record), the *)
(* alert rules over the counters, and a client that pages through          *)
(* /api/v1/audit-events.  The event loop switches between requests at      *)
(* every await, so each SQL statement and each commit is a step.           *)
(*                                                                         *)
(* Creations name one case id and flags one timeline entry of one analyst, *)
(* so that they meet.  A status is its class: 2xx, 4xx, 503, the only one  *)
(* the handlers give from 500 on, and 500, the answer the server gives     *)
(* outside the middleware to a request that ends in an exception.          *)
(***************************************************************************)
EXTENDS Integers, FiniteSets

CONSTANTS
  Req,         \* requests, each made once
  None,        \* no request
  Old,         \* audit events recorded before, all at one time
  Limit,       \* page size of the audit query
  MaxRestarts  \* bound: restarts of the server

ASSUME AuditAssumption ==
  /\ None \notin Req /\ IsFiniteSet(Req)
  /\ Limit \in Nat \ {0} /\ {Old, MaxRestarts} \subseteq Nat
  /\ Old <= Cardinality(Req)  \* the old ids fit among the new ones

Kind == {"case", "flag", "audit", "health"}
Class == {"2xx", "4xx", "503", "500"}
Status == Class \cup {"none"}
EventId == 1..(Old + Cardinality(Req))

VARIABLES
  kind,      \* per request: its route
  pc,        \* per request: new, insert, select, answer, record, write, done; of
             \* an earlier process: past (it was done) or dead
  status,    \* per request: the class of its answer
  shown,     \* per request: whose row the answer shows
  pool,      \* whether the process has a connection pool
  case, flag,\* the committed rows: the request that made each, or None
  audit,     \* dfir.audit_event: id, recorded_at and request of each row
  open,      \* per request: its audit row before the commit, as a set
  log,       \* requests whose event went to the process log
  http,      \* http_requests_total by class of status
  failures,  \* audit_write_failures_total
  clock,     \* the database's clock
  reader,    \* the paging client: offset, the ids seen, those it should see
  restarts

vars == <<kind, pc, status, shown, pool, case, flag, audit, open, log, http, failures, clock, reader, restarts>>

Handling == <<case, flag, shown>>
Sink == <<audit, open, log, failures, clock>>

NoCount == [c \in Class |-> 0]
NewReader == [offset |-> 0, seen |-> {}, owed |-> {}, at |-> "start"]

Init ==
  /\ kind \in [Req -> Kind]
  /\ pc = [r \in Req |-> "new"]
  /\ status = [r \in Req |-> "none"] /\ shown = [r \in Req |-> None]
  /\ pool \in BOOLEAN
  /\ case = None /\ flag = None
  /\ audit = {[id |-> 2 * i, at |-> 0, req |-> None] : i \in 1..Old}
  /\ open = [r \in Req |-> {}] /\ log = {}
  /\ http = NoCount /\ failures = 0 /\ clock = 0
  /\ reader = NewReader /\ restarts = 0

InFlight(r) == pc[r] \notin {"new", "done", "past", "dead"}
Goto(r, where) == pc' = [pc EXCEPT ![r] = where]
Count(class) == http' = [http EXCEPT ![class] = @ + 1]

\* The handler has an answer for the middleware.
Answer(r, class) ==
  /\ Goto(r, "answer")
  /\ status' = [status EXCEPT ![r] = class]

\* An exception leaves the handler: the middleware counts a 500 and lets it
\* pass; there is no audit event.
Raise(r) ==
  /\ Goto(r, "done")
  /\ status' = [status EXCEPT ![r] = "500"]
  /\ Count("500")

-----------------------------------------------------------------------------
(* The handlers.                                                            *)

\* Before any statement: too large, not allowed, invalid; or there is no pool.
Refuse(r) ==
  /\ pc[r] = "new" /\ kind[r] # "health"
  /\ \/ Answer(r, "4xx")
     \/ kind[r] \in {"case", "flag"} /\ ~pool /\ Answer(r, "503")
  /\ UNCHANGED <<kind, pool, Handling, Sink, http, reader, restarts>>

\* healthz; readyz, which is 503 when a dependency is down.
Health(r) ==
  /\ pc[r] = "new" /\ kind[r] = "health"
  /\ \E class \in {"2xx", "503"} : Answer(r, class)
  /\ UNCHANGED <<kind, pool, Handling, Sink, http, reader, restarts>>

\* A second INSERT under the same unique key waits for the first transaction.
Waits(r) == \E q \in Req \ {r} : kind[q] = kind[r] /\ pc[q] = "insert"

\* _resource_create: INSERT, in a transaction; a taken id is an error.
CreateInsert(r) ==
  /\ pc[r] = "new" /\ kind[r] = "case" /\ pool /\ ~Waits(r)
  /\ \/ case = None /\ Goto(r, "insert") /\ UNCHANGED <<status, http>>
     \/ case # None /\ Raise(r)
  /\ UNCHANGED <<kind, pool, Handling, Sink, reader, restarts>>

\* create_flag: INSERT ... ON CONFLICT DO NOTHING, then a SELECT if nothing
\* came back.
FlagInsert(r) ==
  /\ pc[r] = "new" /\ kind[r] = "flag" /\ pool /\ ~Waits(r)
  /\ Goto(r, IF flag = None THEN "insert" ELSE "select")
  /\ UNCHANGED <<kind, status, pool, Handling, Sink, http, reader, restarts>>

FlagSelectOwn(r) ==
  /\ pc[r] = "select"
  /\ flag' = r /\ shown' = [shown EXCEPT ![r] = r]
  /\ Answer(r, "2xx")
  /\ UNCHANGED <<kind, pool, case, Sink, http, reader, restarts>>
FlagSelect(r) ==
  /\ pc[r] = "select"
  /\ shown' = [shown EXCEPT ![r] = flag]
  /\ Answer(r, "2xx")
  /\ UNCHANGED <<kind, pool, case, flag, Sink, http, reader, restarts>>

Apply(r) ==
  /\ case' = IF kind[r] = "case" THEN r ELSE case
  /\ flag' = IF kind[r] = "flag" THEN r ELSE flag

\* The commit at the end of the handler's transaction.
Commit(r) ==
  /\ pc[r] = "insert"
  /\ Apply(r)
  /\ shown' = [shown EXCEPT ![r] = r]
  /\ Answer(r, "2xx")
  /\ UNCHANGED <<kind, pool, Sink, http, reader, restarts>>

\* The connection fails, or no connection is to be had; a commit under way may
\* have taken effect.
HandlerFails(r) ==
  /\ pool
  /\ \/ pc[r] = "new" /\ kind[r] # "health" /\ UNCHANGED <<case, flag>>
     \/ pc[r] = "select" /\ UNCHANGED <<case, flag>>
     \/ pc[r] = "insert" /\ (Apply(r) \/ UNCHANGED <<case, flag>>)
  /\ Raise(r)
  /\ UNCHANGED <<kind, pool, shown, Sink, reader, restarts>>

-----------------------------------------------------------------------------
(* AuditRepository.query.                                                   *)

\* ORDER BY recorded_at DESC, event_id DESC.
Before(e, f) == e.at > f.at \/ (e.at = f.at /\ e.id > f.id)
Rank(e) == Cardinality({f \in audit : Before(f, e)})

\* LIMIT and OFFSET.
PageSkipping(offset) == {e \in audit : offset < Rank(e) /\ Rank(e) <= offset + Limit}
Page(offset) == {e \in audit : offset <= Rank(e) /\ Rank(e) < offset + Limit}

Ids(events) == {e.id : e \in events}

\* The client asks for one page after the other, until the count says that
\* it has seen everything.  Without a pool the answer is an empty page and the count 0.
ReadPage(r) == LET begins == reader.at = "start" IN
  /\ pc[r] = "new" /\ kind[r] = "audit"
  /\ \A q \in Req : kind[q] = "audit" => ~InFlight(q)
  /\ reader' =
       IF reader.at \in {"end", "blind"} THEN reader
       ELSE IF ~pool THEN [reader EXCEPT !.at = "blind"]
       ELSE [offset |-> reader.offset + Limit,
             seen   |-> reader.seen \cup Ids(Page(reader.offset)),
             owed   |-> IF begins THEN Ids(audit) ELSE reader.owed,
             at     |-> IF reader.offset + Limit >= Cardinality(audit) THEN "end" ELSE "more"]
  /\ Answer(r, "2xx")
  /\ UNCHANGED <<kind, pool, Handling, Sink, http, restarts>>

-----------------------------------------------------------------------------
(* The middleware.                                                          *)

\* The answer is counted; health routes are not audited.
Respond(r) ==
  /\ pc[r] = "answer"
  /\ Count(status[r])
  /\ Goto(r, IF kind[r] = "health" THEN "done" ELSE "record")
  /\ UNCHANGED <<kind, status, pool, Handling, Sink, reader, restarts>>

\* record without a pool: only the log.
RecordNoPool(r) ==
  /\ pc[r] = "record" /\ ~pool
  /\ log' = log \cup {r}
  /\ Goto(r, "done")
  /\ UNCHANGED <<kind, status, pool, Handling, audit, open, failures, clock, http, reader, restarts>>

UsedIds == Ids(audit) \cup UNION {Ids(open[q]) : q \in Req}

\* The INSERT: recorded_at is the clock, event_id a random uuid.
RecordInsert(r) ==
  /\ pc[r] = "record" /\ pool
  /\ \E at \in {clock, clock + 1}, id \in EventId \ UsedIds :
       /\ clock' = at
       /\ open' = [open EXCEPT ![r] = {[id |-> id, at |-> at, req |-> r]}]
  /\ Goto(r, "write")
  /\ UNCHANGED <<kind, status, pool, Handling, audit, log, failures, http, reader, restarts>>

RecordCommit(r) ==
  /\ pc[r] = "write"
  /\ audit' = audit \cup open[r]
  /\ open' = [open EXCEPT ![r] = {}]
  /\ Goto(r, "done")
  /\ UNCHANGED <<kind, status, pool, Handling, log, failures, clock, http, reader, restarts>>

\* The connection, the INSERT or the commit fails; the commit may have taken
\* effect.  The failure is counted and the event logged, and the answer goes out.
RecordFailsSilent(r) ==
  /\ pool /\ pc[r] \in {"record", "write"}
  /\ audit' \in {audit, audit \cup open[r]}
  /\ open' = [open EXCEPT ![r] = {}]
  /\ failures' = failures + 1
  /\ Goto(r, "done")
  /\ UNCHANGED <<kind, status, pool, Handling, log, clock, http, reader, restarts>>
RecordFailsRetry(r) ==
  /\ pool /\ pc[r] \in {"record", "write"}
  /\ audit' \in {audit, audit \cup open[r]}
  /\ open' = [open EXCEPT ![r] = {}]
  /\ Goto(r, IF failures = 0 THEN "record" ELSE "done")
  /\ failures' = failures + 1
  /\ log' = log \cup {r}
  /\ UNCHANGED <<kind, status, pool, Handling, clock, http, reader, restarts>>
RecordFailsUncounted(r) ==
  /\ pool /\ pc[r] \in {"record", "write"}
  /\ audit' \in {audit, audit \cup open[r]}
  /\ open' = [open EXCEPT ![r] = {}]
  /\ log' = log \cup {r}
  /\ Goto(r, "done")
  /\ UNCHANGED <<kind, status, pool, Handling, failures, clock, http, reader, restarts>>
RecordFails(r) ==
  /\ pool /\ pc[r] \in {"record", "write"}
  /\ audit' \in {audit, audit \cup open[r]}
  /\ open' = [open EXCEPT ![r] = {}]
  /\ failures' = failures + 1
  /\ log' = log \cup {r}
  /\ Goto(r, "done")
  /\ UNCHANGED <<kind, status, pool, Handling, clock, http, reader, restarts>>

\* The process dies and a new one starts, with a pool or without: requests and
\* open transactions are gone, counters are in memory.
Restart ==
  /\ restarts < MaxRestarts
  /\ restarts' = restarts + 1
  /\ pool' \in BOOLEAN
  /\ pc' = [r \in Req |-> IF InFlight(r) THEN "dead" ELSE IF pc[r] = "done" THEN "past" ELSE pc[r]]
  /\ open' = [r \in Req |-> {}]
  /\ http' = NoCount /\ failures' = 0
  /\ UNCHANGED <<kind, status, Handling, audit, log, clock, reader>>

-----------------------------------------------------------------------------
(* alerts.py                                                                *)

AuditSinkDegraded == failures >= 1

-----------------------------------------------------------------------------
Step(r) ==
  \/ Refuse(r) \/ Health(r) \/ CreateInsert(r) \/ FlagInsert(r) \/ FlagSelect(r)
  \/ Commit(r) \/ HandlerFails(r) \/ ReadPage(r)
  \/ Respond(r) \/ RecordNoPool(r) \/ RecordInsert(r) \/ RecordCommit(r) \/ RecordFails(r)

Next == Restart \/ \E r \in Req : Step(r)

Spec == Init /\ [][Next]_vars

-----------------------------------------------------------------------------
(* Properties.                                                              *)

\* Rows of the sink are of finished requests, ids are not shared, a request has
\* at most one event.
TypeOK ==
  /\ kind \in [Req -> Kind] /\ status \in [Req -> Status] /\ shown \in [Req -> Req \cup {None}]
  /\ pool \in BOOLEAN /\ {case, flag} \subseteq Req \cup {None}
  /\ http \in [Class -> Nat] /\ {failures, clock} \subseteq Nat
  /\ \A e, f \in audit : e = f \/ (e.id # f.id /\ (e.req = None \/ e.req # f.req))
  /\ \A r \in Req : open[r] # {} => pc[r] = "write"

Audited(r) == \E e \in audit : e.req = r

\* Requests that ended with an answer of their handler and are to be audited.
Answered(r) == pc[r] \in {"done", "past"} /\ kind[r] # "health" /\ status[r] # "500"

\* An answer never goes out without an event in the table or in the log,
\* whatever fails in the sink and whether the process has a pool: record
\* "never drops the event with no trace".  Requests that end in an exception
\* have neither, effect or not: _observability raises again before it records,
\* although the documentation wants a row of every request.
EveryAnswerRecorded == \A r \in Req : Answered(r) => Audited(r) \/ r \in log

\* While audit_sink_degraded is silent, a process that has a pool has the event
\* of every answer its handlers gave in the table.
QuietSink ==
  pool /\ ~AuditSinkDegraded => \A r \in Req : Answered(r) /\ pc[r] = "done" => Audited(r)

\* Requests of this process that have left the inner handlers.
Counted == {r \in Req : pc[r] \in {"record", "write", "done"}}

CountsExact == \A c \in Class : http[c] = Cardinality({r \in Counted : status[r] = c})

\* What the metrics say is so.  http_requests_total has "every request, all
\* statuses" once, those that end in an exception behind a committed row too, and
\* begins anew with the process (_observability).  The sink's alert misses no
\* failed INSERT or commit: while it is silent, the table has the event of every
\* answer.  Not so without a pool: record counts nothing there, against the
\* documentation, and the alert is silent for good.
MetricsTrue == CountsExact /\ QuietSink

\* What a request was told stays true: a created case is stored, two creations
\* of one id never both succeed, and every answer about the flag shows the one
\* stored row, whoever raced for it (_resource_create, create_flag).
AnswersDurable ==
  \A r \in Req : status[r] = "2xx" =>
    /\ kind[r] = "case" => case = r
    /\ kind[r] = "flag" => flag # None /\ shown[r] = flag

\* A client that pages to the end has seen every event that was there when it
\* began, although each page it reads adds one and transactions commit out of
\* the order of recorded_at (query).
PagingComplete == reader.at = "end" => reader.owed \subseteq reader.seen
=============================================================================
