------------------------- MODULE OpenRelikJobsProofs -------------------------
(***************************************************************************)
(* Proofs about OpenRelikJobs, for any callers, jobs, requests and faults.  *)
(***************************************************************************)
EXTENDS OpenRelikJobs, SequenceTheorems, TLAPS

\* Steps at which a call works on the row it was handed.
Working == {"read", "send", "record", "promote", "extract", "normalise", "complete",
            "reread", "count", "ask", "report"}

\* The call has a record, of its own request, and the row still has that request.
Holds(c) ==
  /\ c.request \in Request /\ c.saw \in Row /\ c.saw.request = c.request
  /\ job[c.request.id] # None /\ job[c.request.id].request = c.request

\* What a call knows between two of its statements.
CallOK(c) ==
  /\ c.pc \in Working => Holds(c)
  /\ c.op \in {"submit", "collect"} /\ c.reply \in {"ok", "reused"} => Holds(c)
  /\ c.pc = "insert" => c.request \in Request /\ c.reply = "none"
  /\ c.pc = "ask" => c.saw.workflow \in WorkflowId
  /\ c.pc = "record" => /\ c.response # None /\ c.response.workflow \in WorkflowId
                        /\ flow[c.response.workflow].key = c.request.key
  /\ c.pc \in {"report", "complete"} => c.response # None
  /\ c.pc \in {"promote", "extract", "normalise"} => c.op = "collect"
  /\ c.pc = "normalise" => extracted[IdOf[c.request.evidence]] # None

CallsOK == \A p \in Proc : CallOK(call[p])

\* A row is stored under its request's id and names a workflow of its key.
RowOK(row) ==
  /\ row.request.key = row.request.evidence
  /\ row.workflow # None => /\ row.workflow \in WorkflowId
                            /\ flow[row.workflow].key = row.request.key

RowsOK == \A j \in JobId : job[j] # None => job[j].request.id = j /\ RowOK(job[j])

KeysUnique ==
  \A i, j \in JobId :
    job[i] # None /\ job[j] # None /\ job[i].request.key = job[j].request.key => i = j

\* A workflow was started for a row that is there, one per key.
FlowOK(f) ==
  /\ f.key = f.request.key
  /\ job[f.request.id] # None /\ job[f.request.id].request = f.request

FlowsOK ==
  /\ \A w \in WorkflowId : FlowOK(flow[w])
  /\ \A v, w \in WorkflowId : flow[v].key = flow[w].key => v = w

JobsInv == TypeOK /\ RowsOK /\ KeysUnique /\ FlowsOK /\ CallsOK

\* What every step respects: requests of rows and keys of workflows stay.
Kept ==
  /\ \A j \in JobId : job[j] # None => job'[j] # None /\ job'[j].request = job[j].request
  /\ Len(flow) <= Len(flow')
  /\ \A w \in WorkflowId : flow'[w].key = flow[w].key
  /\ \A i \in EvidenceId : extracted[i] # None => extracted'[i] # None

-----------------------------------------------------------------------------
(* What the invariant gives for one call, row or workflow.                  *)

\* A call that holds a record works on the row of its request.
LEMMA HeldRow ==
  ASSUME JobsInv, NEW p \in Proc, call[p].pc \in Working
  PROVE  /\ call[p] \in Call /\ call[p].request \in Request /\ call[p].saw \in Row
         /\ call[p].saw.request = call[p].request
         /\ Job(p) = call[p].request.id /\ Job(p) \in JobId
         /\ job[Job(p)] # None /\ job[Job(p)] \in Row /\ job[Job(p)].request = call[p].request
         /\ RowOK(job[Job(p)])
<1>1. call[p] \in Call /\ Holds(call[p])
  BY DEF JobsInv, TypeOK, CallsOK, CallOK
<1>2. Job(p) = call[p].request.id /\ Job(p) \in JobId
  BY <1>1 DEF Holds, Job, Request
<1> QED
  BY <1>1, <1>2 DEF Holds, JobsInv, TypeOK, RowsOK

LEMMA FlowsTyped ==
  ASSUME JobsInv
  PROVE  Len(flow) \in Nat /\ \A w \in WorkflowId : w \in Nat /\ flow[w] \in Workflow
BY DEF JobsInv, TypeOK, WorkflowId

\* Calls that do not move keep what they know when rows and workflows are kept.
LEMMA CallsKept ==
  ASSUME JobsInv, Kept, TypeOK',
         \A q \in Proc : call'[q] = call[q] \/ CallOK(call[q])'
  PROVE  CallsOK'
<1> SUFFICES ASSUME NEW q \in Proc, call'[q] = call[q]
             PROVE  CallOK(call[q])'
  BY DEF CallsOK
<1>1. CallOK(call[q]) /\ call[q] \in Call
  BY DEF JobsInv, CallsOK, TypeOK
<1>2. Holds(call[q]) => Holds(call[q])'
  BY DEF Holds, Kept, Request
<1>3. Len(flow) \in Nat /\ Len(flow') \in Nat
  BY DEF JobsInv, TypeOK
<1>4. \A w \in WorkflowId : w \in WorkflowId' /\ flow'[w].key = flow[w].key
  BY <1>3 DEF WorkflowId, Kept
<1>5. call[q].pc = "normalise" => IdOf[call[q].request.evidence] \in EvidenceId
  BY <1>1, JobsAssumption DEF CallOK, Working, Holds, Request
<1>6. call[q].pc = "normalise" => extracted'[IdOf[call[q].request.evidence]] # None
  BY <1>1, <1>5 DEF CallOK, Kept
<1> QED
  BY <1>1, <1>2, <1>4, <1>6 DEF CallOK

\* A step of one call that leaves rows, workflows and evidence alone.
LEMMA CallStep ==
  ASSUME JobsInv, NEW p \in Proc, NEW c \in Call, CallOK(c),
         call' = [call EXCEPT ![p] = c], UNCHANGED <<job, flow, published, files>>
  PROVE  JobsInv'
<1>1. \A q \in Proc : call'[q] = IF q = p THEN c ELSE call[q]
  BY DEF JobsInv, TypeOK
<1>2. TypeOK'
  BY DEF JobsInv, TypeOK, WorkflowId, files
<1>3. CallOK(c)'
  BY DEF CallOK, Holds, WorkflowId, files
<1>4. CallOK(call[p])'
  BY <1>1, <1>3 DEF CallOK, Holds
<1>5. Kept
  BY DEF Kept, JobsInv, TypeOK, files
<1>6. CallsOK'
  BY <1>1, <1>2, <1>4, <1>5, CallsKept
<1>7. RowsOK' /\ KeysUnique' /\ FlowsOK'
  BY DEF JobsInv, RowsOK, RowOK, KeysUnique, FlowsOK, FlowOK, WorkflowId
<1> QED
  BY <1>2, <1>6, <1>7 DEF JobsInv

\* An UPDATE of a row that keeps its request.
LEMMA RowStep ==
  ASSUME JobsInv, NEW j \in JobId, job[j] # None, NEW row \in Row, Write(j, row),
         row.request = job[j].request, RowOK(row), UNCHANGED <<flow, published, files>>,
         call' \in [Proc -> Call],
         \A q \in Proc : call'[q] = call[q] \/ CallOK(call[q])'
  PROVE  JobsInv'
<1>1. \A i \in JobId : job'[i] = IF i = j THEN row ELSE job[i]
  BY DEF JobsInv, TypeOK, Write
<1>2. row # None
  BY JobsAssumption
<1>3. row.workflow \in WorkflowId \cup {None}
  BY DEF RowOK
<1>4. TypeOK'
  BY <1>1, <1>3 DEF JobsInv, TypeOK, WorkflowId, Write, files
<1>5. Kept
  BY <1>1, <1>2 DEF Kept, JobsInv, TypeOK, files
<1>6. CallsOK'
  BY <1>4, <1>5, CallsKept
<1>7. RowsOK'
  BY <1>1, <1>2 DEF JobsInv, RowsOK, RowOK, WorkflowId
<1>8. KeysUnique'
  BY <1>1, <1>2 DEF JobsInv, KeysUnique
<1>9. FlowsOK'
  <2>1. \A w \in WorkflowId : flow[w].request.id \in JobId
    BY FlowsTyped DEF Workflow, Request
  <2> QED
    BY <1>1, <1>2, <2>1 DEF JobsInv, FlowsOK, FlowOK, WorkflowId
<1> QED
  BY <1>4, <1>6, <1>7, <1>8, <1>9 DEF JobsInv

-----------------------------------------------------------------------------
(* The actions that only move a call.                                       *)

LEMMA IdleOK ==
  ASSUME NEW reply \in {"none", "ok"}
  PROVE  [Idle EXCEPT !.reply = reply] \in Call /\ CallOK([Idle EXCEPT !.reply = reply])
BY DEF Idle, Call, CallOK, Working

\* Answering with anything but success.
LEMMA AnswerStep ==
  ASSUME JobsInv, NEW p \in Proc, Answer(p, "error") \/ Answer(p, "rejected") \/ Answer(p, "conflict"),
         UNCHANGED <<job, flow, published, files>>
  PROVE  JobsInv'
<1>1. PICK reply \in {"error", "rejected", "conflict"} : Answer(p, reply)
  OBVIOUS
<1> DEFINE c == [call[p] EXCEPT !.pc = "idle", !.response = None, !.reply = reply]
<1>2. call[p] \in Call
  BY DEF JobsInv, TypeOK
<1>3. c \in Call /\ c.pc = "idle" /\ c.reply = reply
  BY <1>2 DEF Call
<1>4. call' = [call EXCEPT ![p] = c]
  BY <1>1 DEF Answer
<1> HIDE DEF c
<1>5. CallOK(c)
  BY <1>3 DEF CallOK, Working
<1> QED
  BY <1>3, <1>4, <1>5, CallStep

LEMMA StartSubmitInv ==
  ASSUME JobsInv, NEW p \in Proc, NEW r \in Requests, StartSubmit(p, r)
  PROVE  JobsInv'
<1> DEFINE c == [Idle EXCEPT !.op = "submit", !.pc = "insert", !.request = r, !.saw = None]
<1>1. c \in Call /\ CallOK(c)
  BY JobsAssumption DEF Idle, Call, CallOK, Working
<1> QED
  BY <1>1, CallStep DEF StartSubmit, Begin

LEMMA StartCollectionInv ==
  ASSUME JobsInv, NEW p \in Proc, NEW x \in Collections, StartCollection(p, x[1], x[2])
  PROVE  JobsInv'
<1> DEFINE e == x[1]
           r == [id |-> RequestId[e], key |-> e, evidence |-> e, asset |-> x[2]]
           c == [Idle EXCEPT !.op = "collect", !.pc = "insert", !.request = r, !.saw = None]
<1>1. r \in Request
  BY JobsAssumption DEF Request
<1>2. c \in Call /\ CallOK(c)
  BY <1>1 DEF Idle, Call, CallOK, Working
<1> QED
  BY <1>2, CallStep DEF StartCollection, Begin

LEMMA CrashInv ==
  ASSUME JobsInv, NEW p \in Proc, Crash(p)
  PROVE  JobsInv'
<1>1. Idle \in Call /\ CallOK(Idle)
  BY DEF Idle, Call, CallOK, Working
<1> QED
  BY <1>1, CallStep DEF Crash

LEMMA StartPollInv ==
  ASSUME JobsInv, NEW p \in Proc, NEW j \in JobId, StartPoll(p, j)
  PROVE  JobsInv'
<1>1. job[j] # None /\ job[j] \in Row /\ job[j].request \in Request /\ job[j].request.id = j
  BY DEF StartPoll, JobsInv, TypeOK, RowsOK, Row
<1>2. CASE Pollable(job[j]) /\ Begin(p, "poll", "ask", job[j].request, job[j])
  <2> DEFINE c == [Idle EXCEPT !.op = "poll", !.pc = "ask", !.request = job[j].request, !.saw = job[j]]
  <2>1. job[j].workflow \in WorkflowId
    BY <1>1, <1>2 DEF Pollable, JobsInv, TypeOK
  <2>2. c \in Call /\ CallOK(c)
    BY <1>1, <2>1 DEF Idle, Call, CallOK, Working, Holds
  <2> QED
    BY <1>2, <2>2, CallStep DEF StartPoll, Begin
<1>3. CASE call' = [call EXCEPT ![p] = [Idle EXCEPT !.reply = "ok"]]
  BY <1>3, IdleOK, CallStep DEF StartPoll
<1> QED
  BY <1>2, <1>3 DEF StartPoll

LEMMA StartRetryInv ==
  ASSUME JobsInv, NEW p \in Proc, NEW j \in JobId, StartRetry(p, j)
  PROVE  JobsInv'
<1>1. job[j] # None /\ job[j] \in Row /\ job[j].request \in Request /\ job[j].request.id = j
  BY DEF StartRetry, JobsInv, TypeOK, RowsOK, Row
<1>2. CASE Retryable(job[j]) /\ Begin(p, "retry", "send", job[j].request, job[j])
  <2> DEFINE c == [Idle EXCEPT !.op = "retry", !.pc = "send", !.request = job[j].request, !.saw = job[j]]
  <2>1. c \in Call /\ CallOK(c)
    BY <1>1 DEF Idle, Call, CallOK, Working, Holds
  <2> QED
    BY <1>2, <2>1, CallStep DEF StartRetry, Begin
<1>3. CASE call' = [call EXCEPT ![p] = [Idle EXCEPT !.reply = "ok"]]
  BY <1>3, IdleOK, CallStep DEF StartRetry
<1> QED
  BY <1>2, <1>3 DEF StartRetry

LEMMA ReadClaimInv ==
  ASSUME JobsInv, NEW p \in Proc, ReadClaim(p)
  PROVE  JobsInv'
<1> DEFINE row == job[Job(p)]
           c(pc, reply) == [call[p] EXCEPT !.saw = row, !.pc = pc, !.response = None, !.reply = reply]
           d == [call[p] EXCEPT !.pc = "send", !.saw = row]
<1>1. /\ call[p] \in Call /\ call[p].request \in Request /\ row \in Row
      /\ row.request = call[p].request /\ Job(p) = call[p].request.id /\ row # None
  BY HeldRow DEF ReadClaim, At, Working
<1>2. call[p].pc = "read" /\ Holds(call[p])
  BY DEF ReadClaim, At, JobsInv, CallsOK, CallOK, Working
<1>3. ASSUME NEW pc \in {"idle", "promote"}, NEW reply \in {"none", "ok", "reused"},
             pc = "promote" => call[p].op = "collect",
             call' = [call EXCEPT ![p].saw = row, ![p].pc = pc, ![p].response = None,
                                  ![p].reply = reply]
      PROVE  JobsInv'
  <2>1. c(pc, reply) \in Call
    BY <1>1 DEF Call
  <2>2. CallOK(c(pc, reply))
    <3> DEFINE e == c(pc, reply)
    <3>1. e.pc = pc /\ Holds(e) /\ e.op = call[p].op
      BY <1>1, <1>2 DEF Call, Holds
    <3> HIDE DEF e
    <3> QED
      BY <1>2, <1>3, <3>1 DEF CallOK, e
  <2>3. call' = [call EXCEPT ![p] = c(pc, reply)]
    BY <1>3
  <2> QED
    BY <2>1, <2>2, <2>3, CallStep DEF ReadClaim
<1>4. ASSUME call' = [call EXCEPT ![p].pc = "send", ![p].saw = row]
      PROVE  JobsInv'
  <2>1. d \in Call
    BY <1>1 DEF Call
  <2>2. CallOK(d)
    <3>1. d.pc = "send" /\ Holds(d) /\ d.op = call[p].op
      BY <1>1, <1>2 DEF Call, Holds
    <3> HIDE DEF d
    <3> QED
      BY <1>2, <3>1 DEF CallOK
  <2> QED
    BY <1>4, <2>1, <2>2, CallStep DEF ReadClaim
<1> QED
  BY <1>3, <1>4 DEF ReadClaim, Claimed, ResumeAt

LEMMA NormaliseInv ==
  ASSUME JobsInv, NEW p \in Proc, Normalise(p)
  PROVE  JobsInv'
<1> DEFINE i == IdOf[call[p].request.evidence]
<1>1. PICK o \in {extracted[i], "none"} :
        call' = [call EXCEPT ![p].pc = "complete",
                   ![p].response = [workflow |-> 0, status |-> "succeeded", outputs |-> o]]
  BY DEF Normalise
<1> DEFINE a == [workflow |-> 0, status |-> "succeeded", outputs |-> o]
           c == [call[p] EXCEPT !.pc = "complete", !.response = a]
<1>2. call[p] \in Call /\ call[p].pc = "normalise" /\ CallOK(call[p])
  BY DEF Normalise, At, JobsInv, TypeOK, CallsOK
<1>3. o \in Outputs
  <2>1. i \in EvidenceId /\ extracted[i] # None
    BY <1>2, JobsAssumption DEF CallOK, Working, Holds, Request
  <2> QED
    BY <2>1 DEF JobsInv, TypeOK, Outputs, Reported
<1>4. a \in Response /\ a # None
  BY <1>3, JobsAssumption DEF Response, Status, Terminal
<1>5. c \in Call
  BY <1>2, <1>4 DEF Call
<1>6. CallOK(c)
  <2>1. Holds(c)
    BY <1>2 DEF Call, CallOK, Holds, Working
  <2>2. /\ c.pc = "complete" /\ c.response = a /\ c.request = call[p].request
        /\ c.op = call[p].op
    BY <1>2 DEF Call
  <2> HIDE DEF c
  <2> QED
    BY <1>2, <1>4, <2>1, <2>2 DEF CallOK, Working
<1>7. call' = [call EXCEPT ![p] = c] /\ UNCHANGED <<job, flow, published, files>>
  BY <1>1 DEF Normalise
<1> QED
  BY <1>5, <1>6, <1>7, CallStep

LEMMA RereadInv ==
  ASSUME JobsInv, NEW p \in Proc, Reread(p)
  PROVE  JobsInv'
<1> DEFINE c == [call[p] EXCEPT !.pc = "count", !.saw = job[Job(p)]]
<1>1. /\ call[p] \in Call /\ call[p].request \in Request /\ job[Job(p)] \in Row
      /\ job[Job(p)].request = call[p].request
  BY HeldRow DEF Reread, At, Working
<1>2. call[p].pc = "reread" /\ CallOK(call[p])
  BY DEF Reread, At, JobsInv, CallsOK
<1>3. c \in Call
  BY <1>1 DEF Call
<1>4. CallOK(c)
  BY <1>1, <1>2 DEF Call, CallOK, Holds, Working
<1> QED
  BY <1>3, <1>4, CallStep DEF Reread

LEMMA AskInv ==
  ASSUME JobsInv, NEW p \in Proc, Ask(p)
  PROVE  JobsInv'
<1> DEFINE w == call[p].saw.workflow
           a == [workflow |-> w, status |-> flow[w].status, outputs |-> flow[w].outputs]
           c == [call[p] EXCEPT !.pc = "report", !.response = a]
<1>1. call[p] \in Call /\ call[p].pc = "ask" /\ CallOK(call[p])
  BY DEF Ask, At, JobsInv, TypeOK, CallsOK
<1>2. w \in WorkflowId /\ w \in Nat /\ flow[w] \in Workflow /\ FlowOK(flow[w])
  BY <1>1, FlowsTyped DEF CallOK, JobsInv, FlowsOK
<1>3. a \in Response /\ a # None
  BY <1>2, JobsAssumption DEF Response, Workflow, Outputs
<1>4. c \in Call
  BY <1>1, <1>3 DEF Call
<1>5. CallOK(c)
  BY <1>1, <1>2, <1>3 DEF Call, CallOK, Holds, Working, FlowOK
<1>6. CASE call' = [call EXCEPT ![p].pc = "report", ![p].response = a]
  BY <1>4, <1>5, <1>6, CallStep DEF Ask
<1> QED
  BY <1>6, AnswerStep DEF Ask

LEMMA WorkFailsInv ==
  ASSUME JobsInv, NEW p \in Proc, WorkFails(p) \/ PromoteRefused(p)
  PROVE  JobsInv'
BY AnswerStep DEF WorkFails, PromoteRefused

-----------------------------------------------------------------------------
(* The actions that write rows.                                             *)

LEMMA NewRowOK ==
  ASSUME NEW r \in Request, Accepts(r)
  PROVE  NewRow(r) \in Row /\ NewRow(r) # None /\ RowOK(NewRow(r)) /\ NewRow(r).request = r
BY JobsAssumption DEF NewRow, Row, RowOK, Status, Outputs, Reported, Accepts

\* The INSERT that succeeds: the id is free and no row has the key.
LEMMA InsertNew ==
  ASSUME JobsInv, NEW p \in Proc, NEW r \in Request, r = call[p].request, call[p].pc = "insert",
         Accepts(r), job[r.id] = None, WithKey(r.key) = {}, Write(r.id, NewRow(r)),
         call' = [call EXCEPT ![p].pc = "read", ![p].saw = NewRow(r)],
         UNCHANGED <<flow, published, files>>
  PROVE  JobsInv'
<1> DEFINE row == NewRow(r)
<1>1. row \in Row /\ row # None /\ RowOK(row) /\ row.request = r /\ r.id \in JobId
  BY NewRowOK DEF Request
<1>2. \A i \in JobId : job'[i] = IF i = r.id THEN row ELSE job[i]
  BY DEF JobsInv, TypeOK, Write
<1> HIDE DEF row
<1>3. call[p] \in Call
  BY DEF JobsInv, TypeOK
<1>4. PICK c \in Call : /\ call' = [call EXCEPT ![p] = c]
                        /\ c.request = r /\ c.saw = row /\ c.pc = "read"
                        /\ c.op = call[p].op
  <2> DEFINE d == [call[p] EXCEPT !.pc = "read", !.saw = row]
  <2>1. /\ d \in Call /\ d.request = r /\ d.saw = row /\ d.pc = "read"
        /\ d.op = call[p].op
    BY <1>1, <1>3 DEF Call
  <2>2. call' = [call EXCEPT ![p] = d]
    BY DEF row
  <2> QED
    BY <2>1, <2>2
<1>5. \A q \in Proc : call'[q] = IF q = p THEN c ELSE call[q]
  BY <1>4 DEF JobsInv, TypeOK
<1>6. TypeOK'
  <2>1. row.workflow \in WorkflowId \cup {None}
    BY <1>1 DEF RowOK
  <2>2. call' \in [Proc -> Call]
    BY <1>3, <1>5 DEF JobsInv, TypeOK
  <2>3. job' \in [JobId -> Row \cup {None}]
    BY <1>1 DEF JobsInv, TypeOK, Write, row
  <2> QED
    BY <1>2, <2>1, <2>2, <2>3 DEF JobsInv, TypeOK, WorkflowId, files
<1>7. Kept
  BY <1>2 DEF Kept, JobsInv, TypeOK, files
<1>8. CallOK(c)'
  BY <1>1, <1>2, <1>4 DEF CallOK, Holds, Working
<1>9. CallsOK'
  <2>1. CallOK(call[p])'
    BY <1>5, <1>8 DEF CallOK, Holds
  <2> QED
    BY <1>5, <1>6, <1>7, <2>1, CallsKept
<1>10. RowsOK'
  BY <1>1, <1>2 DEF JobsInv, RowsOK, RowOK, WorkflowId
<1>11. KeysUnique'
  BY <1>1, <1>2 DEF JobsInv, KeysUnique, WithKey
<1>12. FlowsOK'
  <2>1. \A w \in WorkflowId : flow[w].request.id \in JobId
    BY FlowsTyped DEF Workflow, Request
  <2> QED
    BY <1>2, <2>1 DEF JobsInv, FlowsOK, FlowOK, WorkflowId
<1> QED
  BY <1>6, <1>9, <1>10, <1>11, <1>12 DEF JobsInv

LEMMA InsertInv ==
  ASSUME JobsInv, NEW p \in Proc, Insert(p)
  PROVE  JobsInv'
<1> DEFINE r == call[p].request
<1>1. call[p] \in Call /\ call[p].pc = "insert" /\ CallOK(call[p]) /\ r \in Request /\ call[p].reply = "none"
  BY DEF Insert, At, JobsInv, TypeOK, CallsOK, CallOK
<1>2. CASE ~Accepts(r) /\ Answer(p, "rejected") /\ UNCHANGED job
  BY <1>2, AnswerStep DEF Insert
<1>3. CASE /\ Accepts(r) /\ job[r.id] = None /\ WithKey(r.key) = {}
           /\ Write(r.id, NewRow(r))
           /\ call' = [call EXCEPT ![p].pc = "read", ![p].saw = NewRow(r)]
  BY <1>1, <1>3, InsertNew DEF Insert
<1>4. CASE Answer(p, "error") /\ UNCHANGED job
  BY <1>4, AnswerStep DEF Insert
<1>5. ASSUME NEW j \in WithKey(r.key), SameRequest(job[j].request, r),
             call' = [call EXCEPT ![p].pc = "read", ![p].saw = job[j]], UNCHANGED job
      PROVE  JobsInv'
  <2> DEFINE c == [call[p] EXCEPT !.pc = "read", !.saw = job[j]]
  <2>1. job[j] \in Row /\ job[j].request = r /\ job[r.id] # None /\ job[r.id].request = r
    BY <1>5 DEF WithKey, SameRequest, JobsInv, TypeOK, RowsOK
  <2>2. c \in Call
    BY <1>1, <2>1 DEF Call
  <2>3. CallOK(c)
    BY <1>1, <2>1 DEF Call, CallOK, Holds
  <2> QED
    BY <1>5, <2>2, <2>3, CallStep DEF Insert
<1>6. ASSUME Answer(p, "conflict"), UNCHANGED job
      PROVE  JobsInv'
  BY <1>6, AnswerStep DEF Insert
<1> QED
  BY <1>2, <1>3, <1>4, <1>5, <1>6 DEF Insert

\* The calls that write their row and go on or answer.
LEMMA CallWrites ==
  ASSUME JobsInv, NEW p \in Proc, call[p].pc \in Working, NEW row \in Row,
         Write(Job(p), row), row.request = call[p].request, RowOK(row), UNCHANGED <<flow, published, files>>,
         Answer(p, "ok") \/ Goto(p, "read") \/ Goto(p, "reread")
  PROVE  JobsInv'
<1>1. /\ call[p] \in Call /\ Job(p) \in JobId /\ Job(p) = call[p].request.id /\ job[Job(p)] # None
      /\ row.request = job[Job(p)].request /\ call[p].request \in Request
      /\ call[p].saw \in Row /\ call[p].saw.request = call[p].request
  BY HeldRow
<1>2. PICK c \in Call : /\ call' = [call EXCEPT ![p] = c]
                        /\ c.request = call[p].request /\ c.saw = call[p].saw
                        /\ c.pc \in {"idle", "read", "reread"}
                        /\ c.op = call[p].op
  <2>1. CASE Answer(p, "ok")
    <3> DEFINE d == [call[p] EXCEPT !.pc = "idle", !.response = None, !.reply = "ok"]
    <3>1. /\ d \in Call /\ d.request = call[p].request /\ d.saw = call[p].saw /\ d.pc = "idle"
          /\ d.op = call[p].op
      BY <1>1 DEF Call
    <3>2. call' = [call EXCEPT ![p] = d]
      BY <2>1 DEF Answer
    <3> QED
      BY <3>1, <3>2
  <2>2. ASSUME NEW pc \in {"read", "reread"}, Goto(p, pc)
        PROVE  \E c \in Call : /\ call' = [call EXCEPT ![p] = c]
                               /\ c.request = call[p].request /\ c.saw = call[p].saw
                               /\ c.pc = pc
                               /\ c.op = call[p].op
    <3> DEFINE d == [call[p] EXCEPT !.pc = pc]
    <3>1. /\ d \in Call /\ d.request = call[p].request /\ d.saw = call[p].saw /\ d.pc = pc
          /\ d.op = call[p].op
      BY <1>1 DEF Call
    <3>2. call' = [call EXCEPT ![p] = d]
      BY <2>2 DEF Goto
    <3> QED
      BY <3>1, <3>2
  <2> QED
    BY <2>1, <2>2
<1>3. \A q \in Proc : call'[q] = IF q = p THEN c ELSE call[q]
  BY <1>2 DEF JobsInv, TypeOK
<1>4. call' \in [Proc -> Call]
  BY <1>2, <1>3 DEF JobsInv, TypeOK
<1>5. job'[Job(p)] = row /\ row # None
  BY <1>1, JobsAssumption DEF Write, JobsInv, TypeOK
<1>6. CallOK(c)'
  BY <1>1, <1>2, <1>5 DEF CallOK, Holds
<1>7. CallOK(call[p])'
  BY <1>3, <1>6 DEF CallOK, Holds
<1> QED
  BY <1>1, <1>3, <1>4, <1>7, RowStep

LEMMA RecordInv ==
  ASSUME JobsInv, NEW p \in Proc, Record(p)
  PROVE  JobsInv'
<1> DEFINE c == call[p]
           row == [job[Job(p)] EXCEPT !.workflow = c.response.workflow,
                     !.status = c.response.status, !.attempts = c.saw.attempts + 1]
<1>1. /\ c \in Call /\ c.saw \in Row /\ Job(p) \in JobId /\ job[Job(p)] \in Row
      /\ job[Job(p)].request = c.request /\ RowOK(job[Job(p)])
  BY HeldRow DEF Record, At, Working
<1>2. /\ c.pc = "record" /\ c.response \in Response /\ c.response.workflow \in WorkflowId
      /\ flow[c.response.workflow].key = c.request.key
  BY <1>1 DEF Record, At, JobsInv, CallsOK, CallOK, Call
<1>3. row \in Row /\ row.request = c.request
  <2>1. c.response.workflow \in Nat /\ c.response.status \in Status /\ c.saw.attempts + 1 \in Nat
    BY <1>1, <1>2 DEF Row, Response
  <2> HIDE DEF c
  <2> QED
    BY <1>1, <2>1 DEF Row
<1>4. RowOK(row)
  BY <1>1, <1>2 DEF RowOK, Row
<1>5. c.pc \in Working /\ Write(Job(p), row) /\ UNCHANGED <<flow, published, files>>
  BY <1>2 DEF Record, Working
<1>6. Answer(p, "ok") \/ Goto(p, "read")
  BY DEF Record
<1> QED
  BY <1>3, <1>4, <1>5, <1>6, CallWrites

LEMMA CompleteInv ==
  ASSUME JobsInv, NEW p \in Proc, Complete(p)
  PROVE  JobsInv'
<1> DEFINE c == call[p]
           row == [job[Job(p)] EXCEPT !.status = "succeeded", !.outputs = c.response.outputs]
<1>1. /\ c \in Call /\ Job(p) \in JobId /\ job[Job(p)] \in Row
      /\ job[Job(p)].request = c.request /\ RowOK(job[Job(p)])
  BY HeldRow DEF Complete, At, Working
<1>2. c.pc = "complete" /\ c.response \in Response
  BY <1>1 DEF Complete, At, JobsInv, CallsOK, CallOK, Call
<1>3. row \in Row /\ row.request = c.request
  BY <1>1, <1>2 DEF Row, Response, Status, Terminal
<1>4. RowOK(row)
  BY <1>1, <1>2 DEF RowOK, Row
<1>5. c.pc \in Working /\ Write(Job(p), row) /\ UNCHANGED <<flow, published, files>> /\ Goto(p, "reread")
  BY <1>2 DEF Complete, Working
<1> QED
  BY <1>3, <1>4, <1>5, CallWrites

LEMMA CountInv ==
  ASSUME JobsInv, NEW p \in Proc, Count(p)
  PROVE  JobsInv'
<1> DEFINE c == call[p]
           row == [job[Job(p)] EXCEPT !.attempts = c.saw.attempts + 1]
<1>1. /\ c.saw \in Row /\ Job(p) \in JobId /\ job[Job(p)] \in Row
      /\ job[Job(p)].request = c.request /\ RowOK(job[Job(p)])
  BY HeldRow DEF Count, At, Working
<1>2. row \in Row /\ row.request = c.request
  BY <1>1 DEF Row
<1>3. RowOK(row)
  BY <1>1 DEF RowOK, Row
<1>4. c.pc \in Working /\ Write(Job(p), row) /\ UNCHANGED <<flow, published, files>> /\ Answer(p, "ok")
  BY DEF Count, At, Working
<1> QED
  BY <1>2, <1>3, <1>4, CallWrites

LEMMA ReportInv ==
  ASSUME JobsInv, NEW p \in Proc, Report(p)
  PROVE  JobsInv'
<1> DEFINE c == call[p]
           row == [job[Job(p)] EXCEPT !.status = c.response.status, !.outputs = c.response.outputs]
<1>1. /\ c \in Call /\ Job(p) \in JobId /\ job[Job(p)] \in Row
      /\ job[Job(p)].request = c.request /\ RowOK(job[Job(p)])
  BY HeldRow DEF Report, At, Working
<1>2. c.pc = "report" /\ c.response \in Response
  BY <1>1 DEF Report, At, JobsInv, CallsOK, CallOK, Call
<1>3. row \in Row /\ row.request = c.request
  BY <1>1, <1>2 DEF Row, Response
<1>4. RowOK(row)
  BY <1>1, <1>2 DEF RowOK, Row
<1>5. c.pc \in Working /\ Write(Job(p), row) /\ UNCHANGED <<flow, published, files>> /\ Answer(p, "ok")
  BY <1>2 DEF Report, Working
<1> QED
  BY <1>3, <1>4, <1>5, CallWrites

LEMMA ApproveInv ==
  ASSUME JobsInv, NEW j \in JobId, Approve(j)
  PROVE  JobsInv'
<1> DEFINE row == [job[j] EXCEPT !.review = "approved"]
<1>1. job[j] # None /\ job[j] \in Row /\ RowOK(job[j])
  BY DEF Approve, JobsInv, TypeOK, RowsOK
<1>2. row \in Row /\ row.request = job[j].request
  BY <1>1 DEF Row
<1>3. RowOK(row)
  BY <1>1 DEF RowOK, Row
<1>4. Write(j, row) /\ UNCHANGED <<flow, published, call, files>>
  BY DEF Approve
<1>5. call' \in [Proc -> Call] /\ \A q \in Proc : call'[q] = call[q]
  BY <1>4 DEF JobsInv, TypeOK
<1> QED
  BY <1>1, <1>2, <1>3, <1>4, <1>5, RowStep

-----------------------------------------------------------------------------
(* The service and the evidence store.                                      *)

\* A submission reaches the service: a known key starts nothing.
LEMMA ServiceStarts ==
  ASSUME JobsInv, NEW p \in Proc, call[p].pc = "send", flow' = StartWorkflow(p),
         UNCHANGED <<job, published, files>>
  PROVE  /\ flow' \in Seq(Workflow) /\ Kept /\ RowsOK' /\ KeysUnique' /\ FlowsOK'
         /\ \A j \in JobId : job'[j] # None => job'[j].workflow \in WorkflowId' \cup {None}
<1> DEFINE f == [request |-> call[p].request, key |-> SentKey(p),
                 status |-> "queued", outputs |-> "none"]
<1>1. /\ call[p].request \in Request /\ SentKey(p) = call[p].request.key
      /\ job[call[p].request.id] # None /\ job[call[p].request.id].request = call[p].request
  BY HeldRow DEF Working, SentKey
<1>2. f \in Workflow /\ f.key = f.request.key /\ FlowOK(f)
  BY <1>1 DEF Workflow, Request, Status, Reported, FlowOK
<1>3. CASE flow' = flow
  <2>1. flow \in Seq(Workflow)
    BY DEF JobsInv, TypeOK
  <2>2. WorkflowId' = WorkflowId
    BY <1>3 DEF WorkflowId
  <2>3. Kept
    BY <1>3, <2>1 DEF Kept, files
  <2>4. RowsOK' /\ KeysUnique' /\ FlowsOK'
    BY <1>3, <2>2 DEF JobsInv, RowsOK, RowOK, KeysUnique, FlowsOK, FlowOK
  <2> QED
    BY <1>3, <2>1, <2>2, <2>3, <2>4 DEF JobsInv, TypeOK
<1>4. CASE flow' = Append(flow, f) /\ Started(SentKey(p)) = {}
  <2> HIDE DEF f
  <2>1. flow \in Seq(Workflow)
    BY DEF JobsInv, TypeOK
  <2>2. /\ flow' \in Seq(Workflow) /\ Len(flow) \in Nat /\ Len(flow') = Len(flow) + 1
        /\ \A w \in 1..Len(flow) : flow'[w] = flow[w]
        /\ flow'[Len(flow) + 1] = f
    BY <1>2, <1>4, <2>1
  <2>3. \A w \in WorkflowId' : w \in WorkflowId \/ w = Len(flow) + 1
    BY <2>2 DEF WorkflowId
  <2>4. \A w \in WorkflowId : w \in WorkflowId' /\ flow'[w] = flow[w]
    BY <2>2 DEF WorkflowId
  <2>5. Kept
    BY <2>2, <2>4 DEF Kept, files
  <2>6. RowsOK' /\ KeysUnique'
    BY <2>4 DEF JobsInv, RowsOK, RowOK, KeysUnique
  <2>7. \A w \in WorkflowId : flow[w].key # f.key
    BY <1>4 DEF Started, f
  <2>8. FlowsOK'
    <3>1. \A w \in WorkflowId' : FlowOK(flow'[w])
      BY <1>2, <2>2, <2>3, <2>4 DEF JobsInv, FlowsOK
    <3>2. \A w \in WorkflowId' : FlowOK(flow[w])'
      BY <3>1 DEF FlowOK
    <3>3. \A v, w \in WorkflowId' : flow'[v].key = flow'[w].key => v = w
      BY <2>2, <2>3, <2>4, <2>7 DEF JobsInv, FlowsOK
    <3> QED
      BY <3>2, <3>3 DEF FlowsOK
  <2> QED
    BY <2>2, <2>4, <2>5, <2>6, <2>8 DEF JobsInv, TypeOK
<1> QED
  BY <1>3, <1>4 DEF StartWorkflow

LEMMA SendInv ==
  ASSUME JobsInv, NEW p \in Proc, Send(p)
  PROVE  JobsInv'
<1>1. call[p] \in Call /\ call[p].pc = "send" /\ Holds(call[p]) /\ SentKey(p) = call[p].request.key
  BY DEF Send, At, JobsInv, TypeOK, CallsOK, CallOK, Working, Holds, SentKey
<1>2. /\ flow' \in Seq(Workflow) /\ Kept /\ RowsOK' /\ KeysUnique' /\ FlowsOK'
      /\ \A j \in JobId : job'[j] # None => job'[j].workflow \in WorkflowId' \cup {None}
  BY <1>1, ServiceStarts DEF Send
<1>3. PICK w \in 1..Len(flow') : \E t \in {"queued", flow'[w].status} :
        /\ flow'[w].key = SentKey(p)
        /\ call' = [call EXCEPT ![p].pc = "record",
                      ![p].response = [workflow |-> w, status |-> t, outputs |-> "none"]]
  BY DEF Send
<1>4. PICK t \in {"queued", flow'[w].status} :
        /\ flow'[w].key = SentKey(p)
        /\ call' = [call EXCEPT ![p].pc = "record",
                      ![p].response = [workflow |-> w, status |-> t, outputs |-> "none"]]
  BY <1>3
<1> DEFINE a == [workflow |-> w, status |-> t, outputs |-> "none"]
<1>5. a \in Response /\ a # None
  <2>1. flow'[w] \in Workflow
    BY <1>2
  <2>2. w \in Nat /\ t \in Status
    BY <1>2, <2>1 DEF Workflow, Status
  <2> QED
    BY <2>2, JobsAssumption DEF Response, Outputs, Reported
<1>6. PICK c \in Call : /\ call' = [call EXCEPT ![p] = c] /\ c.pc = "record" /\ c.response = a
                        /\ c.request = call[p].request /\ c.saw = call[p].saw
                        /\ c.op = call[p].op
  <2> DEFINE d == [call[p] EXCEPT !.pc = "record", !.response = a]
  <2>1. /\ d \in Call /\ d.pc = "record" /\ d.response = a /\ d.request = call[p].request
        /\ d.saw = call[p].saw /\ d.op = call[p].op
    BY <1>1, <1>5 DEF Call
  <2>2. call' = [call EXCEPT ![p] = d]
    BY <1>4
  <2> QED
    BY <2>1, <2>2
<1>7. \A q \in Proc : call'[q] = IF q = p THEN c ELSE call[q]
  BY <1>6 DEF JobsInv, TypeOK
<1>8. TypeOK'
  BY <1>2, <1>6, <1>7 DEF Send, JobsInv, TypeOK, files
<1>9. CallOK(c)'
  <2>1. Holds(c)'
    BY <1>1, <1>6 DEF Send, Holds
  <2>2. w \in WorkflowId' /\ flow'[w].key = c.request.key
    BY <1>1, <1>4, <1>6 DEF WorkflowId
  <2> QED
    BY <1>5, <1>6, <2>1, <2>2 DEF CallOK
<1>10. CallOK(call[p])'
  BY <1>7, <1>9 DEF CallOK, Holds
<1>11. CallsOK'
  BY <1>2, <1>7, <1>8, <1>10, CallsKept
<1> QED
  BY <1>2, <1>8, <1>11 DEF JobsInv

LEMMA SendFailsInv ==
  ASSUME JobsInv, NEW p \in Proc, SendFails(p)
  PROVE  JobsInv'
<1>1. CASE UNCHANGED flow
  BY <1>1, AnswerStep DEF SendFails
<1>2. CASE flow' = StartWorkflow(p)
  <2>1. call[p] \in Call /\ call[p].pc = "send"
    BY DEF SendFails, At, JobsInv, TypeOK
  <2>2. /\ flow' \in Seq(Workflow) /\ Kept /\ RowsOK' /\ KeysUnique' /\ FlowsOK'
        /\ \A j \in JobId : job'[j] # None => job'[j].workflow \in WorkflowId' \cup {None}
    BY <1>2, <2>1, ServiceStarts DEF SendFails
  <2>3. PICK c \in Call : call' = [call EXCEPT ![p] = c] /\ c.pc = "idle" /\ c.reply = "error"
    <3> DEFINE d == [call[p] EXCEPT !.pc = "idle", !.response = None, !.reply = "error"]
    <3>1. d \in Call /\ d.pc = "idle" /\ d.reply = "error"
      BY <2>1 DEF Call
    <3>2. call' = [call EXCEPT ![p] = d]
      BY DEF SendFails, Answer
    <3> QED
      BY <3>1, <3>2
  <2>4. \A q \in Proc : call'[q] = IF q = p THEN c ELSE call[q]
    BY <2>3 DEF JobsInv, TypeOK
  <2>5. TypeOK'
    BY <2>2, <2>3, <2>4 DEF SendFails, JobsInv, TypeOK, files
  <2>6. CallOK(call[p])'
    BY <2>3, <2>4 DEF CallOK, Working
  <2>7. CallsOK'
    BY <2>2, <2>4, <2>5, <2>6, CallsKept
  <2> QED
    BY <2>2, <2>5, <2>7 DEF JobsInv
<1> QED
  BY <1>1, <1>2 DEF SendFails

LEMMA AdvanceInv ==
  ASSUME JobsInv, NEW w \in WorkflowId, Advance(w)
  PROVE  JobsInv'
<1>1. flow \in Seq(Workflow) /\ flow[w] \in Workflow /\ FlowOK(flow[w])
  BY FlowsTyped DEF JobsInv, TypeOK, FlowsOK
<1>2. PICK f \in Workflow : /\ flow' = [flow EXCEPT ![w] = f]
                            /\ f.key = flow[w].key /\ f.request = flow[w].request
                           
  <2>1. CASE flow' = [flow EXCEPT ![w].status = "running"]
    <3> DEFINE g == [flow[w] EXCEPT !.status = "running"]
    <3>1. g \in Workflow /\ g.key = flow[w].key /\ g.request = flow[w].request
      BY <1>1 DEF Workflow, Status, FlowOK
    <3>2. flow' = [flow EXCEPT ![w] = g]
      BY <2>1
    <3> QED
      BY <3>1, <3>2
  <2>2. ASSUME NEW t \in Terminal, NEW o \in {"none", "remote"},
               flow' = [flow EXCEPT ![w].status = t, ![w].outputs = o]
        PROVE  \E f \in Workflow : /\ flow' = [flow EXCEPT ![w] = f]
                                   /\ f.key = flow[w].key /\ f.request = flow[w].request
                                  
    <3> DEFINE g == [flow[w] EXCEPT !.status = t, !.outputs = o]
    <3>1. g \in Workflow /\ g.key = flow[w].key /\ g.request = flow[w].request
      BY <1>1 DEF Workflow, Status, Reported
    <3>2. flow' = [flow EXCEPT ![w] = g]
      BY <2>2
    <3> QED
      BY <3>1, <3>2
  <2> QED
    BY <2>1, <2>2 DEF Advance
<1>3. /\ flow' \in Seq(Workflow) /\ Len(flow') = Len(flow)
      /\ \A v \in WorkflowId : flow'[v] = IF v = w THEN f ELSE flow[v]
  BY <1>1, <1>2, ExceptSeq DEF WorkflowId
<1>4. WorkflowId' = WorkflowId
  BY <1>3 DEF WorkflowId
<1>5. UNCHANGED <<job, published, call, extracted, changed>>
  BY DEF Advance, files
<1>6. TypeOK'
  BY <1>3, <1>4, <1>5 DEF JobsInv, TypeOK
<1>7. Kept
  BY <1>1, <1>2, <1>3, <1>5 DEF Kept
<1>8. CallsOK'
  BY <1>5, <1>6, <1>7, CallsKept
<1>9. RowsOK' /\ KeysUnique'
  BY <1>2, <1>3, <1>4, <1>5 DEF JobsInv, RowsOK, RowOK, KeysUnique
<1>10. FlowsOK'
  BY <1>2, <1>3, <1>4, <1>5 DEF JobsInv, FlowsOK, FlowOK
<1> QED
  BY <1>6, <1>8, <1>9, <1>10 DEF JobsInv

\* Promotion, and the extraction behind it.
LEMMA MovesOn ==
  ASSUME JobsInv, NEW p \in Proc, NEW pc \in {"extract", "normalise"}, Goto(p, pc), UNCHANGED <<job, flow>>,
         call[p].pc \in {"promote", "extract"},
         published' \subseteq Evidence, changed' \subseteq EvidenceId,
         extracted' \in [EvidenceId -> Evidence \cup {None}],
         \A i \in EvidenceId : extracted[i] # None => extracted'[i] # None,
         pc = "normalise" => extracted'[IdOf[call[p].request.evidence]] # None
  PROVE  JobsInv'
<1>1. call[p] \in Call /\ Holds(call[p]) /\ call[p].op = "collect"
  BY DEF JobsInv, TypeOK, CallsOK, CallOK, Working
<1>2. PICK c \in Call : /\ call' = [call EXCEPT ![p] = c] /\ c.pc = pc
                        /\ c.request = call[p].request /\ c.saw = call[p].saw
                        /\ c.op = "collect"
  <2> DEFINE d == [call[p] EXCEPT !.pc = pc]
  <2>1. /\ d \in Call /\ d.pc = pc /\ d.request = call[p].request /\ d.saw = call[p].saw
        /\ d.op = "collect"
    BY <1>1 DEF Call
  <2>2. call' = [call EXCEPT ![p] = d]
    BY DEF Goto
  <2> QED
    BY <2>1, <2>2
<1>3. \A q \in Proc : call'[q] = IF q = p THEN c ELSE call[q]
  BY <1>2 DEF JobsInv, TypeOK
<1>4. TypeOK'
  BY <1>2, <1>3 DEF JobsInv, TypeOK, WorkflowId
<1>5. Kept
  BY DEF Kept, JobsInv, TypeOK
<1>6. CallOK(c)'
  BY <1>1, <1>2 DEF CallOK, Holds
<1>7. CallOK(call[p])'
  BY <1>3, <1>6 DEF CallOK, Holds
<1>8. CallsOK'
  BY <1>3, <1>4, <1>5, <1>7, CallsKept
<1>9. RowsOK' /\ KeysUnique' /\ FlowsOK'
  BY DEF JobsInv, RowsOK, RowOK, KeysUnique, FlowsOK, FlowOK, WorkflowId
<1> QED
  BY <1>4, <1>8, <1>9 DEF JobsInv

LEMMA PromoteInv ==
  ASSUME JobsInv, NEW p \in Proc, Promote(p)
  PROVE  JobsInv'
<1>1. call[p].request.evidence \in Evidence
  BY DEF Promote, At, JobsInv, CallsOK, CallOK, Working, Holds, Request
<1> QED
  BY <1>1, MovesOn DEF Promote, At, JobsInv, TypeOK, files

LEMMA ExtractInv ==
  ASSUME JobsInv, NEW p \in Proc, Extract(p)
  PROVE  JobsInv'
<1> DEFINE e == call[p].request.evidence
<1>1. call[p].pc = "extract" /\ CallOK(call[p])
  BY DEF Extract, At, JobsInv, CallsOK
<1>2. e \in Evidence /\ IdOf[e] \in EvidenceId
  BY <1>1, JobsAssumption DEF CallOK, Working, Holds, Request
<1>3. PICK f \in Evidence : /\ extracted' = [extracted EXCEPT ![IdOf[e]] = f]
                            /\ changed' \subseteq changed \cup {IdOf[e]}
  BY DEF Extract, Found
<1>4. f # None
  BY JobsAssumption
<1>5. /\ extracted' \in [EvidenceId -> Evidence \cup {None}]
      /\ \A k \in EvidenceId : extracted'[k] = IF k = IdOf[e] THEN f ELSE extracted[k]
  BY <1>2, <1>3 DEF JobsInv, TypeOK
<1>6. published' \subseteq Evidence /\ changed' \subseteq EvidenceId
  BY <1>2, <1>3 DEF Extract, JobsInv, TypeOK
<1>7. Goto(p, "normalise") /\ UNCHANGED <<job, flow>>
  BY DEF Extract
<1>8. extracted'[IdOf[call[p].request.evidence]] # None
  BY <1>2, <1>4, <1>5
<1> HIDE DEF e
<1>9. \A k \in EvidenceId : extracted[k] # None => extracted'[k] # None
  BY <1>4, <1>5
<1> QED
  BY <1>1, <1>5, <1>6, <1>7, <1>8, <1>9, MovesOn

-----------------------------------------------------------------------------
(* The invariant, and the theorems.                                         *)

LEMMA JobsInit == Init => JobsInv
<1> SUFFICES ASSUME Init PROVE JobsInv
  OBVIOUS
<1>1. Idle \in Call /\ CallOK(Idle)
  BY DEF Idle, Call, CallOK, Working
<1>2. TypeOK
  BY <1>1, JobsAssumption DEF Init, TypeOK
<1>3. CallsOK
  BY <1>1 DEF Init, CallsOK
<1>4. RowsOK /\ KeysUnique /\ FlowsOK
  BY DEF Init, RowsOK, KeysUnique, FlowsOK, WorkflowId
<1> QED
  BY <1>2, <1>3, <1>4 DEF JobsInv

LEMMA JobsStep ==
  ASSUME JobsInv, [Next]_vars
  PROVE  JobsInv'
<1>1. ASSUME NEW p \in Proc, \/ \E r \in Requests : StartSubmit(p, r)
                             \/ \E c \in Collections : StartCollection(p, c[1], c[2])
                             \/ \E j \in JobId : StartPoll(p, j) \/ StartRetry(p, j)
      PROVE  JobsInv'
  BY <1>1, StartSubmitInv, StartCollectionInv, StartPollInv, StartRetryInv
<1>2. ASSUME NEW p \in Proc, Continue(p)
      PROVE  JobsInv'
  BY <1>2, InsertInv, ReadClaimInv, SendInv, RecordInv, PromoteInv, ExtractInv, NormaliseInv,
     CompleteInv, WorkFailsInv, RereadInv, CountInv, AskInv, ReportInv DEF Continue
<1>3. ASSUME NEW p \in Proc, SendFails(p) \/ WorkFails(p) \/ Crash(p)
      PROVE  JobsInv'
  BY <1>3, SendFailsInv, WorkFailsInv, CrashInv
<1>4. CASE UNCHANGED vars
  BY <1>4 DEF vars, JobsInv, TypeOK, RowsOK, RowOK, KeysUnique, FlowsOK, FlowOK, CallsOK, CallOK,
              Holds, WorkflowId
<1> QED
  BY <1>1, <1>2, <1>3, <1>4, AdvanceInv, ApproveInv DEF Next

\* Whatever the callers, the server and the faults do: rows, workflows and claims
\* keep in step (SQLiteJobStore, OpenRelikAdapter, submit_collection).
THEOREM JobsInvariant == Spec => []JobsInv
BY JobsInit, JobsStep, PTL DEF Spec

\* Rows, workflows and calls keep their shape for any callers, requests and faults.
THEOREM JobsTypeCorrect == Spec => []TypeOK
<1>1. JobsInv => TypeOK
  BY DEF JobsInv
<1> QED
  BY <1>1, JobsInvariant, PTL

\* One workflow per evidence, running the request of the row that names it, and
\* every record handed out is the caller's own (submit, retry and create).
THEOREM EvidenceProcessedOnce == Spec => []OneWorkflow
<1>1. ASSUME JobsInv PROVE OneWorkflow
  <2>1. \A v, w \in WorkflowId : flow[v].request.evidence = flow[w].request.evidence => v = w
    <3>1. \A w \in WorkflowId : flow[w].key = flow[w].request.evidence
      <4> TAKE w \in WorkflowId
      <4>1. FlowOK(flow[w]) /\ flow[w].request.id \in JobId
        BY <1>1, FlowsTyped DEF JobsInv, FlowsOK, Workflow, Request
      <4> QED
        BY <1>1, <4>1 DEF JobsInv, FlowOK, RowsOK, RowOK
    <3> QED
      BY <1>1, <3>1 DEF JobsInv, FlowsOK
  <2>2. ASSUME NEW j \in JobId, job[j] # None, job[j].workflow # None
        PROVE  flow[job[j].workflow].request = job[j].request
    <3> DEFINE f == flow[job[j].workflow]
    <3>1. job[j].workflow \in WorkflowId /\ f.key = job[j].request.key
      BY <1>1, <2>2 DEF JobsInv, RowsOK, RowOK
    <3>2. FlowOK(f) /\ f.request.id \in JobId
      BY <1>1, <3>1, FlowsTyped DEF JobsInv, FlowsOK, Workflow, Request
    <3>3. f.request.id = j
      BY <1>1, <2>2, <3>1, <3>2 DEF JobsInv, KeysUnique, FlowOK
    <3> QED
      BY <3>2, <3>3 DEF FlowOK
  <2>3. \A p \in Proc : call[p].op \in {"submit", "collect"} /\ call[p].reply \in {"ok", "reused"}
          => Holds(call[p])
    BY <1>1 DEF JobsInv, CallsOK, CallOK
  <2> QED
    BY <2>1, <2>2, <2>3 DEF OneWorkflow, Holds
<1> QED
  BY <1>1, JobsInvariant, PTL

-----------------------------------------------------------------------------
(* Where the rows of a job were read from.                                  *)

\* From promotion on the store has the evidence of a call; the outputs on their way
\* to a row are its own, unless an archive of its id was found changed.
SourceOK(c) ==
  /\ c.pc \in {"extract", "normalise", "complete"} => c.request.evidence \in published
  /\ c.pc = "complete" => \/ c.response.outputs \in {"none", c.request.evidence}
                          \/ IdOf[c.request.evidence] \in changed
  /\ c.pc = "report" => c.response.outputs \in Reported

\* What a row keeps of the bytes its request declares.
RowFrom(row) ==
  row.outputs \in Evidence =>
    LET e == row.request.evidence
    IN  e \in published /\ (row.outputs = e \/ IdOf[e] \in changed)

\* The store has one evidence per id, and a directory holds the files of that one,
\* unless an archive was found changed.
SourceInv ==
  /\ \A e, f \in published : IdOf[e] = IdOf[f] => e = f
  /\ \A i \in EvidenceId : extracted[i] # None /\ i \notin changed
       => extracted[i] \in published /\ IdOf[extracted[i]] = i
  /\ \A p \in Proc : SourceOK(call[p])
  /\ \A j \in JobId : job[j] # None => RowFrom(job[j])

\* A step of one call that leaves the store and the files alone.
LEMMA SourceCall ==
  ASSUME JobsInv, SourceInv, NEW p \in Proc, NEW c, call' = [call EXCEPT ![p] = c], SourceOK(c),
         UNCHANGED <<published, files>>,
         \A j \in JobId : job'[j] # None => job'[j] = job[j] \/ RowFrom(job'[j])
  PROVE  SourceInv'
<1>1. \A q \in Proc : call'[q] = IF q = p THEN c ELSE call[q]
  BY DEF JobsInv, TypeOK
<1>2. SourceOK(c)'
  BY DEF SourceOK, files
<1>3. \A q \in Proc : SourceOK(call[q])'
  BY <1>1, <1>2 DEF SourceInv, SourceOK, files
<1>4. \A j \in JobId : job'[j] # None => RowFrom(job[j])'
  BY DEF SourceInv, RowFrom, files
<1> QED
  BY <1>3, <1>4 DEF SourceInv, files

\* The steps that write no row, no evidence and no file.
LEMMA SourceMoves ==
  ASSUME JobsInv, SourceInv, NEW p \in Proc,
         \/ \E r \in Requests : StartSubmit(p, r)
         \/ \E x \in Collections : StartCollection(p, x[1], x[2])
         \/ \E j \in JobId : StartPoll(p, j) \/ StartRetry(p, j)
         \/ Crash(p) \/ ReadClaim(p) \/ Send(p) \/ SendFails(p) \/ PromoteRefused(p)
         \/ Normalise(p) \/ WorkFails(p) \/ Reread(p) \/ Ask(p)
  PROVE  SourceInv'
<1> DEFINE c == call[p]
<1>1. c \in Call /\ CallOK(c) /\ SourceOK(c)
  BY DEF JobsInv, TypeOK, CallsOK, SourceInv
<1>2. UNCHANGED <<job, published, files>>
  BY DEF StartSubmit, StartCollection, StartPoll, StartRetry, Crash, ReadClaim, Send, SendFails,
         PromoteRefused, Normalise, WorkFails, Reread, Ask
<1>3. ASSUME NEW d, call' = [call EXCEPT ![p] = d], SourceOK(d)
      PROVE  SourceInv'
  BY <1>2, <1>3, SourceCall
<1>4. ASSUME NEW d, call' = [call EXCEPT ![p] = d], d.pc = "idle"
      PROVE  SourceInv'
  BY <1>3, <1>4 DEF SourceOK
<1>5. ASSUME NEW d, call' = [call EXCEPT ![p] = d],
             d.pc \in {"insert", "read", "send", "record", "promote", "count", "ask"}
      PROVE  SourceInv'
  BY <1>3, <1>5 DEF SourceOK
<1>6. ASSUME NEW reply, Answer(p, reply)
      PROVE  SourceInv'
  <2> DEFINE d == [c EXCEPT !.pc = "idle", !.response = None, !.reply = reply]
  <2>1. d.pc = "idle"
    BY <1>1 DEF Call
  <2>2. call' = [call EXCEPT ![p] = d]
    BY <1>6 DEF Answer
  <2> QED
    BY <1>4, <2>1, <2>2
<1>7. CASE \E r \in Requests : StartSubmit(p, r)
  <2>1. PICK r \in Requests : StartSubmit(p, r)
    BY <1>7
  <2> DEFINE d == [Idle EXCEPT !.op = "submit", !.pc = "insert", !.request = r, !.saw = None]
  <2>2. d.pc = "insert" /\ d.op = "submit"
    BY DEF Idle
  <2>3. call' = [call EXCEPT ![p] = d]
    BY <2>1 DEF StartSubmit, Begin
  <2> QED
    BY <1>5, <2>2, <2>3
<1>8. CASE \E x \in Collections : StartCollection(p, x[1], x[2])
  <2>1. PICK x \in Collections : StartCollection(p, x[1], x[2])
    BY <1>8
  <2> DEFINE d == [Idle EXCEPT !.op = "collect", !.pc = "insert", !.saw = None,
                     !.request = [id |-> RequestId[x[1]], key |-> x[1],
                                  evidence |-> x[1], asset |-> x[2]]]
  <2>2. d.pc = "insert"
    BY DEF Idle
  <2>3. call' = [call EXCEPT ![p] = d]
    BY <2>1 DEF StartCollection, Begin
  <2> HIDE DEF d
  <2> QED
    BY <1>5, <2>2, <2>3
<1>9. CASE \E j \in JobId : StartPoll(p, j) \/ StartRetry(p, j)
  <2>1. PICK j \in JobId : StartPoll(p, j) \/ StartRetry(p, j)
    BY <1>9
  <2> DEFINE d(op, pc) == [Idle EXCEPT !.op = op, !.pc = pc, !.request = job[j].request, !.saw = job[j]]
             e == [Idle EXCEPT !.reply = "ok"]
  <2>2. /\ d("poll", "ask").pc = "ask" /\ d("poll", "ask").op = "poll"
        /\ d("retry", "send").pc = "send" /\ d("retry", "send").op = "retry" /\ e.pc = "idle"
    BY DEF Idle
  <2>3. \/ call' = [call EXCEPT ![p] = d("poll", "ask")]
        \/ call' = [call EXCEPT ![p] = d("retry", "send")]
        \/ call' = [call EXCEPT ![p] = e]
    BY <2>1 DEF StartPoll, StartRetry, Begin
  <2> HIDE DEF d, e
  <2> QED
    BY <1>4, <1>5, <2>2, <2>3
<1>10. CASE Crash(p)
  BY <1>4, <1>10 DEF Crash, Idle
<1>11. CASE ReadClaim(p)
  <2> DEFINE d(pc, reply) == [c EXCEPT !.saw = job[Job(p)], !.pc = pc, !.response = None, !.reply = reply]
             e == [c EXCEPT !.pc = "send", !.saw = job[Job(p)]]
  <2>1. c.pc = "read"
    BY <1>11 DEF ReadClaim, At
  <2>2. \/ \E pc \in {"idle", "promote"}, reply \in {"none", "ok", "reused"} : call' = [call EXCEPT ![p] = d(pc, reply)]
        \/ call' = [call EXCEPT ![p] = e]
    BY <1>11 DEF ReadClaim, Claimed, ResumeAt
  <2>3. /\ e.pc = "send" /\ e.op = c.op /\ e.request = c.request
        /\ \A pc, reply : LET f == d(pc, reply)
                         IN  f.pc = pc
    BY <1>1 DEF Call
  <2> HIDE DEF d, e
  <2> QED
    BY <1>4, <1>5, <2>1, <2>2, <2>3
<1>12. CASE Send(p)
  <2>1. PICK a : call' = [call EXCEPT ![p].pc = "record", ![p].response = a]
    BY <1>12 DEF Send
  <2> DEFINE d == [c EXCEPT !.pc = "record", !.response = a]
  <2>2. d.pc = "record" /\ d.op = c.op /\ d.request = c.request
    BY <1>1 DEF Call
  <2>3. call' = [call EXCEPT ![p] = d] /\ c.pc = "send"
    BY <1>12, <2>1 DEF Send, At
  <2> HIDE DEF d
  <2> QED
    BY <1>1, <1>5, <2>2, <2>3 DEF SourceOK
<1>13. CASE Normalise(p)
  <2> DEFINE i == IdOf[c.request.evidence]
  <2>1. c.pc = "normalise" /\ c.request.evidence \in Evidence
    BY <1>1, <1>13 DEF Normalise, At, CallOK, Working, Holds, Request
  <2>2. i \in EvidenceId /\ extracted[i] # None
    BY <1>1, <2>1, JobsAssumption DEF CallOK
  <2>3. extracted[i] = c.request.evidence \/ i \in changed
    BY <1>1, <2>1, <2>2 DEF SourceInv, SourceOK
  <2>4. PICK o \in {extracted[i], "none"} :
          call' = [call EXCEPT ![p].pc = "complete",
                     ![p].response = [workflow |-> 0, status |-> "succeeded", outputs |-> o]]
    BY <1>13 DEF Normalise
  <2> DEFINE d == [c EXCEPT !.pc = "complete",
                     !.response = [workflow |-> 0, status |-> "succeeded", outputs |-> o]]
  <2>5. /\ d.pc = "complete" /\ d.op = c.op /\ d.request = c.request
        /\ d.response.outputs = o
    BY <1>1 DEF Call
  <2>6. call' = [call EXCEPT ![p] = d]
    BY <2>4
  <2> HIDE DEF d
  <2>7. SourceOK(d)
    BY <1>1, <2>1, <2>3, <2>5 DEF SourceOK
  <2> QED
    BY <1>3, <2>6, <2>7
<1>14. CASE Reread(p)
  <2> DEFINE d == [c EXCEPT !.pc = "count", !.saw = job[Job(p)]]
  <2>1. d.pc = "count" /\ d.op = c.op /\ d.request = c.request
    BY <1>1 DEF Call
  <2>2. call' = [call EXCEPT ![p] = d] /\ c.pc = "reread"
    BY <1>14 DEF Reread, At
  <2> HIDE DEF d
  <2> QED
    BY <1>1, <1>5, <2>1, <2>2 DEF SourceOK
<1>15. CASE Ask(p)
  <2> DEFINE w == c.saw.workflow
             a == [workflow |-> w, status |-> flow[w].status, outputs |-> flow[w].outputs]
             d == [c EXCEPT !.pc = "report", !.response = a]
  <2>1. c.pc = "ask" /\ flow[w].outputs \in Reported
    BY <1>1, <1>15, FlowsTyped DEF Ask, At, CallOK, Workflow
  <2>2. /\ d.pc = "report" /\ d.op = c.op /\ d.request = c.request
        /\ d.response.outputs = flow[w].outputs
    BY <1>1 DEF Call
  <2>3. (call' = [call EXCEPT ![p] = d]) \/ Answer(p, "error")
    BY <1>15 DEF Ask
  <2> HIDE DEF d
  <2>4. SourceOK(d)
    BY <1>1, <2>1, <2>2 DEF SourceOK
  <2> QED
    BY <1>3, <1>6, <2>3, <2>4
<1> QED
  BY <1>6, <1>7, <1>8, <1>9, <1>10, <1>11, <1>12, <1>13, <1>14, <1>15
     DEF SendFails, PromoteRefused, WorkFails

\* The steps that write a row.
LEMMA SourceWrites ==
  ASSUME JobsInv, SourceInv, NEW p \in Proc,
         Insert(p) \/ Record(p) \/ Complete(p) \/ Count(p) \/ Report(p)
  PROVE  SourceInv'
<1> DEFINE c == call[p]
<1>1. c \in Call /\ CallOK(c) /\ SourceOK(c) /\ UNCHANGED <<published, files>>
  BY DEF JobsInv, TypeOK, CallsOK, SourceInv, Insert, Record, Complete, Count, Report
<1>2. ASSUME NEW pc \in {"idle", "read", "reread"}, NEW d, call' = [call EXCEPT ![p] = d], d.pc = pc,
             d.op = c.op /\ d.request = c.request, c.pc # "idle",
             \A j \in JobId : job'[j] # None => job'[j] = job[j] \/ RowFrom(job'[j])
      PROVE  SourceInv'
  <2>1. SourceOK(d)
    BY <1>1, <1>2 DEF SourceOK
  <2> QED
    BY <1>1, <1>2, <2>1, SourceCall
<1>3. CASE Insert(p)
  <2>1. c.pc = "insert" /\ c.request \in Request
    BY <1>1, <1>3 DEF Insert, At, CallOK
  <2>2. \A j \in JobId : job'[j] # None => job'[j] = job[j] \/ RowFrom(job'[j])
    <3>1. UNCHANGED job \/ Write(c.request.id, NewRow(c.request))
      BY <1>3 DEF Insert
    <3>2. RowFrom(NewRow(c.request))
      BY JobsAssumption DEF RowFrom, NewRow, Reported
    <3> QED
      BY <3>1, <3>2 DEF Write, JobsInv, TypeOK
  <2>3. PICK reply, row : \/ Answer(p, reply)
                          \/ call' = [call EXCEPT ![p].pc = "read", ![p].saw = row]
    BY <1>3 DEF Insert
  <2> DEFINE d == [c EXCEPT !.pc = "idle", !.response = None, !.reply = reply]
             e == [c EXCEPT !.pc = "read", !.saw = row]
  <2>4. /\ d.pc = "idle" /\ d.op = c.op /\ d.request = c.request
        /\ e.pc = "read" /\ e.op = c.op /\ e.request = c.request
    BY <1>1 DEF Call
  <2>5. call' = [call EXCEPT ![p] = d] \/ call' = [call EXCEPT ![p] = e]
    BY <2>3 DEF Answer
  <2> HIDE DEF d, e
  <2> QED
    BY <1>2, <2>1, <2>2, <2>4, <2>5
<1>4. CASE Record(p) \/ Complete(p) \/ Count(p) \/ Report(p)
  <2>1. /\ c.pc \in {"record", "complete", "count", "report"} /\ Job(p) \in JobId
        /\ job[Job(p)] # None /\ job[Job(p)] \in Row /\ job[Job(p)].request = c.request
    BY <1>4, HeldRow DEF Record, Complete, Count, Report, At, Working
  <2> DEFINE row == job[Job(p)]
             new == job'[Job(p)]
  <2>2. RowFrom(row)
    BY <2>1 DEF SourceInv
  <2>3. \A j \in JobId \ {Job(p)} : job'[j] = job[j]
    BY <1>4 DEF Record, Complete, Count, Report, Write, JobsInv, TypeOK
  <2>4. RowFrom(new)
    <3>1. CASE Record(p) \/ Count(p)
      <4>1. new.outputs = row.outputs /\ new.request = row.request
        BY <2>1, <3>1 DEF Record, Count, Write, JobsInv, TypeOK, Row
      <4> QED
        BY <2>2, <4>1 DEF RowFrom
    <3>2. CASE Complete(p) \/ Report(p)
      <4>1. new.outputs = c.response.outputs /\ new.request = c.request
        BY <2>1, <3>2 DEF Complete, Report, Write, JobsInv, TypeOK, Row
      <4>2. c.pc \in {"complete", "report"}
        BY <3>2 DEF Complete, Report, At
      <4>3. \/ new.outputs \in Reported
              \/ /\ c.request.evidence \in published
                 /\ new.outputs = c.request.evidence \/ IdOf[c.request.evidence] \in changed
        BY <1>1, <4>1, <4>2 DEF SourceOK, Reported
      <4> QED
        BY <1>1, <4>1, <4>3, JobsAssumption DEF RowFrom, files
    <3> QED
      BY <1>4, <3>1, <3>2
  <2>5. \A j \in JobId : job'[j] # None => job'[j] = job[j] \/ RowFrom(job'[j])
    BY <2>3, <2>4
  <2>6. PICK pc \in {"read", "reread"} : Answer(p, "ok") \/ Goto(p, pc)
    BY <1>4 DEF Record, Complete, Count, Report
  <2> DEFINE d == [c EXCEPT !.pc = "idle", !.response = None, !.reply = "ok"]
             e == [c EXCEPT !.pc = pc]
  <2>7. /\ d.pc = "idle" /\ d.op = c.op /\ d.request = c.request
        /\ e.pc = pc /\ e.op = c.op /\ e.request = c.request
    BY <1>1 DEF Call
  <2>8. call' = [call EXCEPT ![p] = d] \/ call' = [call EXCEPT ![p] = e]
    BY <2>6 DEF Answer, Goto
  <2> HIDE DEF d, e
  <2> QED
    BY <1>2, <2>1, <2>5, <2>7, <2>8
<1> QED
  BY <1>3, <1>4

\* Promotion keeps one evidence per id; only what it let through is extracted.
LEMMA SourceFiles ==
  ASSUME JobsInv, SourceInv, NEW p \in Proc, Promote(p) \/ Extract(p)
  PROVE  SourceInv'
<1> DEFINE c == call[p]
           e == c.request.evidence
<1>1. /\ c \in Call /\ CallOK(c) /\ SourceOK(c) /\ c.pc \in {"promote", "extract"}
      /\ e \in Evidence /\ UNCHANGED job
  BY DEF JobsInv, TypeOK, CallsOK, CallOK, SourceInv, Promote, Extract, At, Working, Holds, Request
<1>2. PICK pc \in {"extract", "normalise"} : Goto(p, pc)
  BY DEF Promote, Extract
<1>3. PICK d : call' = [call EXCEPT ![p] = d] /\ d.pc = pc /\ d.request = c.request
  <2> DEFINE b == [c EXCEPT !.pc = pc]
  <2>1. b.pc = pc /\ b.request = c.request
    BY <1>1 DEF Call
  <2>2. call' = [call EXCEPT ![p] = b]
    BY <1>2 DEF Goto
  <2> QED
    BY <2>1, <2>2
<1>4. \A q \in Proc : call'[q] = IF q = p THEN d ELSE call[q]
  BY <1>3 DEF JobsInv, TypeOK
<1>5. changed \subseteq changed'
  BY DEF Promote, Extract, files
<1>6. /\ published' = published \cup {e} /\ e \in published'
      /\ \A f, g \in published' : IdOf[f] = IdOf[g] => f = g
  <2>1. CASE Promote(p)
    BY <1>1, <2>1 DEF Promote, Promotable, SourceInv
  <2>2. CASE Extract(p)
    BY <1>1, <2>2 DEF Extract, At, SourceOK, SourceInv
  <2> QED
    BY <2>1, <2>2
<1>7. \A i \in EvidenceId : extracted'[i] # None /\ i \notin changed'
        => extracted'[i] \in published' /\ IdOf[extracted'[i]] = i
  <2>1. CASE Promote(p)
    BY <1>6, <2>1 DEF Promote, SourceInv, files
  <2>2. CASE Extract(p)
    <3>1. PICK f \in Evidence : /\ extracted' = [extracted EXCEPT ![IdOf[e]] = f]
                                /\ changed' = IF f = e THEN changed ELSE changed \cup {IdOf[e]}
      BY <2>2 DEF Extract, Found
    <3>2. \A i \in EvidenceId : extracted'[i] = IF i = IdOf[e] THEN f ELSE extracted[i]
      BY <3>1 DEF JobsInv, TypeOK
    <3>3. IdOf[e] \notin changed' => f = e
      BY <3>1
    <3> QED
      BY <1>5, <1>6, <3>2, <3>3 DEF SourceInv
  <2> QED
    BY <2>1, <2>2
<1>8. SourceOK(d)'
  BY <1>3, <1>6 DEF SourceOK
<1>9. \A q \in Proc : SourceOK(call[q])'
  <2>1. \A q \in Proc : SourceOK(call[q])
    BY DEF SourceInv
  <2> HIDE DEF c, e
  <2> QED
    BY <1>4, <1>5, <1>6, <1>8, <2>1 DEF SourceOK
<1>10. \A j \in JobId : job'[j] # None => RowFrom(job[j])'
  BY <1>1, <1>5, <1>6 DEF SourceInv, RowFrom
<1> QED
  BY <1>6, <1>7, <1>9, <1>10 DEF SourceInv

\* The service's steps, approval, and steps that do nothing.
LEMMA SourceOthers ==
  ASSUME JobsInv, SourceInv,
         \/ \E w \in WorkflowId : Advance(w)
         \/ \E j \in JobId : Approve(j)
         \/ UNCHANGED vars
  PROVE  SourceInv'
<1>1. UNCHANGED <<published, changed, extracted, call>>
  BY DEF Advance, Approve, files, vars
<1>2. \A j \in JobId : job'[j] # None =>
        job[j] # None /\ job'[j].outputs = job[j].outputs /\ job'[j].request = job[j].request
  <2>1. CASE UNCHANGED job
    BY <2>1
  <2>2. ASSUME NEW j \in JobId, Approve(j)
        PROVE  \A i \in JobId : job'[i] # None =>
                 job[i] # None /\ job'[i].outputs = job[i].outputs /\ job'[i].request = job[i].request
    <3>1. job[j] # None /\ job[j] \in Row /\ job \in [JobId -> Row \cup {None}]
      BY <2>2 DEF Approve, JobsInv, TypeOK
    <3> QED
      BY <2>2, <3>1 DEF Approve, Write, Row
  <2> QED
    BY <2>1, <2>2 DEF Advance, vars
<1>3. \A j \in JobId : job'[j] # None => RowFrom(job[j])'
  BY <1>1, <1>2 DEF SourceInv, RowFrom
<1>4. \A p \in Proc : SourceOK(call[p])'
  BY <1>1 DEF SourceInv, SourceOK
<1> QED
  BY <1>1, <1>3, <1>4 DEF SourceInv

\* A job with rows has its evidence preserved, and the rows were read from the bytes
\* its request declares or an archive of its id was found changed, whatever calls
\* race, fail and resume over the directory their evidence id shares.
THEOREM OutputsPreserved == Spec => []OutputsFromPreserved
<1>1. Init => SourceInv
  BY DEF Init, SourceInv, SourceOK, RowFrom, Idle
<1>2. ASSUME JobsInv, SourceInv, [Next]_vars
      PROVE  SourceInv'
  <2>1. ASSUME NEW p \in Proc, \/ \E r \in Requests : StartSubmit(p, r)
                               \/ \E c \in Collections : StartCollection(p, c[1], c[2])
                               \/ \E j \in JobId : StartPoll(p, j) \/ StartRetry(p, j)
                               \/ Crash(p)
        PROVE  SourceInv'
    BY <1>2, <2>1, SourceMoves
  <2>2. ASSUME NEW p \in Proc, Continue(p) \/ SendFails(p) \/ WorkFails(p)
        PROVE  SourceInv'
    BY <1>2, <2>2, SourceMoves, SourceWrites, SourceFiles DEF Continue
  <2> QED
    BY <1>2, <2>1, <2>2, SourceOthers DEF Next
<1>3. SourceInv => OutputsFromPreserved
  BY DEF SourceInv, RowFrom, OutputsFromPreserved
<1> QED
  BY <1>1, <1>2, <1>3, JobsInvariant, PTL DEF Spec

-----------------------------------------------------------------------------
(* One caller at a time: what it read is still so when it writes.           *)

\* A row without a workflow has no outputs; a call about to change the outputs
\* works on a row with a workflow; none is about to reopen a completed row.
SerialOK(c) ==
  /\ c.pc \in {"promote", "extract", "normalise", "complete", "ask", "report"}
       => job[c.request.id].workflow # None
  /\ c.pc \in {"send", "record", "promote", "extract", "normalise", "complete", "ask", "report"}
       => ~Completed(c.request.id)

SerialInv ==
  /\ \A j \in JobId : job[j] # None /\ job[j].workflow = None => job[j].outputs = "none"
  /\ \A p \in Proc : SerialOK(call[p])

CompletedKept ==
  \A j \in JobId : Completed(j) => Completed(j)' /\ job'[j].outputs = job[j].outputs

\* Steps that write no row.
LEMMA SerialCall ==
  ASSUME \A p, q \in Proc : p = q, SerialInv, NEW p \in Proc, NEW c, call' = [call EXCEPT ![p] = c],
         call \in [Proc -> Call], SerialOK(c), UNCHANGED job
  PROVE  SerialInv' /\ CompletedKept
<1>1. \A q \in Proc : call'[q] = c
  OBVIOUS
<1>2. SerialOK(c)'
  BY DEF SerialOK, Completed
<1>3. \A q \in Proc : SerialOK(call[q])'
  BY <1>1, <1>2 DEF SerialOK, Completed
<1> QED
  BY <1>3 DEF SerialInv, CompletedKept, Completed

\* Steps that write the caller's row.
LEMMA SerialWrite ==
  ASSUME \A p, q \in Proc : p = q, JobsInv, SerialInv, NEW p \in Proc,
         NEW j \in JobId, NEW row \in Row, Write(j, row), row.workflow = None => row.outputs = "none",
         Completed(j) => row.status = "succeeded" /\ row.outputs = job[j].outputs,
         NEW c, call' = [call EXCEPT ![p] = c], c.pc \in {"idle", "read", "reread"}
  PROVE  SerialInv' /\ CompletedKept
<1>1. \A i \in JobId : job'[i] = IF i = j THEN row ELSE job[i]
  BY DEF JobsInv, TypeOK, Write
<1>2. row # None
  BY JobsAssumption
<1>3. \A q \in Proc : call'[q] = c
  BY DEF JobsInv, TypeOK
<1>4. \A q \in Proc : SerialOK(call[q])'
  BY <1>3 DEF SerialOK
<1>5. CompletedKept
  BY <1>1, <1>2 DEF CompletedKept, Completed
<1> QED
  BY <1>1, <1>4, <1>5 DEF SerialInv

\* The steps at which a call rewrites its row.
LEMMA SerialUpdates ==
  ASSUME \A p, q \in Proc : p = q, JobsInv, SerialInv, NEW p \in Proc,
         Record(p) \/ Complete(p) \/ Count(p) \/ Report(p)
  PROVE  SerialInv' /\ CompletedKept
<1> DEFINE c == call[p]
           row == job'[Job(p)]
<1>1. /\ c \in Call /\ c.request \in Request /\ Job(p) = c.request.id /\ Job(p) \in JobId
      /\ c.saw \in Row /\ job[Job(p)] # None /\ job[Job(p)] \in Row
  BY HeldRow DEF Record, Complete, Count, Report, At, Working
<1>2. SerialOK(c) /\ CallOK(c)
  BY DEF SerialInv, JobsInv, CallsOK
<1>3. PICK d \in Call : call' = [call EXCEPT ![p] = d] /\ d.pc \in {"idle", "read", "reread"}
  <2>1. ASSUME NEW pc \in {"read", "reread"}, Goto(p, pc)
        PROVE  \E d \in Call : call' = [call EXCEPT ![p] = d] /\ d.pc = pc
    <3>1. [c EXCEPT !.pc = pc] \in Call /\ [c EXCEPT !.pc = pc].pc = pc
      BY <1>1 DEF Call
    <3> QED
      BY <2>1, <3>1 DEF Goto
  <2>2. ASSUME Answer(p, "ok")
        PROVE  \E d \in Call : call' = [call EXCEPT ![p] = d] /\ d.pc = "idle"
    <3> DEFINE e == [c EXCEPT !.pc = "idle", !.response = None, !.reply = "ok"]
    <3>1. e \in Call /\ e.pc = "idle"
      BY <1>1 DEF Call
    <3>2. call' = [call EXCEPT ![p] = e]
      BY <2>2 DEF Answer
    <3> QED
      BY <3>1, <3>2
  <2> QED
    BY <2>1, <2>2 DEF Record, Complete, Count, Report
<1>4. /\ Write(Job(p), row) /\ row \in Row
      /\ row.workflow = None => row.outputs = "none"
      /\ Completed(Job(p)) => row.status = "succeeded" /\ row.outputs = job[Job(p)].outputs
  <2>1. CASE Record(p)
    <3>1. row = [job[Job(p)] EXCEPT !.workflow = c.response.workflow,
                   !.status = c.response.status, !.attempts = c.saw.attempts + 1]
      BY <1>1, <2>1 DEF Record, Write, JobsInv, TypeOK
    <3>2. c.pc = "record" /\ c.response.workflow \in WorkflowId /\ ~Completed(Job(p))
      BY <1>1, <1>2, <2>1 DEF Record, At, CallOK, SerialOK
    <3>3. c.response.workflow # None
      BY <3>2, FlowsTyped, JobsAssumption
    <3>4. c.response \in Response
      BY <1>1, <1>2, <3>2 DEF CallOK, Call
    <3>5. c.response.workflow \in Nat /\ c.response.status \in Status /\ c.saw.attempts + 1 \in Nat
      BY <1>1, <3>4 DEF Response, Row
    <3>6. row.workflow # None /\ row \in Row
      <4> HIDE DEF c, row
      <4> QED
        BY <1>1, <3>1, <3>3, <3>5 DEF Row
    <3> QED
      BY <2>1, <3>1, <3>2, <3>6 DEF Record
  <2>2. CASE Complete(p)
    <3>1. row = [job[Job(p)] EXCEPT !.status = "succeeded", !.outputs = c.response.outputs]
      BY <1>1, <2>2 DEF Complete, Write, JobsInv, TypeOK
    <3>2. c.pc = "complete" /\ ~Completed(Job(p)) /\ job[Job(p)].workflow # None
      BY <1>1, <1>2, <2>2 DEF Complete, At, SerialOK
    <3>3. c.response \in Response
      BY <1>1, <1>2, <3>2 DEF CallOK, Call
    <3>4. c.response.status \in Status /\ c.response.outputs \in Outputs /\ "succeeded" \in Status
      BY <3>3 DEF Response, Status, Terminal
    <3>5. row.workflow # None /\ row \in Row
      <4> HIDE DEF c, row
      <4> QED
        BY <1>1, <3>1, <3>2, <3>4 DEF Row
    <3> QED
      BY <2>2, <3>1, <3>2, <3>5 DEF Complete
  <2>3. CASE Count(p)
    <3>1. row = [job[Job(p)] EXCEPT !.attempts = c.saw.attempts + 1]
      BY <1>1, <2>3 DEF Count, Write, JobsInv, TypeOK
    <3>2. row \in Row /\ row.workflow = job[Job(p)].workflow /\ row.status = job[Job(p)].status
          /\ row.outputs = job[Job(p)].outputs
      BY <1>1, <3>1 DEF Row
    <3> QED
      BY <1>1, <2>3, <3>1, <3>2 DEF Count, SerialInv, Completed
  <2>4. CASE Report(p)
    <3>1. row = [job[Job(p)] EXCEPT !.status = c.response.status, !.outputs = c.response.outputs]
      BY <1>1, <2>4 DEF Report, Write, JobsInv, TypeOK
    <3>2. c.pc = "report" /\ ~Completed(Job(p)) /\ job[Job(p)].workflow # None
      BY <1>1, <1>2, <2>4 DEF Report, At, SerialOK
    <3>3. c.response \in Response
      BY <1>1, <1>2, <3>2 DEF CallOK, Call
    <3>4. c.response.status \in Status /\ c.response.outputs \in Outputs /\ "succeeded" \in Status
      BY <3>3 DEF Response, Status, Terminal
    <3>5. row.workflow # None /\ row \in Row
      <4> HIDE DEF c, row
      <4> QED
        BY <1>1, <3>1, <3>2, <3>4 DEF Row
    <3> QED
      BY <2>4, <3>1, <3>2, <3>5 DEF Report
  <2> QED
    BY <2>1, <2>2, <2>3, <2>4
<1>5. PICK r \in Row : r = row
  BY <1>4
<1> HIDE DEF row
<1> QED
  BY <1>1, <1>3, <1>4, <1>5, SerialWrite

\* The INSERT and the read behind it.
LEMMA SerialClaims ==
  ASSUME \A p, q \in Proc : p = q, JobsInv, SerialInv, NEW p \in Proc, Insert(p) \/ ReadClaim(p)
  PROVE  SerialInv' /\ CompletedKept
<1> DEFINE c == call[p]
           r == c.request
<1>1. c \in Call /\ CallOK(c) /\ call \in [Proc -> Call]
  BY DEF JobsInv, TypeOK, CallsOK
<1>2. ASSUME NEW reply, Answer(p, reply), UNCHANGED job
      PROVE  SerialInv' /\ CompletedKept
  <2> DEFINE d == [c EXCEPT !.pc = "idle", !.response = None, !.reply = reply]
  <2>1. SerialOK(d)
    BY <1>1 DEF SerialOK, Call
  <2>2. call' = [call EXCEPT ![p] = d]
    BY <1>2 DEF Answer
  <2> QED
    BY <1>1, <1>2, <2>1, <2>2, SerialCall
<1>3. ASSUME NEW row, call' = [call EXCEPT ![p].pc = "read", ![p].saw = row], UNCHANGED job
      PROVE  SerialInv' /\ CompletedKept
  <2> DEFINE d == [c EXCEPT !.pc = "read", !.saw = row]
  <2>1. SerialOK(d)
    BY <1>1 DEF SerialOK, Call
  <2> QED
    BY <1>1, <1>3, <2>1, SerialCall
<1>4. CASE /\ c.pc = "insert" /\ Accepts(r) /\ job[r.id] = None /\ Write(r.id, NewRow(r))
           /\ call' = [call EXCEPT ![p].pc = "read", ![p].saw = NewRow(r)]
  <2> DEFINE d == [c EXCEPT !.pc = "read", !.saw = NewRow(r)]
  <2>1. r \in Request /\ r.id \in JobId
    BY <1>1, <1>4 DEF CallOK, Request
  <2>2. NewRow(r) \in Row /\ NewRow(r).outputs = "none" /\ ~Completed(r.id)
    BY <1>4, <2>1, NewRowOK DEF NewRow, Completed
  <2>3. d.pc = "read"
    BY <1>1 DEF Call
  <2>4. call' = [call EXCEPT ![p] = d]
    BY <1>4
  <2>5. PICK row \in Row : row = NewRow(r)
    BY <2>2
  <2>6. Write(r.id, row) /\ row.outputs = "none"
    BY <1>4, <2>2, <2>5
  <2> HIDE DEF d
  <2> QED
    BY <2>1, <2>2, <2>3, <2>4, <2>6, SerialWrite
<1>5. CASE Insert(p)
  <2>1. c.pc = "insert"
    BY <1>5 DEF Insert, At
  <2> QED
    BY <1>2, <1>3, <1>4, <1>5, <2>1 DEF Insert
<1>6. CASE ReadClaim(p)
  <2>1. /\ r \in Request /\ Job(p) = r.id /\ Job(p) \in JobId
        /\ job[Job(p)] # None /\ job[Job(p)] \in Row /\ c.pc = "read"
    BY <1>6, HeldRow DEF ReadClaim, At, Working
  <2>2. ASSUME NEW reply, job[Job(p)].workflow # None,
               \/ call' = [call EXCEPT ![p].saw = job[Job(p)], ![p].pc = "idle", ![p].response = None,
                                       ![p].reply = reply]
               \/ /\ ~Reusable(job[Job(p)])
                  /\ call' = [call EXCEPT ![p].saw = job[Job(p)], ![p].pc = "promote", ![p].response = None,
                                          ![p].reply = reply]
        PROVE  SerialInv' /\ CompletedKept
    <3> DEFINE d(pc) == [c EXCEPT !.saw = job[Job(p)], !.pc = pc, !.response = None, !.reply = reply]
    <3>1. SerialOK(d("idle"))
      BY <1>1 DEF SerialOK, Call
    <3>2. ~Reusable(job[Job(p)]) => SerialOK(d("promote"))
      BY <1>1, <2>1, <2>2 DEF SerialOK, Call, Reusable, Completed
    <3>3. \/ call' = [call EXCEPT ![p] = d("idle")]
          \/ ~Reusable(job[Job(p)]) /\ call' = [call EXCEPT ![p] = d("promote")]
      BY <2>2
    <3> QED
      BY <1>1, <1>6, <3>1, <3>2, <3>3, SerialCall DEF ReadClaim
  <2>3. ASSUME job[Job(p)].workflow = None, call' = [call EXCEPT ![p].pc = "send", ![p].saw = job[Job(p)]]
        PROVE  SerialInv' /\ CompletedKept
    <3> DEFINE d == [c EXCEPT !.pc = "send", !.saw = job[Job(p)]]
    <3>1. SerialOK(d)
      BY <1>1, <2>1, <2>3 DEF SerialOK, Call, SerialInv, Completed
    <3> QED
      BY <1>1, <1>6, <2>3, <3>1, SerialCall DEF ReadClaim
  <2> QED
    BY <1>6, <2>2, <2>3 DEF ReadClaim, Claimed, ResumeAt
<1> QED
  BY <1>5, <1>6

\* The other steps of a call.
LEMMA SerialMoves ==
  ASSUME \A p, q \in Proc : p = q, JobsInv, SerialInv, NEW p \in Proc,
         \/ Send(p) \/ SendFails(p) \/ Promote(p) \/ PromoteRefused(p) \/ Extract(p) \/ Normalise(p)
         \/ WorkFails(p) \/ Reread(p) \/ Ask(p)
  PROVE  SerialInv' /\ CompletedKept
<1> DEFINE c == call[p]
<1>1. c \in Call /\ SerialOK(c) /\ call \in [Proc -> Call] /\ UNCHANGED job
  BY DEF JobsInv, TypeOK, SerialInv, Send, SendFails, Promote, PromoteRefused, Extract, Normalise,
         WorkFails, Reread, Ask
<1>2. ASSUME Answer(p, "error")
      PROVE  SerialInv' /\ CompletedKept
  <2> DEFINE d == [c EXCEPT !.pc = "idle", !.response = None, !.reply = "error"]
  <2>1. SerialOK(d)
    BY <1>1 DEF SerialOK, Call
  <2>2. call' = [call EXCEPT ![p] = d]
    BY <1>2 DEF Answer
  <2> QED
    BY <1>1, <2>1, <2>2, SerialCall
<1>3. ASSUME NEW from, NEW to, c.pc = from,
             <<from, to>> \in {<<"send", "record">>, <<"normalise", "complete">>, <<"ask", "report">>},
             NEW a, call' = [call EXCEPT ![p].pc = to, ![p].response = a]
      PROVE  SerialInv' /\ CompletedKept
  <2> DEFINE d == [c EXCEPT !.pc = to, !.response = a]
  <2>1. SerialOK(d)
    BY <1>1, <1>3 DEF SerialOK, Call
  <2> QED
    BY <1>1, <1>3, <2>1, SerialCall
<1>4. ASSUME NEW from \in {"promote", "extract"}, c.pc = from, NEW to \in {"extract", "normalise"}, Goto(p, to)
      PROVE  SerialInv' /\ CompletedKept
  <2> DEFINE d == [c EXCEPT !.pc = to]
  <2>1. SerialOK(d)
    BY <1>1, <1>4 DEF SerialOK, Call
  <2> QED
    BY <1>1, <1>4, <2>1, SerialCall DEF Goto
<1>5. CASE Reread(p)
  <2> DEFINE d == [c EXCEPT !.pc = "count", !.saw = job[Job(p)]]
  <2>1. SerialOK(d)
    BY <1>1 DEF SerialOK, Call
  <2> QED
    BY <1>1, <1>5, <2>1, SerialCall DEF Reread
<1>6. CASE Send(p)
  <2>1. c.pc = "send" /\ \E a : call' = [call EXCEPT ![p].pc = "record", ![p].response = a]
    BY <1>6 DEF Send, At
  <2> QED
    BY <1>3, <2>1
<1>7. CASE Normalise(p)
  BY <1>3, <1>7 DEF Normalise, At
<1>8. CASE Ask(p)
  BY <1>2, <1>3, <1>8 DEF Ask, At
<1> QED
  BY <1>2, <1>4, <1>5, <1>6, <1>7, <1>8
     DEF SendFails, WorkFails, Promote, PromoteRefused, Extract, At

\* Calls that begin, and the end of a process.
LEMMA SerialStarts ==
  ASSUME \A p, q \in Proc : p = q, JobsInv, SerialInv, NEW p \in Proc,
         \/ \E r \in Requests : StartSubmit(p, r)
         \/ \E x \in Collections : StartCollection(p, x[1], x[2])
         \/ \E j \in JobId : StartPoll(p, j) \/ StartRetry(p, j)
         \/ Crash(p)
  PROVE  SerialInv' /\ CompletedKept
<1>1. call \in [Proc -> Call] /\ UNCHANGED job
  BY DEF JobsInv, TypeOK, StartSubmit, StartCollection, StartPoll, StartRetry, Crash
<1>2. ASSUME NEW op, NEW r, Begin(p, op, "insert", r, None)
      PROVE  SerialInv' /\ CompletedKept
  <2> DEFINE d == [Idle EXCEPT !.op = op, !.pc = "insert", !.request = r, !.saw = None]
  <2>1. SerialOK(d)
    BY DEF SerialOK, Idle
  <2> QED
    BY <1>1, <1>2, <2>1, SerialCall DEF Begin
<1>3. ASSUME NEW j \in JobId, job[j] # None,
             \/ Pollable(job[j]) /\ Begin(p, "poll", "ask", job[j].request, job[j])
             \/ Retryable(job[j]) /\ Begin(p, "retry", "send", job[j].request, job[j])
      PROVE  SerialInv' /\ CompletedKept
  <2>1. job[j].request.id = j
    BY <1>3 DEF JobsInv, RowsOK
  <2> DEFINE d(op, pc) == [Idle EXCEPT !.op = op, !.pc = pc, !.request = job[j].request, !.saw = job[j]]
  <2>2. Pollable(job[j]) => SerialOK(d("poll", "ask"))
    BY <2>1 DEF SerialOK, Idle, Pollable, Completed, Terminal
  <2>3. Retryable(job[j]) => SerialOK(d("retry", "send"))
    BY <2>1 DEF SerialOK, Idle, Retryable, Completed, Terminal
  <2> QED
    BY <1>1, <1>3, <2>2, <2>3, SerialCall DEF Begin
<1>4. ASSUME NEW reply, call' = [call EXCEPT ![p] = [Idle EXCEPT !.reply = reply]]
      PROVE  SerialInv' /\ CompletedKept
  <2>1. SerialOK([Idle EXCEPT !.reply = reply])
    BY DEF SerialOK, Idle
  <2> QED
    BY <1>1, <1>4, <2>1, SerialCall
<1>5. CASE Crash(p)
  <2>1. SerialOK(Idle)
    BY DEF SerialOK, Idle
  <2> QED
    BY <1>1, <1>5, <2>1, SerialCall DEF Crash
<1>6. CASE \E r \in Requests : StartSubmit(p, r)
  BY <1>2, <1>6 DEF StartSubmit
<1>7. CASE \E x \in Collections : StartCollection(p, x[1], x[2])
  <2>1. PICK x \in Collections : StartCollection(p, x[1], x[2])
    BY <1>7
  <2> DEFINE d == [Idle EXCEPT !.op = "collect", !.pc = "insert", !.saw = None,
                     !.request = [id |-> RequestId[x[1]], key |-> x[1],
                                  evidence |-> x[1], asset |-> x[2]]]
  <2>2. SerialOK(d)
    BY DEF SerialOK, Idle
  <2>3. call' = [call EXCEPT ![p] = d]
    BY <2>1 DEF StartCollection, Begin
  <2> HIDE DEF d
  <2> QED
    BY <1>1, <2>2, <2>3, SerialCall
<1>8. CASE \E j \in JobId : StartPoll(p, j) \/ StartRetry(p, j)
  BY <1>3, <1>4, <1>8 DEF StartPoll, StartRetry
<1> QED
  BY <1>5, <1>6, <1>7, <1>8

LEMMA SerialApprove ==
  ASSUME JobsInv, SerialInv, NEW j \in JobId, Approve(j)
  PROVE  SerialInv' /\ CompletedKept
<1> DEFINE row == [job[j] EXCEPT !.review = "approved"]
<1>1. job[j] # None /\ job[j] \in Row
  BY DEF Approve, JobsInv, TypeOK
<1>2. /\ row \in Row /\ row # None /\ row.status = job[j].status /\ row.outputs = job[j].outputs
      /\ row.workflow = job[j].workflow
  BY <1>1, JobsAssumption DEF Row
<1>3. \A i \in JobId : job'[i] = IF i = j THEN row ELSE job[i]
  BY DEF Approve, Write, JobsInv, TypeOK
<1> HIDE DEF row
<1>4. \A i \in JobId : Completed(i) <=> Completed(i)'
  BY <1>1, <1>2, <1>3 DEF Completed
<1>5. \A p \in Proc : call'[p] = call[p] /\ (call[p].pc \in Working => call[p].request.id \in JobId)
  BY DEF Approve, JobsInv, CallsOK, CallOK, Holds, Request
<1>6. \A p \in Proc : SerialOK(call[p])'
  BY <1>2, <1>3, <1>4, <1>5 DEF SerialInv, SerialOK, Working
<1> QED
  BY <1>1, <1>2, <1>3, <1>4, <1>6 DEF SerialInv, CompletedKept

\* With callers one at a time, a completed claim is never reopened or emptied, by
\* whatever later submit, poll, retry, collection or crash.
THEOREM CompletedClaimStays ==
  ASSUME \A p, q \in Proc : p = q
  PROVE  Spec => CompletedStays
<1>1. Init => SerialInv
  BY DEF Init, SerialInv, SerialOK, Idle
<1>2. ASSUME JobsInv, SerialInv, [Next]_vars
      PROVE  SerialInv' /\ CompletedKept
  <2>1. ASSUME \E w \in WorkflowId : Advance(w)
        PROVE  SerialInv' /\ CompletedKept
    BY <1>2, <2>1 DEF Advance, SerialInv, SerialOK, CompletedKept, Completed
  <2>2. CASE UNCHANGED vars
    BY <1>2, <2>2 DEF vars, SerialInv, SerialOK, CompletedKept, Completed
  <2>3. ASSUME NEW p \in Proc, \/ \E r \in Requests : StartSubmit(p, r)
                               \/ \E c \in Collections : StartCollection(p, c[1], c[2])
                               \/ \E j \in JobId : StartPoll(p, j) \/ StartRetry(p, j)
                               \/ Crash(p)
        PROVE  SerialInv' /\ CompletedKept
    BY <1>2, <2>3, SerialStarts
  <2>4. ASSUME NEW p \in Proc, Continue(p) \/ SendFails(p) \/ WorkFails(p)
        PROVE  SerialInv' /\ CompletedKept
    BY <1>2, <2>4, SerialClaims, SerialMoves, SerialUpdates DEF Continue
  <2>5. ASSUME NEW j \in JobId, Approve(j)
        PROVE  SerialInv' /\ CompletedKept
    BY <1>2, <2>5, SerialApprove
  <2> QED
    BY <1>2, <2>1, <2>2, <2>3, <2>4, <2>5 DEF Next
<1>3. CompletedKept => [\A j \in JobId : Completed(j) => Completed(j)' /\ job'[j].outputs = job[j].outputs]_vars
  BY DEF CompletedKept
<1> QED
  BY <1>1, <1>2, <1>3, JobsInvariant, PTL DEF Spec, CompletedStays
=============================================================================
