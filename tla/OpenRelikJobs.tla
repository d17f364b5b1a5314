---------------------------- MODULE OpenRelikJobs ----------------------------
(***************************************************************************)
(* The OpenRelik job ledger (openrelik_adapter.py) and the Velociraptor    *)
(* fast path on top of it (velociraptor_openrelik.py).                     *)
(*                                                                         *)
(* Callers share one SQLite file.  Every statement commits by itself and   *)
(* nothing is locked between a SELECT and the UPDATE that follows it, so   *)
(* each statement, and each call to the OpenRelik service, is a step.      *)
(*                                                                         *)
(* One tenant, case and workflow name: a call outside its scope raises     *)
(* before it touches the table.  What build_idempotency_key hashes is then *)
(* an evidence id and a sha256, one value of Evidence; IdOf is the id.     *)
(***************************************************************************)
EXTENDS Integers, Sequences

CONSTANTS
  Proc,         \* threads and processes that call the adapter
  JobId,        \* request ids, the primary key
  Evidence,     \* an evidence id and the bytes under it: what a key identifies
  EvidenceId,
  IdOf,         \* the evidence id of each
  Asset,        \* the part of a request the key does not cover
  RequestId,    \* the id _request derives from the key
  Requests,     \* requests handed to the adapter directly
  Collections,  \* what archives given to the fast path hold, and the asset named with them
  MaxAttempts,  \* max_attempts
  AttemptBound, \* a bound on attempts, for TLC: no further call starts
  Ops,          \* other calls made: "poll", "retry", "approve"
  Faults,       \* "refused", "lost" (service), "failed" (store or collection),
                \* "empty" (a collection without timeline rows), "crash",
                \* "replaced" (an archive has other bytes when it is read again),
                \* "unsuccessful" (a workflow ends badly or without artifacts)
  None

Request == [id : JobId, key : Evidence, evidence : Evidence, asset : Asset]

Terminal == {"succeeded", "failed", "quarantined"}
Status == {"queued", "running"} \cup Terminal

\* Where outputs come from: reported by the service, or rows the fast path read
\* from the bytes of some evidence.
Reported == {"none", "remote"}
Outputs == Reported \cup Evidence

Row == [request : Request, workflow : Nat \cup {None}, status : Status,
        review : {"unreviewed", "approved"}, attempts : Nat, outputs : Outputs]

\* An answer of the service, or the outcome of a collection.
Response == [workflow : Nat, status : Status, outputs : Outputs]

ASSUME JobsAssumption ==
  /\ RequestId \in [Evidence -> JobId]
  /\ Requests \subseteq Request
  /\ Collections \subseteq Evidence \X Asset
  /\ IdOf \in [Evidence -> EvidenceId]
  /\ Evidence \cap Reported = {}
  /\ MaxAttempts \in Nat \ {0}
  /\ AttemptBound \in Nat
  /\ None \notin Nat \cup Row \cup Response \cup Evidence

VARIABLES
  job,        \* per job id: its row of openrelik_jobs, or None
  flow,       \* the service's workflows, in the order they were started
  published,  \* evidence the evidence store has promoted
  extracted,  \* per evidence id: whose files .analysis-<evidence_id> holds, or None
  changed,    \* history: evidence ids an archive of which was found changed
  call        \* per process: the call it is in

files == <<extracted, changed>>
vars == <<job, flow, published, extracted, changed, call>>

WorkflowId == 1..Len(flow)

Workflow == [request : Request, key : Evidence, status : Status, outputs : Reported]

Call == [pc : {"idle", "insert", "read", "send", "record", "promote", "extract", "normalise",
               "complete", "reread", "count", "ask", "report"},
         op : {"none", "submit", "collect", "poll", "retry"},
         request : Request \cup {None}, saw : Row \cup {None},
         response : Response \cup {None},
         reply : {"none", "ok", "reused", "rejected", "conflict", "error"}]

\* Rows, workflows and calls keep their shape; a row names a started workflow.
TypeOK ==
  /\ job \in [JobId -> Row \cup {None}]
  /\ flow \in Seq(Workflow)
  /\ published \subseteq Evidence
  /\ extracted \in [EvidenceId -> Evidence \cup {None}]
  /\ changed \subseteq EvidenceId
  /\ call \in [Proc -> Call]
  /\ \A j \in JobId : job[j] # None => job[j].workflow \in WorkflowId \cup {None}

Idle == [pc |-> "idle", op |-> "none", request |-> None, saw |-> None, response |-> None,
         reply |-> "none"]

Init ==
  /\ job = [j \in JobId |-> None]
  /\ flow = <<>>
  /\ published = {}
  /\ extracted = [i \in EvidenceId |-> None]
  /\ changed = {}
  /\ call = [p \in Proc |-> Idle]

-----------------------------------------------------------------------------
Begin(p, op, pc, r, row) ==
  call' = [call EXCEPT ![p] = [Idle EXCEPT !.op = op, !.pc = pc, !.request = r, !.saw = row]]

Goto(p, pc) == call' = [call EXCEPT ![p].pc = pc]

\* The call returns or raises; its request and what it read are kept beside the reply.
Answer(p, reply) ==
  call' = [call EXCEPT ![p].pc = "idle", ![p].response = None, ![p].reply = reply]

At(p, pc) == call[p].pc = pc

\* The row a process works on: the one its record was read from.
Job(p) == call[p].saw.request.id

Write(j, row) == job' = [job EXCEPT ![j] = row]

Below == \A j \in JobId : job[j] # None => job[j].attempts < AttemptBound

-----------------------------------------------------------------------------
(* OpenRelikAdapter.submit and SQLiteJobStore.create.                       *)

\* validate_job_request and the recomputed idempotency key.
Accepts(r) == r.key = r.evidence

StartSubmit(p, r) ==
  /\ At(p, "idle") /\ Below
  /\ Begin(p, "submit", "insert", r, None)
  /\ UNCHANGED <<job, flow, published, files>>

\* submit_collection: hash and validate the archive, then submit.  From here on
\* the call has the hash, and the path: it keeps neither the bytes nor a handle.
StartCollection(p, e, a) ==
  /\ At(p, "idle") /\ Below
  /\ Begin(p, "collect", "insert",
           [id |-> RequestId[e], key |-> e, evidence |-> e, asset |-> a], None)
  /\ UNCHANGED <<job, flow, published, files>>

WithKey(k) == {j \in JobId : job[j] # None /\ job[j].request.key = k}

NewRowPending(r) == [request |-> r, workflow |-> None, status |-> "pending",
                     review |-> "unreviewed", attempts |-> 0, outputs |-> "none"]
NewRow(r) == [request |-> r, workflow |-> None, status |-> "queued",
              review |-> "unreviewed", attempts |-> 0, outputs |-> "none"]

\* Whether a claim under an existing key is the caller's own.
SameKeyOnly(stored, r) == stored.key = r.key
SameRequest(stored, r) == stored = r

\* The INSERT, or the lookup by key behind its IntegrityError: a row without
\* that key means the id is taken, and the error goes to the caller.
Insert(p) ==
  /\ At(p, "insert")
  /\ LET r == call[p].request
     IN  \/ ~Accepts(r) /\ Answer(p, "rejected") /\ UNCHANGED job
         \/ /\ Accepts(r) /\ job[r.id] = None /\ WithKey(r.key) = {}
            /\ Write(r.id, NewRow(r))
            /\ call' = [call EXCEPT ![p].pc = "read", ![p].saw = NewRow(r)]
         \/ /\ Accepts(r) /\ job[r.id] # None /\ WithKey(r.key) = {}
            /\ Answer(p, "error") /\ UNCHANGED job
         \/ /\ Accepts(r)
            /\ \E j \in WithKey(r.key) :
                 IF SameRequest(job[j].request, r)
                 THEN call' = [call EXCEPT ![p].pc = "read", ![p].saw = job[j]]
                 ELSE Answer(p, "conflict")
            /\ UNCHANGED job
  /\ UNCHANGED <<flow, published, files>>

\* What the fast path may hand back without doing the work.
ReusableClaim(row) == row.workflow # None
Reusable(row) == row.status = "succeeded" /\ row.outputs # "none"

\* Where it goes on otherwise: every resumed claim promotes again.
ResumeSkipsPromotion(row) == IF row.attempts > 0 THEN "extract" ELSE "promote"
ResumeAt(row) == "promote"

\* The record a submission ends with: answered, reused or worked on.
Claimed(p, row) ==
  LET seen(pc, reply) ==
        call' = [call EXCEPT ![p].saw = row, ![p].pc = pc, ![p].response = None,
                             ![p].reply = reply]
  IN  IF call[p].op # "collect" THEN seen("idle", "ok")
      ELSE IF Reusable(row) THEN seen("idle", "reused")
      ELSE seen(ResumeAt(row), "none")

\* The record is read; one with a workflow needs no transport call.
ReadClaim(p) ==
  /\ At(p, "read")
  /\ LET row == job[Job(p)]
     IN  IF row.workflow # None THEN Claimed(p, row)
         ELSE call' = [call EXCEPT ![p].pc = "send", ![p].saw = row]
  /\ UNCHANGED <<job, flow, published, files>>

-----------------------------------------------------------------------------
(* The OpenRelik service: one workflow per idempotency key.                 *)

Started(k) == {w \in WorkflowId : flow[w].key = k}

\* The key a submission carries: the record's own, in submit and in retry alike.
SentKey(p) == call[p].saw.request.key

StartWorkflow(p) ==
  IF Started(SentKey(p)) # {} THEN flow
  ELSE Append(flow, [request |-> call[p].request, key |-> SentKey(p),
                     status |-> "queued", outputs |-> "none"])

\* transport.submit answers with the workflow and a status no newer than its own.
Send(p) ==
  /\ At(p, "send")
  /\ flow' = StartWorkflow(p)
  /\ \E w \in 1..Len(flow') : \E s \in {"queued", flow'[w].status} :
       /\ flow'[w].key = SentKey(p)
       /\ call' = [call EXCEPT ![p].pc = "record",
                     ![p].response = [workflow |-> w, status |-> s, outputs |-> "none"]]
  /\ UNCHANGED <<job, published, files>>

\* The service is unreachable, or its answer is lost or names no workflow.
SendFails(p) ==
  /\ At(p, "send")
  /\ \/ "refused" \in Faults /\ UNCHANGED flow
     \/ "lost" \in Faults /\ flow' = StartWorkflow(p)
  /\ Answer(p, "error")
  /\ UNCHANGED <<job, published, files>>

\* A workflow runs and ends; only one that succeeds has artifacts.
Advance(w) ==
  /\ \/ /\ flow[w].status = "queued"
        /\ flow' = [flow EXCEPT ![w].status = "running"]
     \/ /\ flow[w].status = "running"
        /\ \E s \in Terminal, o \in {"none", "remote"} :
             /\ o = "remote" => s = "succeeded"
             /\ o = "none" => "unsuccessful" \in Faults
             /\ flow' = [flow EXCEPT ![w].status = s, ![w].outputs = o]
  /\ UNCHANGED <<job, published, call, files>>

\* The UPDATE behind a submission, by job id alone; attempts counts from what
\* was read before the transport call.  submit then reads the row again.
Record(p) ==
  /\ At(p, "record")
  /\ LET c == call[p]
     IN  Write(Job(p), [job[Job(p)] EXCEPT !.workflow = c.response.workflow,
                          !.status = c.response.status, !.attempts = c.saw.attempts + 1])
  /\ IF call[p].op = "retry" THEN Answer(p, "ok") ELSE Goto(p, "read")
  /\ UNCHANGED <<flow, published, files>>

-----------------------------------------------------------------------------
(* The rest of submit_collection.                                           *)

\* promote_to_evidence refuses an id that is published with other bytes.
PromotableOver(e) == TRUE
Promotable(e) == \A f \in published : IdOf[f] = IdOf[e] => f = e

\* With an evidence store configured (the deployment modelled), a staged copy of
\* the hashed bytes is promoted, or what is published already is the answer.
Promote(p) ==
  /\ At(p, "promote")
  /\ LET e == call[p].request.evidence
     IN  Promotable(e) /\ published' = published \cup {e}
  /\ Goto(p, "extract")
  /\ UNCHANGED <<job, flow, files>>

\* EVIDENCE_CONFLICT, or CHECKSUM_MISMATCH of a copy taken from a replaced archive.
PromoteRefused(p) ==
  /\ At(p, "promote")
  /\ LET e == call[p].request.evidence
     IN  ~Promotable(e) \/ (e \notin published /\ "replaced" \in Faults)
  /\ Answer(p, "error")
  /\ UNCHANGED <<job, flow, published, files>>

\* What a path that was hashed as e may hold when it is read again.
Found(e) == {f \in Evidence : f = e \/ ("replaced" \in Faults /\ IdOf[f] = IdOf[e])}

\* adapter.collect: the archive's path is read again, and its files are moved
\* over what the evidence id's directory held.
Extract(p) ==
  /\ At(p, "extract")
  /\ LET e == call[p].request.evidence
     IN  \E f \in Found(e) :
           /\ extracted' = [extracted EXCEPT ![IdOf[e]] = f]
           /\ changed' = IF f = e THEN changed ELSE changed \cup {IdOf[e]}
  /\ Goto(p, "normalise")
  /\ UNCHANGED <<job, flow, published>>

\* _normalized_outputs: the files are read back from that directory, as they are
\* now; they give rows or none.
Normalise(p) ==
  /\ At(p, "normalise")
  /\ \E o \in {extracted[IdOf[call[p].request.evidence]]}
            \cup (IF "empty" \in Faults THEN {"none"} ELSE {}) :
       call' = [call EXCEPT ![p].pc = "complete",
                  ![p].response = [workflow |-> 0, status |-> "succeeded", outputs |-> o]]
  /\ UNCHANGED <<job, flow, published, files>>

\* Promotion refused, extraction failed or the deadline passed.
WorkFails(p) ==
  /\ "failed" \in Faults
  /\ At(p, "promote") \/ At(p, "extract") \/ At(p, "normalise")
  /\ Answer(p, "error")
  /\ UNCHANGED <<job, flow, published, files>>

\* add_outputs: succeeded, whatever the row said meanwhile.
Complete(p) ==
  /\ At(p, "complete")
  /\ Write(Job(p), [job[Job(p)] EXCEPT !.status = "succeeded",
                                       !.outputs = call[p].response.outputs])
  /\ Goto(p, "reread")
  /\ UNCHANGED <<flow, published, files>>

Reread(p) ==
  /\ At(p, "reread")
  /\ call' = [call EXCEPT ![p].pc = "count", ![p].saw = job[Job(p)]]
  /\ UNCHANGED <<job, flow, published, files>>

Count(p) ==
  /\ At(p, "count")
  /\ Write(Job(p), [job[Job(p)] EXCEPT !.attempts = call[p].saw.attempts + 1])
  /\ Answer(p, "ok")
  /\ UNCHANGED <<flow, published, files>>

-----------------------------------------------------------------------------
(* poll, retry, approve.                                                    *)

PollableAnyStatus(row) == row.workflow # None
Pollable(row) == row.workflow # None /\ row.status \notin Terminal

StartPoll(p, j) ==
  /\ "poll" \in Ops /\ At(p, "idle") /\ job[j] # None
  /\ \/ Pollable(job[j]) /\ Begin(p, "poll", "ask", job[j].request, job[j])
     \/ ~Pollable(job[j]) /\ call' = [call EXCEPT ![p] = [Idle EXCEPT !.reply = "ok"]]
  /\ UNCHANGED <<job, flow, published, files>>

Ask(p) ==
  /\ At(p, "ask")
  /\ \/ LET w == call[p].saw.workflow
        IN  call' = [call EXCEPT ![p].pc = "report",
                       ![p].response = [workflow |-> w, status |-> flow[w].status,
                                        outputs |-> flow[w].outputs]]
     \/ Faults \cap {"refused", "lost"} # {} /\ Answer(p, "error")
  /\ UNCHANGED <<job, flow, published, files>>

\* The UPDATE of poll: the reported status and artifacts, unconditionally.
Report(p) ==
  /\ At(p, "report")
  /\ Write(Job(p), [job[Job(p)] EXCEPT !.status = call[p].response.status,
                                       !.outputs = call[p].response.outputs])
  /\ Answer(p, "ok")
  /\ UNCHANGED <<flow, published, files>>

Retryable(row) ==
  row.workflow = None /\ row.status \notin Terminal /\ row.attempts < MaxAttempts

StartRetry(p, j) ==
  /\ "retry" \in Ops /\ At(p, "idle") /\ Below /\ job[j] # None
  /\ \/ Retryable(job[j]) /\ Begin(p, "retry", "send", job[j].request, job[j])
     \/ ~Retryable(job[j]) /\ call' = [call EXCEPT ![p] = [Idle EXCEPT !.reply = "ok"]]
  /\ UNCHANGED <<job, flow, published, files>>

Approve(j) ==
  /\ "approve" \in Ops /\ job[j] # None
  /\ Write(j, [job[j] EXCEPT !.review = "approved"])
  /\ UNCHANGED <<flow, published, call, files>>

\* The process dies; what is committed stays.
Crash(p) ==
  /\ "crash" \in Faults /\ ~At(p, "idle")
  /\ call' = [call EXCEPT ![p] = Idle]
  /\ UNCHANGED <<job, flow, published, files>>

Continue(p) ==
  \/ Insert(p) \/ ReadClaim(p) \/ Send(p) \/ Record(p)
  \/ Promote(p) \/ PromoteRefused(p) \/ Extract(p) \/ Normalise(p)
  \/ Complete(p) \/ Reread(p) \/ Count(p) \/ Ask(p) \/ Report(p)

Next ==
  \/ \E p \in Proc :
       \/ \E r \in Requests : StartSubmit(p, r)
       \/ \E c \in Collections : StartCollection(p, c[1], c[2])
       \/ \E j \in JobId : StartPoll(p, j) \/ StartRetry(p, j)
       \/ Continue(p) \/ SendFails(p) \/ WorkFails(p) \/ Crash(p)
  \/ \E w \in WorkflowId : Advance(w)
  \/ \E j \in JobId : Approve(j)

Spec == Init /\ [][Next]_vars

-----------------------------------------------------------------------------
(* Properties.                                                              *)

\* A row's workflow runs exactly the stored request, and no evidence is
\* processed by two workflows, although a lost answer or a crash between
\* transport.submit and the UPDATE makes a later submit or retry send again.  A
\* caller that is handed a record is handed the one of the request it sent,
\* whoever won the INSERT (create).
OneWorkflow ==
  /\ \A j \in JobId : job[j] # None /\ job[j].workflow # None
       => flow[job[j].workflow].request = job[j].request
  /\ \A v, w \in WorkflowId : flow[v].request.evidence = flow[w].request.evidence => v = w
  /\ \A p \in Proc : call[p].op \in {"submit", "collect"} /\ call[p].reply \in {"ok", "reused"}
       => /\ call[p].saw.request = call[p].request
          /\ job[call[p].request.id] # None
          /\ job[call[p].request.id].request = call[p].request

\* A job with timeline rows from the fast path has its evidence preserved, and the
\* rows were read from the very bytes its request declares: although archives of one
\* evidence id share the directory their files are read back from, and whichever of
\* several resumed attempts wrote them.  The rows may be of other bytes only where an
\* archive of that id changed between its hash and the second reading of its path,
\* which submit_collection does not look for.
OutputsFromPreserved ==
  \A j \in JobId : job[j] # None /\ job[j].outputs \in Evidence
    => LET e == job[j].request.evidence
       IN  e \in published /\ (job[j].outputs = e \/ IdOf[e] \in changed)

\* A row that answers a repeated collection by itself.
Completed(j) == job[j] # None /\ job[j].status = "succeeded" /\ job[j].outputs # "none"

\* A completed claim is never reopened or emptied by a later submit, poll, retry
\* or resumed collection, crashes included.  Callers one at a time: a poll or a
\* submit that read the row before it completed does overwrite it.
CompletedStays ==
  [][\A j \in JobId :
       Completed(j) => Completed(j)' /\ job'[j].outputs = job[j].outputs]_vars

Collecting(p) == call[p].op = "collect"

\* A caller repeats its collections, with the bytes it claimed, until they are done;
\* no step of a collection fails or is cut off by a crash every time it is tried.
FairSpec ==
  /\ Spec
  /\ \A p \in Proc :
       /\ WF_vars(Continue(p))
       /\ SF_vars(Collecting(p) /\ Insert(p)) /\ SF_vars(Collecting(p) /\ ReadClaim(p))
       /\ SF_vars(Collecting(p) /\ Send(p)) /\ SF_vars(Collecting(p) /\ Record(p))
       /\ SF_vars(Promote(p)) /\ SF_vars(Extract(p)) /\ SF_vars(Normalise(p)) /\ SF_vars(Complete(p))
       /\ \A c \in Collections :
            SF_vars(~Completed(RequestId[c[1]]) /\ StartCollection(p, c[1], c[2]))

\* An interrupted collection resumes: whatever fails between the claim and the
\* outputs, a caller that repeats submit_collection ends with a completed job.
\* Promotion is one step here: a crash inside promote_to_evidence is another
\* matter (EvidenceStore, InterruptedPromotionResumes).
ClaimCompletes ==
  \A c \in Collections : LET j == RequestId[c[1]] IN
    (job[j] # None /\ job[j].request.key = c[1]) ~> Completed(j)
=============================================================================
