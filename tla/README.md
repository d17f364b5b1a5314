# A TLA+ model of the DFIR Evidence Workbench

This directory holds TLA+ specifications of the workbench's stateful core, TLC
configurations that check them on small instances, and TLAPS proofs of the most
important properties for instances of any size. `PROJECT.json` is the index: which
definition models which lines, which run checks which property, and the hazards the
properties are for.

All source paths below are relative to the repository; the Python package is
`src/dfir_workbench/`.

## 1. Inventory of the system

The workbench is an asynchronous FastAPI service with synchronous helper components.
It keeps state in four places: files under a storage root (evidence), PostgreSQL
(intake envelopes, timeline flags, resources, audit events), a SQLite file (OpenRelik
jobs), and process memory (AI answers and rate limits, local runner jobs).

| Component | State | Operations | What makes it correct |
|---|---|---|---|
| Evidence store (`evidence_store.py`) | quarantine slots, originals, manifests, file modes | ingest, find, promote, verify, legal hold, delete | originals are written once; an answer stays true; received bytes are never lost; holds and retention block deletion |
| Vendor intake (`ingest.py`, `db.py` `IngestRepository`, migration 0002) | table `ingest_envelope`, one row per idempotency key | batch preview, approve, commit, quarantine | key reuse with other content is never silent; a record is opened once; closed records stay closed |
| OpenRelik ledger and Velociraptor fast path (`openrelik_adapter.py`, `openrelik_contract.py`, `velociraptor_openrelik.py`) | table `openrelik_jobs`, the external service's workflows | submit, poll, retry, approve, submit_collection | one workflow per evidence; a caller gets its own job; outputs are of preserved evidence and of the archive the request names; interrupted claims resume |
| Analyst AI routes and gateway budget (`api.py`, `model_gateway.py`) | per-analyst deque and slot, token budget, answer cache | ask, get, cancel, approve, purge | rolling rate limit; slots are given back; answers live for their hour, no longer |
| Evidence stager, disk workflow (`staging.py`, `disk_workflow.py`) | analysis root, source snapshot | stage, process, verify | a source that changes under an attempt is noticed |
| Local runner (`local_runner.py`) | jobs and registrations in memory, work directories | build the corpus on first use, register, submit, review, retry, teardown | jobs settle; approvals stand; a retry starts clean; a teardown leaves nothing |
| MXRay worker (`mxray_worker.py`, `mxray_contract.py`) | results by key in memory | process, review | a message is processed once |
| Audit, metrics, alerts (`audit.py`, `metrics.py`, `alerts.py`, `_observability` in `api.py`, migration 0004) | table `audit_event`, counters | record, query, evaluate | every answer has an event; a quiet alert means a complete table; counters are exact; paging misses nothing |
| Timeline flags, resources (`db.py`, `api.py`, migrations 0001, 0003) | tables | create, list | answers show what is stored |
| Interop validation, vendor projections (`interop.py`, `adapters/*_ingest_adapter.py`) | none of their own; decide keys and times | project, key, validate | no version swallowed, records that can be told apart stay apart, times in order |
| Forensic adapters (UAC, Velociraptor, disk, memory, EWF, TSK) | extraction directories | inventory, extract, parse | size limits hold for bytes written; what is published was read to its end |
| Context builder, artifact timeline, database lifecycle | none, or in memory | pure functions, bootstrap | redaction is bounded; bootstrap is idempotent |
| API shell and authentication, corpus, manifest worker, frontend | none of their own | | |

How the components interact: the API routes call the intake repository and the AI
routes directly; the fast path calls the job ledger (`submit`, `add_outputs`,
`update`) and the evidence store (`find_quarantine_by_sha`, `ingest_to_quarantine`,
`promote_to_evidence`); the ledger calls the OpenRelik service through a transport; intake calls a vendor
projection for every item; the runner drives the stager, which hands its copy to an
adapter; the middleware audits every request of every route.
Components share only the file system and the databases. There is no message queue
and no lock across processes; the only in-process locks guard the AI rate state and
the token budget.

The hard behaviours are therefore: several processes on one directory tree, with a
crash between two system calls; SELECT and UPDATE in different statements at READ
COMMITTED; an external call between two SQLite statements whose answer can be lost;
coroutines and worker threads on one dict of dicts; worker threads on one job and its
directory while the source file changes; vendor records polled late, twice and out of
order; an audit write after the handler's own commit. `PROJECT.json` lists each one at
its line under `hazards`.

## 2. Modules

| Module | Models | Extends / composes |
|---|---|---|
| `EvidenceStore` | the evidence store, one action per visible file-system step | `WriteOnceStore` as its abstraction |
| `WriteOnceStore` | abstract: objects written once, true answers | |
| `EvidenceStoreProofs` | proofs | `EvidenceStore` |
| `IngestEnvelopes` | intake and review, one action per SQL statement | `EnvelopeReview` as its abstraction |
| `EnvelopeReview` | abstract: the review life cycle of a record | |
| `IngestEnvelopesProofs` | proofs | `IngestEnvelopes` |
| `OpenRelikJobs` | ledger, fast path, and the service from outside | |
| `OpenRelikJobsProofs` | proofs | `OpenRelikJobs` |
| `AnalystAI` | AI routes, rate limit, budget, answer cache | |
| `AnalystAIProofs` | proofs | `AnalystAI` |
| `VendorSync` | projection, keys and repeated intake of vendor records | |
| `VendorSyncProofs` | proofs | `VendorSync` |
| `LocalRunner` | the runner over the stager and the disk workflow | |
| `LocalRunnerProofs` | proofs | `LocalRunner` |
| `Extraction` | extraction by three adapters, the stager's archive check | |
| `ExtractionProofs` | proofs | `Extraction` |
| `RequestAudit` | create handlers, middleware, audit sink, counters, the sink's alert, audit paging | |
| `RequestAuditProofs` | proofs | `RequestAudit` |
| `MC*` | model values, request and item sets, symmetry | the module named |

### EvidenceStore

`quar` is the quarantine tree (slot made, blob, digest in `meta.json`), `obj` an
evidence object (directory mode, original, read-only bit, manifest, manifest mode),
`now` the clock in retention units, `proc` each process's program counter, locals and
last answer, and `received` a history of contents whose ingest returned. File
contents are values of `Content` and stand for their own digest. A file being written
is `Torn`; two overlapping manifest writers can leave it `Garbled` (the JSON text
with `true` is one byte shorter than the one with `false`).

Every system call another process can observe is a step: `PromoteMkdir` (the
exclusive mkdir), `PromoteOpenCopy`/`PromoteCopied` (copyfile), `PromoteSeal` (the
chmods and the manifest in memory), `PromotePublish`/`PromoteWrite` (open, write),
`PromoteLock`, `PromoteClean` (rmtree of the slot, file by file); in the same way for
ingest, hold and deletion. An unlinked file that a process still has open swallows
what that process writes (`linked`). `Crash` forgets a process's locals between any
two steps. Error codes are the code's own; `OS_ERROR` and `JSON_ERROR` are exceptions
the code does not catch.

Left out: identifier validation, symlink and containment checks and the quarantine
size limit, which are guards on arguments and change nothing; `.partial-` files,
which nothing reads.

### IngestEnvelopes

`row` is the table by idempotency key (unique; rows are never deleted), `req` each
client's request: batch, results so far, the row its SELECT returned, the HTTP code.
`store_preview` is `StoreInsert` (INSERT ... ON CONFLICT DO NOTHING, and the commit),
`StoreSelect`, `StoreUpdate`. An item's `kind` is the outcome of projection and
validation, which are pure. Faults: a database error (`StoreFails`), a commit whose
acknowledgement is lost (`StoreLosesReply`), and the death of the server.

The table's `quarantine_reference` and `error_code` are not modelled. Reading the code
for them shows that `store_preview`'s INSERT (`db.py:475-489`) names neither column, so
an envelope quarantined at intake is stored without the reference
`build_envelope_for_preview` drew for it. `apply_commit` (`db.py:623`) accepts `preview`
as well as `approved`, although its docstring calls it the step after approval;
`EnvelopeReview` states what the code does. It also lets an applied row be closed: an
approval and commit between the SELECT and the UPDATE of a repeated preview are overwritten,
since the UPDATE names the key alone (`db.py:540-542`), and the applied envelope becomes a
duplicate.

### OpenRelikJobs

`job` is the SQLite table by job id, `flow` the service's workflows, `published` what
the evidence store has promoted, `call` each caller's step and locals. `Insert` is
`create` with its IntegrityError path; `ReadClaim` the read behind it; `Send` the
transport call; `Record` the UPDATE by job id. The service is external and
modelled by what the adapter relies on: it starts at most one workflow per
idempotency key. Answers can be lost on the way back (`SendFails`).

The rest of `submit_collection` is `Promote` or `PromoteRefused`, `Extract`, `Normalise`,
`Complete`, `Reread`, `Count`. Promotion is one step here; its inside is `EvidenceStore`. A
call keeps the hash and the path of its archive, not the bytes: `Extract` reads the path
again, and what it finds may be other bytes under the same evidence id (`Found`, the fault
`replaced`). The files go to `.analysis-<evidence_id>` beside the archive, which `extracted`
holds by evidence id (archives of one id are taken to lie in one directory), and
`Normalise` reads them back from there as they are by then. `changed` is a history of the
evidence ids for which a reading found other bytes.

The code compares the second reading with nothing: `velociraptor_openrelik.py` hashes the
archive in line 46, promotes a copy with that hash (67-70), and inventories and extracts the
caller's path (50, 71), not the preserved copy. An archive replaced in between gives rows of
new bytes under the old digest, although `docs/security-defensibility-requirements.md:35`
wants workers to use verified working copies. `OutputsFromPreserved` therefore says where
rows may come from in every other case, and that their evidence is preserved in all of them.

### AnalystAI

`ask_ai` and `approve_ai_request` are coroutines on the event loop's thread;
`get_ai_request` and `cancel_ai_request` are plain functions, which FastAPI runs on
worker threads. All of them run `_purge_ai_requests` without a lock, so its dict
operations are steps (`PurgeTenants`, `PurgeRecords`, `PurgeDelete`, `PurgeDrop`, `PurgeForget`)
of several threads. A Python dict is an object: `dicts` holds every dict that was ever
the tenant's cache and `named` says which one `_ai_requests` names now. `begun` is a
history of admissions. `Resolve` models `_resolve_ai_resource` with the NameError
that `_db_uuid` raises there. The gateway is the `mock://` provider the routes use; its
HTTP path and retry loop are not modelled.

Two things the model contains are worth a line of their own. A purge tests whether the
tenant's dict is empty (`PurgeDrop`, `api.py:419`) and deletes the tenant's entry by name in
another operation (`PurgeForget`, `api.py:420`). When the event loop picked or replaced the
dict in between, an answer given a moment ago is gone, although
`docs/analyst-ask-ai-data-boundary.md:25` speaks of one hour; when another purge deleted the
entry first, the `del` raises KeyError and the request ends with 500. And `_resolve_ai_resource`
calls `_db_uuid`, a name that exists only inside `create_app`: with a pool, every authorised
question of a UUID-backed tenant ends in a 500.

### VendorSync

`raw` is what the vendors hold, `past` every version a record has had (a poller may post any
of them at any time, any number of times), `table` the envelopes by key, `sent` a history of
admitted snapshots. `Edit` changes a record with or without renewing its stamps, `MarkIoc`
turns an observable into an indicator. `Post` is one item of a preview: `Project` dispatches
to one operator per record kind (`HiveCase` ... `IrisEvidence`), which fixes the entity, the
list of stamps the time is taken from and the redaction decision; `Key` is
`idempotency_key`; `Admissible` is what validation lets through; `Stored` is `store_preview`,
in one step because its races are the subject of `IngestEnvelopes`. A time is its position
and the way it is written (`Form`), since the two `_choose_ts` read different forms:
TheHive's skips what has no zone, IRIS's appends `Z` to whatever shows neither `Z` nor `+`
and so loses negative offsets, and epochs are read by neither.

`FirstOf` is the loop "first key of a list that is present", which `_source_id`,
`_source_revision` and `_choose_ts` share. A poller may name `source_id` and
`source_revision` itself (`ingest.py:244-245`); they come before any field of the record.
`VendorAssumption` says what the vendors do: the ids a record carries for itself (`OwnIds`)
belong to no other record of its kind, no stamp lies in the future, and an edit that renews
stamps renews those of the last update.

`RecordsApart` is about records that can be told apart (`Identified`): by the poller's id, a
uuid of their own, or a numeric id and no case id. An IRIS item listed with its case is
keyed by it, since `case_uuid` and `case_id` are looked for first
(`dfir_iris_ingest_adapter.py:97-105`): all such items of one revision share one envelope and
end as conflicts, and one of them can meet an item whose own number equals the case's.
`docs/hive-iris-ingestion-research.md:71` calls the key a deterministic identity, and line 9
says that cases, IOCs, assets and timeline events are distinct resources.
`StampedEditReviewed` names the two ways in which a stamped edit may still become a conflict
in another's row: the vendor changed the record again under the same stamp, or an item keyed
by its case was posted under the same key. It is stated for the stamps of the last update,
which come first in the lists. `TimelineOrder` is about stamps both adapters read
(`Legible`); what they cannot read falls back to another stamp or a fixed time, in the model
as in the code, and no order is promised then.

`IrisEvidence` invents a digest when there is none and marks it `lossy`, which the
schema does not know, so such an item is rejected by validation only. `idempotency_key` joins
its parts with `|`; ids are numbers here, so a `|` inside an id is outside the model.

### LocalRunner

The routes are plain functions and run on worker threads; `th` is each thread's place and
locals, `job` and `listed` the table in memory, `root` and `copy` the analysis roots on disk,
`source` the content of the fixture's file and `manifest` the content the corpus manifest
names. `Ensure`, `BuildOpen`, `BuildWrite`, `BuildManifest` are the corpus build a request
starts when it finds no manifest; `write_bytes` truncates the file first (`Empty`).
`Submit` to `Finish` follow `submit`, `_run_job` and `EvidenceStager.run`: snapshot, root,
copy in two steps, records, processor, second snapshot. `Retry`, `RetryVerify`, `Wipe`,
`Restart` are `retry`; `Teardown`, `Sweep`, `Unlist` are `teardown`. `Change` writes the
source over, also with a content it had before, and `Crash` restarts the server. Writes are in
place: one that falls between the beginning and the end of a copy may mix both contents
(`MixedIn`, `Torn`). `writes` counts the writes between the two snapshots of an attempt,
`overlap` collects jobs two threads were busy with at once, and `stuck` those of which an
`rmtree(ignore_errors=True)` (`local_runner.py:122` and `138`) left something.

What the two snapshots catch is `OneChangeCaught`: a source written at most once between them
never gets a result of other bytes past them. More is not so. README.md:181 says the runner
stages a verified copy, but the copy is never hashed (`staging.py:172`), and the snapshots
compare digests (`staging.py:204`). Two first requests can both build the corpus
(`local_runner.py:31-32`), and the second build truncates the fixture and writes the same
bytes again (`src/corpus/generate.py:84`): a job that copies it in between has an empty or
torn source, both snapshots agree, and the result goes to review.

Where threads overlap on a job the code promises less, and the properties say so: `retry`
checks the status (`local_runner.py:117`) and clears the job several steps later, so it can
undo an approval given in between, or meet `ANALYSIS_ROOT_NOT_EMPTY`; a teardown during a run
leaves a tree that the run makes again. `provenance.source_sha256` is read from the manifest
before the first snapshot, so a source written over in between gives a result of another
content than the provenance names.

### Extraction

A scenario `sc` is an adapter, a form of source, its members and the requests (`IsScenario`: the
code returns before anything else when nothing is requested). `Extract` is validation and
inventory, `Queue` the order items are looked at: the sorted allowlist (UAC, directory), the
members (UAC, archive) or the requests as they come. The `*Verdict` operators are the checks
before a byte is read, `Open`, `Block`, `Publish` the copy through a temporary file,
`Return` the status. `Change`, `ReadError` and `Die` are the surroundings. A block is the 1
MiB the code reads at a time.

The source is whatever file the adapter was given, the stager's copy or the caller's own:
`disk_memory_adapter.py:203-207` and `velociraptor_openrelik.py:50,71` pass the evidence file
itself. So `Change` writes over files of a directory and images in place, and replaces members
of archives; a copy under way then ends with what the adapter's reading makes of it
(`CopyAfterChange`). A `linked` member is a file behind a symlinked directory: UAC tests only
the path's end (`uac_adapter.py:236-239`) and publishes it.

What the properties leave open is what the code leaves open. `WithinLimits` speaks of the disk
adapter only for an image that does not change: `copyfile` (`disk_memory_adapter.py:173`) knows
no limit, so an image that grows after its size was compared (168) passes them, where
`docs/public-reference-p0-capability-report.md:73` wants to fail closed on overflow.
`PublishedToEnd` asks for a regular file where the code does: UAC publishes a ZIP's symlink
members, holding the target's name (`uac_adapter.py:245-247`), where
`docs/security-defensibility-requirements.md:79` wants symlinks rejected. A copy UAC or the
disk adapter made of a file being written may mix its versions.

Seen while modelling: UAC reports `completed` for requested paths that no member of an archive
has; a destination that exists raises out of UAC's whole `extract` (`uac_adapter.py:279` is
before the `try`); Velociraptor replaces existing outputs, where
`docs/security-defensibility-requirements.md:79` wants overwrites rejected; limits are per
call and not per root; a name with a backslash passes Velociraptor's inventory and then has
no ZIP member of that spelling. `StagedFits` takes the adapters' limits to be the stager's and
each path to be requested once.

### RequestAudit

`pc` is the place of each request, `case` and `flag` the rows handlers commit, `audit` the
table, `open` audit rows before their commit, `log` the process log, `http` and `failures` the
counters, `reader` a client that pages through the events. `CreateInsert`, `FlagInsert`,
`FlagSelect`, `Commit` are the statements of the two writers; a second INSERT under a unique
key waits for the first transaction. `HandlerFails` is a lost connection, with a commit that
may have taken effect. `Respond` counts, `RecordNoPool`, `RecordInsert`, `RecordCommit`,
`RecordFails` are `AuditRepository.record`. `Restart` drops what is in memory and may start
without a pool.

The code differs from `docs/observability-and-incident-operations.md` in two places. Line 13
says that every request that is not a health check produces a row: one that ends in an
exception gets neither row nor log line (`api.py:564-566`), only a counted 500, also when the
exception came behind a committed row. Lines 25-27 say that an unavailable pool increments
`audit_write_failures_total`: without a pool `record` only logs (`audit.py:112-115`), so
`audit_sink_degraded` stays silent for the life of such a process, and the audit query
answers 200 with an empty list.

What holds is smaller and stated as such. `EveryAnswerRecorded`: every answer a handler gave
has an event in the table or in the log, with or without a pool. `MetricsTrue`: the request
counter is exact, requests that end in an exception included, and in a process with a pool a
silent alert means that the table has every answer's event. A client that pages with
`limit=1` never ends, since each page it reads adds a row. The error-rate alert reads the
counters and changes nothing; it is not modelled.

## 3. Runs

| Run | Instance | Checks |
|---|---|---|
| `ev_promote` | 2 processes, 1 evidence id, 2 slots, 2 contents; promote, hold, crash | `TypeOK`, `PublishedIntact`, `RepliesHold`, `NoEvidenceLoss`, `ImplementsWriteOnce` |
| `ev_serial` | 1 process, clock to 2, retention 0 or 1; all operations, crash | `DeletionLawful` |
| `ev_hold_race` | 2 processes; promote, hold, delete | `HeldOriginalStays` is violated |
| `ev_resume` | 1 process, promote, crash | `InterruptedPromotionResumes` is violated |
| `ing_race` | 2 clients, 1 key, 2 contents, batches of 1 or 2, all kinds of items, all faults | `TypeOK`, `NoSilentMismatch`, `AcceptedOnce`, `ImplementsReview` |
| `job_race` | 2 callers, 2 archives of one evidence id, a request that contests one of them; retry, lost answers, failed work, empty collections, replaced archives | `TypeOK`, `OneWorkflow`, `OutputsFromPreserved` |
| `job_live` | 1 caller, 1 collection, requests that differ in id, key or evidence; poll, retry, approve, every fault, crash; fair | `CompletedStays`, `ClaimCompletes` |
| `ai_threads` | event loop and 1 worker, 2 analysts, clock to 2 | `TypeOK`, `RollingLimit`, `SlotHeldOnlyInFlight`, `NoExpiredAnswer` |
| `sync` | pairs of records (`MCInitial`: every kind of both vendors, mixed ids, items listed with a case, the poller's own ids, nine ways of writing time), 2 edits, versions posted in any order | `TypeOK`, `NoVersionSwallowed`, `RecordsApart`, `StampedEditReviewed`, `TimelineOrder` |
| `runner` | 2 threads, 1 job, 2 attempts, corpus builds, 1 change of the source, 1 restart; fair steps | `TypeOK`, `OneChangeCaught`, `RetryFindsEmptyRoot`, `TornDownIsGone`, `ApprovedStands`, `JobSettles` |
| `extract` | members of 0 to 3 blocks against limits of 2 per file, 3 per call and 2 members; each member may change once; 2 calls | `TypeOK`, `WithinLimits`, `PublishedToEnd`, `CompletedMeansAll`, `StagedFits` |
| `audit` | 3 requests of any routes, 3 older events, pages of 2, 1 restart | `TypeOK`, `EveryAnswerRecorded`, `MetricsTrue`, `AnswersDurable`, `PagingComplete` |

The bounds are the smallest with which the interesting cases happen. Two processes and
one object give every race for an id; a third promoter meets only what the second one
meets. Two contents are needed for a conflict, two slots for two staged copies of one
content. One idempotency key is enough because rows do not refer to each other; a
batch of two shows an abort after a committed item and a key repeated in one batch.
Two job ids and two archives give a key that is not the evidence's, a new id under
a known key, and a known id under a new key; two archives of one evidence id are what can
meet in one directory. A clock of two ticks straddles a window and
a time to live from both sides. Two edits make three versions, enough for the middle one to
arrive last. Two threads give every overlap on a job and of
two corpus builds, two attempts a retry over what the first one left.
Limits of two and three blocks have sizes below, at and above them, and two calls let one
extract where another died. Three requests let two race while a third pages, or one write
while two pages are read; three older events and pages of two make the first page
incomplete. `MaxTime`, `MaxBatch`, `MaxAsks`, `AttemptBound`, `MaxEdits`, `MaxSyn`,
`MaxChanges`, `MaxAttempts`, `MaxCrashes`, `MaxCalls` and `MaxRestarts` are the only caps;
each appears as a guard with its name.
Symmetry is used only in safety runs, over values the configurations treat alike.
Deadlock is checked for the store, intake and `job_live`. `job_race` stops when its attempts
are used up, and the other models when their questions, edits, attempts, calls or requests are.

### Fairness

`runner` assumes weak fairness of a thread's next step: a request that was accepted waits for
no lock, so nothing but the scheduler stops it. Nobody has to send requests.

`job_live` assumes that a caller whose collection is not complete calls again with the bytes
it claimed, and strong fairness of the steps of a collection (`Insert`, `ReadClaim`, `Send`,
`Record`, `Promote`, `Extract`, `Normalise`, `Complete`): a service that refuses, work that
fails or a process that dies may do so any number of times, not every time. The ledger has no
scheduler of its own; resumption is by repeating the call ("Incomplete claims
deliberately resume", `velociraptor_openrelik.py:62`), and the run shows that repeating
it is enough. Crashes inside the single `Promote` step are out of its reach: after such
a crash `ev_resume` applies and the claim stays incomplete.

### What the violated runs show

* `ev_hold_race`: `delete_evidence` decides on a manifest it read earlier. In the trace a
  `set_legal_hold` runs from its read to its last chmod between that check and the rmtree:
  the manifest can be read, carries the hold and is locked again (`Held`), no hold is under
  way, and the original is removed.
* `ev_resume`: a crash after the exclusive mkdir and before the manifest leaves an id
  that every later promotion refuses with `EVIDENCE_EXISTS`, staged copy or not.

Each is a `findings` entry with the line of documentation it contradicts. Further places
where code and documents differ have no run of their own: they are described with their
module in section 2 and in the comment of the property they bound.

Nothing is said of the store's `sealed` answer; torn and garbled manifests are in the model,
and the store's properties are about manifests that can be read (`Readable`).

`CompletedStays` is checked with one caller only. With two, a poll or a submission that
read the row before it completed overwrites it; the repository promises nothing about
that, so it is a hazard and not a finding.

## 4. Proofs

The proofs hold for every value of the constants: any number of processes, clients, keys,
jobs, threads, records, requests, steps of the clock and restarts. The bounds named in
section 3 are constants like any other. They rest on one named assumption per module
(`StoreAssumption`, `IngestAssumption`, `JobsAssumption`, `AIAssumption`, `RunnerAssumption`,
`ExtractionAssumption`, `AuditAssumption`, `SyncAssumption` and `VendorAssumption`), which TLC
evaluates on every run:
sentinels differ from real values, numbers are natural, inputs are well formed and, for
`VendorSync`, the vendors behave as section 2 says. Some theorems have a hypothesis of their own,
given below. Each inductive invariant was checked by TLC on the module's run before it was
proved.

| Property | Theorem | Hypothesis |
|---|---|---|
| `EvidenceStore!TypeOK` | `TypeCorrect` | |
| `PublishedIntact`, `RepliesHold`, `NoEvidenceLoss`, `ImplementsWriteOnce` | `PublishedEvidenceIntact`, `AnswersHold`, `ReceivedIsKept`, `RefinesWriteOnce` | no `delete` |
| `DeletionLawful` | `DeletesLawfully` | one process |
| `IngestEnvelopes!TypeOK`, `NoSilentMismatch`, `AcceptedOnce`, `ImplementsReview` | `IngestTypeCorrect`, `MismatchNeverSilent`, `OpenedOnce`, `RefinesReview` | |
| `OpenRelikJobs!TypeOK`, `OneWorkflow`, `OutputsFromPreserved` | `JobsTypeCorrect`, `EvidenceProcessedOnce`, `OutputsPreserved` | |
| `CompletedStays` | `CompletedClaimStays` | one caller |
| `AnalystAI!TypeOK`, `RollingLimit`, `SlotHeldOnlyInFlight`, `NoExpiredAnswer` | `AITypeCorrect`, `RateLimited`, `SlotReleased`, `NoExpired` | |
| `VendorSync!TypeOK`, `NoVersionSwallowed`, `RecordsApart`, `StampedEditReviewed`, `TimelineOrder` | `SyncTypeCorrect`, `NothingSwallowed`, `RecordsStayApart`, `StampedEditsKept`, `TimesInOrder` | |
| `LocalRunner!TypeOK`, `OneChangeCaught`, `RetryFindsEmptyRoot`, `TornDownIsGone`, `ApprovedStands` | `RunnerTypeCorrect`, `ChangeIsCaught`, `RetryRootEmpty`, `TeardownRemoves`, `ApprovalStands` | |
| `Extraction!TypeOK`, `WithinLimits`, `PublishedToEnd`, `CompletedMeansAll`, `StagedFits` | `ExtractTypeCorrect`, `NeverOverLimit`, `OnlyToTheEnd`, `CompletedIsComplete`, `NoLimitForStaged` | |
| `RequestAudit!TypeOK`, `AnswersDurable`, `PagingComplete`, `EveryAnswerRecorded`, `MetricsTrue` | `AuditTypeCorrect`, `AnswersStayTrue`, `PagingSeesAll`, `AnswersRecorded`, `MetricsAreTrue` | |

### Evidence store

`TypeCorrect` (`Spec => []TypeOK`) covers all operations, deletion
and crashes included. `TypeOK` alone is not inductive: a step reads fields of the
record another step left, so `TypeInv` adds `CallOK`, what the locals of a call are at
each label.

The proofs of `PublishedIntact`, `RepliesHold`, `NoEvidenceLoss` and the refinement of
`WriteOnceStore` assume `"delete" \notin Ops`. The inductive invariant is `WormInv`:

* `ObjInv`: what an object's files say about each other (a manifest exists only behind a
  complete original in a directory);
* `StepInv`: what each process has established about the object it works on (between
  mkdir and the manifest the object has no manifest and the promoter's own bytes; a
  reader's manifest names the bytes that are there);
* `OneWriter`: at most one process is between mkdir and the manifest of an id;
* `QuarInv`: quarantine ids are handed out once, and what a promoter copies is what it
  verified or nothing;
* `NoEvidenceLoss` and `RepliesHold` themselves.

The argument: mkdir admits one writer, so the original goes from absent to complete
once; every other step changes an object only in ways that keep its bytes and the
existence of its manifest (`Monotone`), so whatever a process established stays
true for it, and whatever it told its caller stays true for good.

`DeletesLawfully` assumes one process (`Alone`), with all operations and crashes. Its invariant,
`VerdictStands`, is that what `delete_evidence` found in the manifest is so until the original is
gone; that nothing but rmtree takes an original away (`OriginalStays`) holds for any number of
processes. `ev_hold_race` shows the hypothesis cannot go.

### Intake

`FullInv` adds to the properties that a request's results are shorter than its batch while it
runs and the row it is to update exists (`RequestsOK`), that a target is set only by a commit
(`RowsOK`), and that what an UPDATE is about to write is `duplicate` or `conflict`
(`ClosingInv`), which is why a stale UPDATE can close a record and never reopen one.
`AcceptedOnce` follows with it: only an INSERT that found no row answers that a record was
opened, and its row is never deleted (`NextOnce`).

### Job ledger

`JobsInv` says what a call knows between two statements (`CallOK`): the row it was handed still
has its request, and an answer it is about to record names a workflow of its key. Rows keep
their request and workflows their key, one row has a key and one workflow runs per key;
`OneWorkflow` combines them, since the key of a request that got into the ledger is its
evidence.

`OutputsPreserved` needs a second invariant on top, `SourceInv`: of one evidence id at most one
archive is published; unless a changed one was found, its directory holds nothing or files of
the published archive; and a call behind `Promote` has its evidence published. So whatever
another collection extracts into the directory between a call's `Extract` and `Normalise` is
of the same archive.

`CompletedClaimStays` assumes one caller: then what the caller read is what is stored
(`SerialInv`), so the guards decide on the truth.

### Analyst AI

`DequeOK` is the rate limit's argument: an analyst's deque is a suffix of the history of
admissions, and all that was popped from it has left the window, so a deque shorter than `Rate`
leaves room for one more. `LooksOK` is the cache's: the dict a purge walked has lost its expired
ids, an id is put into one dict only, and a dict made later never gets an old id, so whichever
dict `_ai_requests` names at the lookup does not hold an expired record. A record that expires
while its reader purges is outside the property, which is about the time the request came in.

### Vendor records

`SyncInv` has a part for the vendors and one for the table. `VersionsOK`: two versions of a
record that have one renewed stamp in common have all stamps in common, since every edit that
renews stamps takes a new tick. `TableOK`: a row lies under the key of the snapshot it was made
for, and a key with a made id belongs to a value the counter has passed, so a made id is never
met again. An admitted snapshot is in some row or its key is a conflict, which no later step
takes back (`Kept`). `TimesInOrder` needs that every legible record has a stamp its projection
reads; `FirstFacts` (the first present key of a list, by a minimal counterexample over its
positions) carries the three loops.

`StampedEditsKept` has no hypothesis. A row another snapshot has under the edit's key is of the
same record by `RecordsApart`, when it can be told apart, and then has its stamps by
`VersionsOK`; otherwise it is of an item that goes by its case. These are the two exceptions
the property names.

### Local runner

`RunnerInv` says what a thread that is alone with its job knows at each label (`AloneOK`). No
copy is there before the copy is made. As long as nothing was written since the first snapshot
(`writes` is 0), the source, the part already read and the copy have the digest the snapshot
took (`Since`); after exactly one write the source has another one, so the second snapshot
differs and the attempt fails. Only with a second write may the first content be back. The
result is that of the copy, and `OneChangeCaught` follows (`JobsOK`).

`Exclusive` defines alone: outside `overlap` at most one thread is busy with a job. Steps
of other threads, corpus builds included, change nothing such a thread relies on but the
source, which `writes` counts, except `Sweep`, which is busy with every job it removes; what
an rmtree leaves is in `stuck`. `ApprovedStands` is an action property: the same invariant
says a thread past `retry`'s check is not at an approved job.

### Extraction

`ExtractInv` follows an item through the queue. `DoneOK`: as long as no error is counted,
everything asked for is published or still ahead; so a call that ends without an error has it
all. `CopyOK` and `OutOK`: a copy is of the item at the head, of a member its adapter lets
through, and a published file was read to its end. `LimitsOK`: the code's own `total` is never
below what the call has published, although Velociraptor and the disk adapter replace or refuse
files of the same name; for the disk adapter it needs that the image is what it was when its
size was looked at (`Bounded`), the premise `WithinLimits` names. `StagedOK`: for an archive the
stager let through and nobody changed since (`Stable`), the bytes counted and the declared
sizes of the members ahead never exceed the declared total, which is within the limit, so no
check against a limit fires. `Covers` says what each of the three queues is good for; that the
sorted allowlist names every path once is a lemma on ranks (`Ranks`).

Sums over members and files are recursive functions. That they exist, do not depend on the order
and grow with the set (`SumsExist`, `SumAdd`, `SumMono`) is proved by a smallest counterexample in
the number of elements, which needs no induction rule.

### Request shell

`RowsOK` says that of two creations of one key at most one is between its INSERT and its commit,
and that a row is of a request past its INSERT; a row never changes, so answers stay true.
`EventsOK` keeps events of one request and of one rank apart, in the table and in open
transactions. `PagesOK`: what a paging client is still owed has a rank no smaller than its
offset, and ranks only grow, since no event leaves the table; at the end no rank is left.
`TracesOK`: a request that ended with an answer has its event in the table or in the log, and
in the table when the process has a pool and has counted no failure. `CountsOK` equates each
counter with the number of requests of its class (`OfClass`). `MetricsAreTrue` puts the two
together.

### Only model-checked

* `ClaimCompletes` and `JobSettles`: liveness under fairness, out of the prover's reach.
* `HeldOriginalStays` and `InterruptedPromotionResumes`, which are violated.

## 5. Plan

Done: the evidence store, intake, the job ledger, the AI routes, vendor projections and
repeated intake, the runner with the stager, extraction, and the request shell with its audit
sink, with proofs of every property of the runs that holds and is not a liveness property.

Proofs to come: what of `WormInv` survives deletions (a readable manifest of an object that no
one is deleting), and the part of `CompletedStays` that holds with several callers.

Modelling to come: the gateway's external provider path and retry loop joined to `AnalystAI`;
the MXRay worker's limits and the dedupe of its development route (`api.py:997-1023`, checked
before processing and stored after it, on worker threads); database bootstrap by several
instances.

## 6. Not modelled

Routing, authentication, CORS and headers are stateless per request. The context builder,
artifact parsers, inventories and the copying of descriptive vendor fields are pure
transformations; where a model needs one it uses its outcome. Image and partition parsing, 7z
and the native tools behind `tsk_workflow.py` and `memory_analysis.py` are external programs
or byte-level parsers. `LocalRunner.register` appends to a list no route reads. The frontend
presents API answers. Of the corpus generator only the build of a fixture and its manifest row
is modelled (`LocalRunner`); the manifest worker is a one-shot tool. The
OpenRelik service, PostgreSQL, SQLite and the file system appear by the guarantees the code
relies on.
