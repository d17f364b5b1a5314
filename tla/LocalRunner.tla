----------------------------- MODULE LocalRunner -----------------------------
(***************************************************************************)
(* The development runner (local_runner.py) over the evidence stager       *)
(* (staging.py) and the disk workflow (disk_workflow.py).  The routes are  *)
(* plain functions, so the server runs them on worker threads: submit,     *)
(* retry, review and teardown of one tenant interleave, with no lock, over *)
(* the job table in memory and the analysis roots on disk.                 *)
(*                                                                         *)
(* One fixture; its file in the corpus has versions 0, 1, ..., the corpus  *)
(* generator writes version 0, after it has truncated the file, and anyone *)
(* may write another one over it.  A digest stands for the content it was  *)
(* taken of.  rmtree, one write of records, one digest and one read of the *)
(* copy are single steps; copying takes two, its first and its last read   *)
(* of the source, and whatever is written to the source in between may be  *)
(* mixed into the copy.                                                    *)
(***************************************************************************)
EXTENDS Integers, FiniteSets

CONSTANTS
  Thread,      \* worker threads
  Job,         \* job ids (uuid4: never given out twice)
  MaxChanges,  \* bound: times the source is written over, and its last version
  MaxAttempts, \* bound: attempts of one job
  MaxCrashes   \* bound: restarts of the server

ASSUME RunnerAssumption ==
  /\ {MaxChanges, MaxAttempts, MaxCrashes} \subseteq Nat
  /\ Job # {}

None  == -1   \* no version: nothing there
Torn  == -2   \* the bytes of several contents
Empty == -3   \* a file that was truncated and is not written yet

VARIABLES
  disk,     \* whether the fixture is a disk image: then the analysis root is the
            \* work directory itself, otherwise staging/ below it
  source,   \* content of the fixture's file, None before the corpus is built
  manifest, \* content manifest.jsonl names, None before the corpus is built
  listed,   \* self.jobs: the ids in the table
  job,      \* per id: the job's dict
  root,     \* the jobs whose analysis root exists
  copy,     \* per id: what the staged file `source' holds, None without one
  th,       \* per thread: where it is, and its local variables
  changes,
  crashes,
  writes,   \* history: per id, how often the source changed since the attempt's first
            \* snapshot and up to its second (counted up to 2)
  used,     \* history: ids given out
  overlap,  \* history: jobs two threads were busy with at once
  swept,    \* history: jobs a teardown removed, and nobody touched since
  stuck     \* history: jobs of which the last rmtree left something

vars == <<disk, source, manifest, listed, job, root, copy, th, changes, crashes, writes,
          used, overlap, swept, stuck>>

Status == {"processing", "ready_for_review", "error", "approved", "quarantined"}
Error  == {"none", "STAGE", "ANALYSIS_ROOT_NOT_EMPTY", "SOURCE_CHANGED", "PROCESS"}
Where  == {"idle", "build", "filling", "naming", "create", "verify", "wipe", "restart", "snapshot", "root", "copy", "copying",
           "records", "process", "resnap", "finish", "decide", "sweep", "unlist"}

NewJob == [status |-> "processing", attempt |-> 1, result |-> None, digest |-> None,
           error |-> "none", review |-> "none"]
Idle == [at |-> "idle", job |-> CHOOSE j \in Job : TRUE, before |-> None, linked |-> FALSE,
         first |-> None, got |-> None, decision |-> "none", jobs |-> {}]

Init ==
  /\ disk \in BOOLEAN /\ changes = 0 /\ crashes = 0
  /\ manifest \in {None, 0} /\ source = manifest
  /\ listed = {} /\ used = {} /\ overlap = {} /\ swept = {} /\ stuck = {} /\ root = {}
  /\ writes = [j \in Job |-> 0]
  /\ job = [j \in Job |-> NewJob]
  /\ copy = [j \in Job |-> None]
  /\ th = [t \in Thread |-> Idle]

-----------------------------------------------------------------------------
(* Helpers.                                                                 *)

Sweeping(t) == th[t].at \in {"sweep", "unlist"}
OnJob(c) == c.at \notin {"idle", "build", "filling", "naming", "sweep", "unlist"}
Busy(j) == {t \in Thread : Sweeping(t) \/ (OnJob(th[t]) /\ th[t].job = j)}

\* t starts on job j; whoever else is busy with j now overlaps with it.
Begin(t, j, where) ==
  /\ th' = [th EXCEPT ![t] = [Idle EXCEPT !.at = where, !.job = j]]
  /\ overlap' = IF Busy(j) = {} THEN overlap ELSE overlap \cup {j}
  /\ swept' = swept \ {j}

Goto(t, where) == th' = [th EXCEPT ![t].at = where]
Done(t) == th' = [th EXCEPT ![t] = Idle]

\* _run_job: an exception ends the run with status error.
FailUncaught(t, code) == Done(t) /\ UNCHANGED job
Fail(t, code) ==
  /\ job' = [job EXCEPT ![th[t].job].status = "error", ![th[t].job].error = code]
  /\ Done(t)

\* rmtree(ignore_errors) of the trees of some jobs, by t, which goes on as given;
\* then the roots `new' are made.  What it cannot remove stays, a root or a root
\* and the copy in it; files that are open and removed lose their path.
Remove(t, js, new, where) ==
  \E kept \in SUBSET (js \cap root) : \E left \in SUBSET kept :
    /\ root' = (root \ (js \ kept)) \cup new
    /\ copy' = [j \in Job |-> IF j \in js \ left THEN None ELSE copy[j]]
    /\ th' = [u \in Thread |-> IF u = t THEN [th[u] EXCEPT !.at = where]
                                ELSE [th[u] EXCEPT !.linked = @ /\ th[u].job \notin js \ left]]
    /\ stuck' = (stuck \ js) \cup kept

\* mkdir of the work directory makes the analysis root of a disk image.
Fresh(j) == IF disk THEN {j} ELSE {}

\* The source now holds v.  A run between its snapshots counts that, and what a
\* copy that is being read began with no longer is all of one content.
Snapped == {"root", "copy", "copying", "records", "process", "resnap"}
Write(v) ==
  /\ source' = v
  /\ writes' = [j \in Job |->
       IF v # source /\ writes[j] < 2 /\ \E t \in Thread : th[t].at \in Snapped /\ th[t].job = j
       THEN writes[j] + 1 ELSE writes[j]]
MixedIn(v) ==
  [t \in Thread |-> IF v # source /\ th[t].at = "copying" THEN [th[t] EXCEPT !.first = Torn] ELSE th[t]]

Corpus  == <<disk, source, manifest, changes>>
History == <<used, overlap, swept, stuck>>
Files   == <<root, copy>>

-----------------------------------------------------------------------------
(* _ensure_corpus: whatever request comes first builds the corpus, and two   *)
(* that come together both do.                                               *)

Ensure(t) ==
  /\ th[t].at = "idle" /\ manifest = None
  /\ Goto(t, "build")
  /\ UNCHANGED <<Corpus, listed, job, Files, crashes, writes, History>>

\* write_bytes of the fixture: truncate, then write.
BuildOpen(t) ==
  /\ th[t].at = "build"
  /\ Write(Empty)
  /\ th' = [MixedIn(Empty) EXCEPT ![t].at = "filling"]
  /\ UNCHANGED <<disk, manifest, listed, job, Files, changes, crashes, History>>
BuildWrite(t) ==
  /\ th[t].at = "filling"
  /\ Write(0)
  /\ th' = [MixedIn(0) EXCEPT ![t].at = "naming"]
  /\ UNCHANGED <<disk, manifest, listed, job, Files, changes, crashes, History>>

\* The manifest names the digest of the file as it is read back.
BuildManifest(t) ==
  /\ th[t].at = "naming"
  /\ manifest' = source
  /\ Done(t)
  /\ UNCHANGED <<disk, source, listed, job, Files, changes, crashes, writes, History>>

-----------------------------------------------------------------------------
(* submit.                                                                  *)

\* _manifest_row: the file must still be what the manifest says, in size (of the
\* bytes that were generated) and digest.
Verified == source = manifest /\ source \notin {None, Empty}

Submit(t, j) ==
  /\ th[t].at = "idle" /\ j \in Job \ used /\ Verified
  /\ used' = used \cup {j}
  /\ Begin(t, j, "create")
  /\ UNCHANGED <<Corpus, listed, job, Files, crashes, writes, stuck>>

\* mkdir of the work directory, then the entry in the table.
Create(t) == LET j == th[t].job IN
  /\ th[t].at = "create"
  /\ root' = root \cup Fresh(j)
  /\ listed' = listed \cup {j}
  /\ Goto(t, "snapshot")
  /\ UNCHANGED <<Corpus, job, copy, crashes, writes, History>>

(* EvidenceStager.run, called by _run_job.                                  *)

\* _snapshot and _validate_archive: the digest before, or a refusal (a link, a
\* size over the limit, an unsafe archive).
Snapshot(t) ==
  /\ th[t].at = "snapshot"
  /\ \/ /\ th' = [th EXCEPT ![t].at = "root", ![t].before = source]
        /\ writes' = [writes EXCEPT ![th[t].job] = 0]
        /\ UNCHANGED job
     \/ Fail(t, "STAGE") /\ UNCHANGED writes
  /\ UNCHANGED <<Corpus, listed, Files, crashes, History>>

\* mkdir of the analysis root; it must not hold a staged source.
MakeRoot(t) == LET j == th[t].job IN
  /\ th[t].at = "root"
  /\ root' = root \cup {j}
  /\ \/ copy[j] = None /\ Goto(t, "copy") /\ UNCHANGED job
     \/ copy[j] # None /\ Fail(t, "ANALYSIS_ROOT_NOT_EMPTY")
  /\ UNCHANGED <<Corpus, listed, copy, crashes, writes, History>>

\* copyfile opens the staged file and starts to read the source.
CopyOpen(t) == LET j == th[t].job IN
  /\ th[t].at = "copy"
  /\ \/ /\ j \in root
        /\ copy' = [copy EXCEPT ![j] = Torn]
        /\ th' = [th EXCEPT ![t].at = "copying", ![t].linked = TRUE, ![t].first = source]
        /\ UNCHANGED job
     \/ j \notin root /\ Fail(t, "STAGE") /\ UNCHANGED copy
  /\ UNCHANGED <<Corpus, listed, root, crashes, writes, History>>

\* It ends; chmod needs the path.  After a write to the source meanwhile, the copy
\* is a mixture, or whole again.  A file whose tree was removed gets the bytes,
\* out of reach of the path.
CopyClose(t) == LET j == th[t].job IN
  /\ th[t].at = "copying"
  /\ \E v \in {th[t].first, source} :
       copy' = IF th[t].linked THEN [copy EXCEPT ![j] = v] ELSE copy
  /\ \/ copy[j] # None /\ Goto(t, "records") /\ UNCHANGED job
     \/ copy[j] = None /\ Fail(t, "STAGE")
  /\ UNCHANGED <<Corpus, listed, root, crashes, writes, History>>

\* _write_records, which needs the root.
WriteRecords(t) == LET j == th[t].job IN
  /\ th[t].at = "records"
  /\ \/ j \in root /\ Goto(t, "process") /\ UNCHANGED job
     \/ j \notin root /\ Fail(t, "STAGE")
  /\ UNCHANGED <<Corpus, listed, Files, crashes, writes, History>>

\* The processor reads the staged file, not the source; it may fail.
Process(t) == LET j == th[t].job IN
  /\ th[t].at = "process"
  /\ \/ copy[j] # None /\ th' = [th EXCEPT ![t].at = "resnap", ![t].got = copy[j]] /\ UNCHANGED job
     \/ Fail(t, "PROCESS")
  /\ UNCHANGED <<Corpus, listed, Files, crashes, writes, History>>

\* The digest after: a source that changed fails the run.
ResnapIgnored(t) ==
  /\ th[t].at = "resnap" /\ Goto(t, "finish")
  /\ UNCHANGED <<Corpus, listed, job, Files, crashes, writes, History>>
Resnap(t) ==
  /\ th[t].at = "resnap"
  /\ \/ source = th[t].before /\ Goto(t, "finish") /\ UNCHANGED job
     \/ source # th[t].before /\ Fail(t, "SOURCE_CHANGED")
  /\ UNCHANGED <<Corpus, listed, Files, crashes, writes, History>>

\* _write_records again, normalized-evidence.json for a disk, then the job is
\* ready for review.
Finish(t) == LET j == th[t].job IN
  /\ th[t].at = "finish"
  /\ \/ /\ j \in root
        /\ job' = [job EXCEPT ![j].status = "ready_for_review", ![j].result = th[t].got,
                              ![j].digest = th[t].before]
        /\ Done(t)
     \/ j \notin root /\ Fail(t, "STAGE")
  /\ UNCHANGED <<Corpus, listed, Files, crashes, writes, History>>

-----------------------------------------------------------------------------
(* review, retry, teardown.                                                 *)

\* review: the status is checked, then decided.
Review(t, j, decision) ==
  /\ th[t].at = "idle" /\ j \in listed /\ job[j].status = "ready_for_review"
  /\ th' = [th EXCEPT ![t] = [Idle EXCEPT !.at = "decide", !.job = j, !.decision = decision]]
  /\ overlap' = IF Busy(j) = {} THEN overlap ELSE overlap \cup {j}
  /\ UNCHANGED <<Corpus, listed, job, Files, crashes, writes, used, swept, stuck>>

DecideVerbatim(t) == LET j == th[t].job IN
  /\ th[t].at = "decide"
  /\ job' = [job EXCEPT ![j].status = th[t].decision, ![j].review = th[t].decision]
  /\ Done(t)
  /\ UNCHANGED <<Corpus, listed, Files, crashes, writes, History>>
Decide(t) == LET j == th[t].job IN
  /\ th[t].at = "decide"
  /\ job' = [job EXCEPT ![j].status = IF th[t].decision = "approve" THEN "approved" ELSE "quarantined",
                        ![j].review = th[t].decision]
  /\ Done(t)
  /\ UNCHANGED <<Corpus, listed, Files, crashes, writes, History>>

\* retry: only what failed or was quarantined.
RetryAny(t, j) ==
  /\ th[t].at = "idle" /\ j \in listed /\ job[j].attempt < MaxAttempts
  /\ Begin(t, j, "verify")
  /\ UNCHANGED <<Corpus, listed, job, Files, crashes, writes, used, stuck>>
Retry(t, j) ==
  /\ th[t].at = "idle" /\ j \in listed /\ job[j].status \in {"error", "quarantined"}
  /\ job[j].attempt < MaxAttempts
  /\ Begin(t, j, "verify")
  /\ UNCHANGED <<Corpus, listed, job, Files, crashes, writes, used, stuck>>

\* The attempt counts even when the manifest then does not match any more, or
\* cannot be read while another thread writes it.
RetryVerify(t) ==
  /\ th[t].at = "verify"
  /\ job' = [job EXCEPT ![th[t].job].attempt = @ + 1]
  /\ (Verified /\ Goto(t, "wipe")) \/ Done(t)
  /\ UNCHANGED <<Corpus, listed, Files, crashes, writes, History>>

\* rmtree of the work directory, and mkdir.
WipeNothing(t) ==
  /\ th[t].at = "wipe"
  /\ root' = root \cup Fresh(th[t].job)
  /\ Goto(t, "restart")
  /\ UNCHANGED <<Corpus, listed, job, copy, crashes, writes, History>>
Wipe(t) ==
  /\ th[t].at = "wipe"
  /\ Remove(t, {th[t].job}, Fresh(th[t].job), "restart")
  /\ UNCHANGED <<Corpus, listed, job, crashes, writes, used, overlap, swept>>

Restart(t) == LET j == th[t].job IN
  /\ th[t].at = "restart"
  /\ job' = [job EXCEPT ![j] = [NewJob EXCEPT !.attempt = job[j].attempt]]
  /\ Goto(t, "snapshot")
  /\ UNCHANGED <<Corpus, listed, Files, crashes, writes, History>>

\* teardown: the ids are collected first.
Teardown(t) ==
  /\ th[t].at = "idle"
  /\ th' = [th EXCEPT ![t] = [Idle EXCEPT !.at = "sweep", !.jobs = listed]]
  /\ overlap' = overlap \cup {j \in Job : Busy(j) # {}}
  /\ UNCHANGED <<Corpus, listed, job, Files, crashes, writes, used, swept, stuck>>

\* rmtree of the tenant's directory: the trees of all its jobs, listed or not.
SweepListed(t) ==
  /\ th[t].at = "sweep"
  /\ Remove(t, th[t].jobs, {}, "unlist") /\ swept' = used
  /\ UNCHANGED <<Corpus, listed, job, crashes, writes, used, overlap>>
Sweep(t) ==
  /\ th[t].at = "sweep"
  /\ Remove(t, used, {}, "unlist") /\ swept' = used
  /\ UNCHANGED <<Corpus, listed, job, crashes, writes, used, overlap>>

Unlist(t) ==
  /\ th[t].at = "unlist"
  /\ listed' = listed \ th[t].jobs
  /\ Done(t)
  /\ UNCHANGED <<Corpus, job, Files, crashes, writes, History>>

-----------------------------------------------------------------------------
(* The surroundings.                                                        *)

\* Somebody writes another version over the file in the corpus, one it had before
\* or not.
Change ==
  /\ source # None /\ changes < MaxChanges
  /\ changes' = changes + 1
  /\ \E v \in (0..MaxChanges) \ {source} : Write(v) /\ th' = MixedIn(v)
  /\ UNCHANGED <<disk, manifest, listed, job, Files, crashes, History>>

\* The table lives in memory, the trees do not.
Crash ==
  /\ crashes < MaxCrashes
  /\ crashes' = crashes + 1
  /\ listed' = {}
  /\ job' = [j \in Job |-> NewJob]
  /\ th' = [t \in Thread |-> Idle]
  /\ UNCHANGED <<Corpus, Files, writes, History>>

Step(t) ==
  \/ BuildOpen(t) \/ BuildWrite(t) \/ BuildManifest(t)
  \/ Create(t) \/ Snapshot(t) \/ MakeRoot(t) \/ CopyOpen(t) \/ CopyClose(t) \/ WriteRecords(t)
  \/ Process(t) \/ Resnap(t) \/ Finish(t)
  \/ Decide(t) \/ RetryVerify(t) \/ Wipe(t) \/ Restart(t) \/ Sweep(t) \/ Unlist(t)

Request(t) ==
  \/ Ensure(t) \/ Teardown(t)
  \/ \E j \in Job : Submit(t, j) \/ Retry(t, j) \/ \E d \in {"approve", "quarantine"} : Review(t, j, d)

Next == Change \/ Crash \/ \E t \in Thread : Step(t) \/ Request(t)

\* Threads the server has started keep running; nobody has to send requests.
Spec == Init /\ [][Next]_vars /\ \A t \in Thread : WF_vars(Step(t))

-----------------------------------------------------------------------------
(* Properties.                                                              *)

Content == (0..MaxChanges) \cup {Empty}
Held    == Content \cup {None, Torn}
Decision == {"none", "approve", "quarantine"}

Local == [at : Where, job : Job, before : Content \cup {None}, linked : BOOLEAN,
          first : Held, got : Held, decision : Decision, jobs : SUBSET Job]
JobDict == [status : Status, attempt : Nat \ {0}, result : Held,
            digest : Content \cup {None}, error : Error, review : Decision]

TypeOK ==
  /\ disk \in BOOLEAN /\ changes \in 0..MaxChanges /\ crashes \in 0..MaxCrashes
  /\ source \in Content \cup {None} /\ manifest \in Content \cup {None}
  /\ listed \subseteq used /\ used \subseteq Job /\ swept \subseteq used
  /\ root \subseteq used /\ overlap \subseteq Job /\ stuck \subseteq Job
  /\ job \in [Job -> JobDict]
  /\ copy \in [Job -> Held]
  /\ writes \in [Job -> 0..2]
  /\ th \in [Thread -> Local]

Reviewable(j) == job[j].status \in {"ready_for_review", "approved"}

\* What the two snapshots of EvidenceStager.run show: a source that was written at
\* most once between them, at whatever moment of the run, never gets a result
\* computed from other bytes past them.  It is less than the "verified copy" of
\* README.md:181: the copy is never hashed (stage), and a corpus build that
\* truncates the source and writes the same bytes again goes unnoticed.
OneChangeCaught ==
  \A j \in listed \ overlap :
    Reviewable(j) /\ writes[j] <= 1 => job[j].result = job[j].digest

\* An approval is final: no later request of one thread takes it back.  (retry
\* checks the status and clears the job several steps later: with two threads
\* on one job it can undo an approval given in between.)
ApprovedStands ==
  [][\A j \in listed : job[j].status = "approved" /\ j \in listed' /\ j \notin overlap'
                       => job'[j].status = "approved"]_vars

\* A retry finds no staged source, wherever the attempt before it failed: stage
\* refuses the root only when two threads are at the job or the rmtree of retry
\* left the copy there (its errors are ignored).
RetryFindsEmptyRoot ==
  \A t \in Thread : LET j == th[t].job IN
    th[t].at = "root" /\ copy[j] # None => j \in overlap \cup stuck

\* A teardown leaves no copy of evidence behind, not even of jobs from before a
\* restart that the table does not know (unless a thread was still at the job, or
\* rmtree left it and its errors were ignored).
TornDownIsGone ==
  \A j \in swept \ (overlap \cup stuck) : j \notin root /\ copy[j] = None

\* A job does not stay in processing: whatever fails, however many threads are at
\* it, some thread ends it with ready_for_review or error (_run_job).
JobSettles ==
  \A j \in Job : (j \in listed /\ job[j].status = "processing")
                   ~> ~(j \in listed /\ job[j].status = "processing")
=============================================================================
