-------------------------- MODULE LocalRunnerProofs --------------------------
(***************************************************************************)
(* Proofs about LocalRunner, for any threads, jobs, changes and restarts.   *)
(***************************************************************************)
EXTENDS LocalRunner, TLAPS

\* What a run read from the source is of its first snapshot, unless the source
\* changed since.
Since(v, c) == writes[c.job] = 0 => v = c.before

\* What a thread that is alone with its job knows between two of its steps.
AloneOK(c) ==
  /\ c.at # "decide" => c.job \notin swept
  /\ c.at = "decide" => job[c.job].status = "ready_for_review"
  /\ c.at \in {"create", "snapshot", "root", "copy", "copying", "records", "process", "resnap", "finish"}
       => job[c.job].status = "processing"
  /\ c.at \in {"verify", "wipe", "restart"} => job[c.job].status \in {"error", "quarantined"}
  /\ c.at \in {"create", "restart", "snapshot", "root"} => copy[c.job] = None \/ c.job \in stuck
  /\ c.at \in Snapped => Since(source, c) /\ (writes[c.job] = 1 => source # c.before)
  /\ c.at = "copying" => c.linked /\ Since(c.first, c)
  /\ c.at \in {"records", "process"} => Since(copy[c.job], c)
  /\ c.at = "resnap" => Since(c.got, c)
  /\ c.at = "finish" => (writes[c.job] <= 1 => c.got = c.before)

\* A job no two threads were ever at: what is under review was computed from the
\* content it names, unless the source changed twice.
JobOK(j) == Reviewable(j) /\ writes[j] <= 1 => job[j].result = job[j].digest

FreshOK == \A j \in Job \ used : job[j] = NewJob /\ copy[j] = None
OwnersOK == \A t \in Thread : OnJob(th[t]) => th[t].job \in used
Exclusive == \A j \in Job \ overlap : \A t, u \in Busy(j) : t = u
AloneInv == \A t \in Thread : OnJob(th[t]) /\ th[t].job \notin overlap => AloneOK(th[t])
JobsOK == \A j \in Job \ overlap : JobOK(j)

RunnerInv ==
  TypeOK /\ FreshOK /\ OwnersOK /\ Exclusive /\ AloneInv /\ JobsOK /\ TornDownIsGone

-----------------------------------------------------------------------------
(* Steps of one thread on its own job.                                      *)

LEMMA ContentFacts ==
  /\ 0 \in Content /\ Empty \in Content /\ Torn \in Held /\ None \in Held
  /\ \A v \in Content : v \in Held /\ v \in Content \cup {None}
  /\ \A v \in Content \cup {None} : v \in Held
  /\ \A v \in 0..MaxChanges : v \in Content
BY RunnerAssumption DEF Content, Held

LEMMA IdleTyped == Idle \in Local /\ ~OnJob(Idle) /\ Idle.at = "idle"
<1>1. (CHOOSE j \in Job : TRUE) \in Job
  BY RunnerAssumption
<1> QED
  BY <1>1 DEF Idle, Local, Where, Decision, OnJob, Held

LEMMA NewJobTyped == NewJob \in JobDict
BY DEF NewJob, JobDict, Status, Error, Decision, Held

\* A thread alone with its job shares it with nobody.
LEMMA Alone ==
  ASSUME RunnerInv, NEW t \in Thread, OnJob(th[t]), th[t].job \notin overlap,
         NEW u \in Thread, u # t
  PROVE  ~Sweeping(u) /\ ~(OnJob(th[u]) /\ th[u].job = th[t].job)
<1>1. th[t].job \in Job
  BY DEF RunnerInv, TypeOK, Local
<1>2. t \in Busy(th[t].job)
  BY DEF Busy, OnJob
<1>3. Sweeping(u) \/ (OnJob(th[u]) /\ th[u].job = th[t].job) => u \in Busy(th[t].job)
  BY DEF Busy, OnJob
<1> QED
  BY <1>1, <1>2, <1>3 DEF RunnerInv, Exclusive

\* What another job's thread knows does not depend on this one.
LEMMA StaysAlone ==
  ASSUME NEW c \in Local, AloneOK(c), job'[c.job] = job[c.job], copy'[c.job] = copy[c.job],
         writes'[c.job] = writes[c.job], UNCHANGED source,
         c.job \in swept' => c.job \in swept, c.job \in stuck => c.job \in stuck'
  PROVE  AloneOK(c)'
BY DEF AloneOK, Since

LEMMA ThreadStep ==
  ASSUME RunnerInv, TypeOK', NEW t \in Thread, OnJob(th[t]), NEW j, j = th[t].job,
         NEW c, th'[t] = c, OnJob(c) => c.job = j, c.at \notin {"sweep", "unlist"},
         \A u \in Thread \ {t} : /\ th'[u].at = th[u].at /\ th'[u].job = th[u].job
                                 /\ th[u].job # j => th'[u] = th[u],
         \A k \in Job \ {j} : job'[k] = job[k] /\ copy'[k] = copy[k] /\ writes'[k] = writes[k],
         UNCHANGED <<source, used, overlap, swept>>, stuck \ {j} \subseteq stuck',
         root' \subseteq root \cup {j},
         j \notin overlap => /\ OnJob(c) => AloneOK(c)'
                             /\ JobOK(j)'
                             /\ j \in swept => UNCHANGED <<Files, stuck>>
  PROVE  RunnerInv'
<1>1. UNCHANGED <<source, used, overlap, swept>> /\ j \in used /\ used \subseteq Job
  BY DEF RunnerInv, OwnersOK, TypeOK
<1>2. FreshOK'
  BY <1>1 DEF RunnerInv, FreshOK
<1>3. OwnersOK'
  BY <1>1 DEF RunnerInv, OwnersOK, OnJob
<1>4. \A k \in Job : Busy(k)' \subseteq Busy(k)
  BY DEF Busy, Sweeping, OnJob
<1>5. Exclusive'
  BY <1>1, <1>4 DEF RunnerInv, Exclusive
<1>6. AloneInv'
  <2> SUFFICES ASSUME NEW u \in Thread, OnJob(th'[u]), th'[u].job \notin overlap
               PROVE  AloneOK(th[u])'
    BY <1>1 DEF AloneInv
  <2>1. CASE u = t
    <3>1. AloneOK(c)'
      BY <2>1
    <3> QED
      BY <2>1, <3>1 DEF AloneOK, Since
  <2>2. CASE u # t
    <3>1. OnJob(th[u]) /\ th[u].job \notin overlap /\ th[u].job # j
      BY <1>1, <2>2, Alone DEF OnJob
    <3>2. th'[u] = th[u] /\ th[u] \in Local /\ th[u].job \in Job
      BY <2>2, <3>1 DEF RunnerInv, TypeOK, Local
    <3>3. AloneOK(th[u])
      BY <3>1 DEF RunnerInv, AloneInv
    <3>4. PICK d \in Local : d = th[u]
      BY <3>2
    <3>5. AloneOK(d)'
      BY <1>1, <3>1, <3>2, <3>3, <3>4, StaysAlone
    <3> QED
      BY <3>2, <3>4, <3>5 DEF AloneOK, Since
  <2> QED
    BY <2>1, <2>2
<1>7. JobsOK'
  BY <1>1 DEF RunnerInv, JobsOK, JobOK, Reviewable
<1>8. TornDownIsGone'
  BY <1>1 DEF RunnerInv, TornDownIsGone, TypeOK, Files
<1> QED
  BY <1>2, <1>3, <1>5, <1>6, <1>7, <1>8 DEF RunnerInv

-----------------------------------------------------------------------------
(* The steps of a run.                                                      *)

\* A thread changes its own locals, its job's dict, copy and root, nothing else.
Touch(t, j, c, d, v) ==
  /\ OnJob(th[t]) /\ j = th[t].job
  /\ c \in Local /\ th' = [th EXCEPT ![t] = c] /\ c.at \notin {"sweep", "unlist"}
  /\ OnJob(c) => c.job = j
  /\ d \in JobDict /\ job' = [job EXCEPT ![j] = d]
  /\ v \in Held /\ copy' = [copy EXCEPT ![j] = v]
  /\ root' \subseteq root \cup {j} /\ listed' \subseteq listed \cup {j}
  /\ UNCHANGED <<Corpus, crashes, writes, History>>

\* The dict it leaves is in order.
DictOK(d, j) ==
  d.status \in {"ready_for_review", "approved"} /\ writes[j] <= 1 => d.result = d.digest

LEMMA RunStep ==
  ASSUME RunnerInv, NEW t \in Thread, NEW j, NEW c, NEW d, NEW v, Touch(t, j, c, d, v),
         j \notin overlap => /\ OnJob(c) => AloneOK(c)'
                             /\ DictOK(d, j)
                             /\ j \in swept => UNCHANGED Files
  PROVE  RunnerInv'
<1>1. j \in Job /\ j \in used /\ TypeOK
  BY DEF RunnerInv, OwnersOK, TypeOK, Local, Touch
<1>2. TypeOK'
  BY <1>1 DEF TypeOK, History, Corpus, Touch
<1>3. th'[t] = c /\ \A u \in Thread \ {t} : th'[u] = th[u]
  BY <1>1 DEF TypeOK, Touch
<1>4. \A k \in Job \ {j} : job'[k] = job[k] /\ copy'[k] = copy[k] /\ writes'[k] = writes[k]
  BY <1>1 DEF TypeOK, Touch
<1>5. j \notin overlap => JobOK(j)'
  <2>1. job'[j] = d
    BY <1>1 DEF TypeOK, Touch
  <2> QED
    BY <2>1 DEF JobOK, DictOK, Reviewable, Touch
<1>6. /\ OnJob(th[t]) /\ j = th[t].job /\ c.at \notin {"sweep", "unlist"} /\ (OnJob(c) => c.job = j)
      /\ root' \subseteq root \cup {j} /\ UNCHANGED <<source, used, overlap, swept, stuck, writes>>
  BY DEF Touch, History, Corpus
<1> QED
  BY <1>2, <1>3, <1>4, <1>5, <1>6, ThreadStep

LEMMA EndStep ==
  ASSUME RunnerInv, NEW t \in Thread, NEW j, NEW d, NEW v, Touch(t, j, Idle, d, v),
         j \notin overlap => DictOK(d, j) /\ (j \in swept => UNCHANGED Files)
  PROVE  RunnerInv'
<1>1. PICK c : c = Idle
  OBVIOUS
<1>2. Touch(t, j, c, d, v) /\ ~OnJob(c)
  BY <1>1, IdleTyped
<1> QED
  BY <1>2, RunStep

LEMMA FailStep ==
  ASSUME RunnerInv, NEW t \in Thread, OnJob(th[t]), th[t].at # "decide", NEW j, j = th[t].job,
         NEW code \in Error, Fail(t, code),
         NEW v \in Held, copy' = [copy EXCEPT ![j] = v],
         root' \subseteq root \cup {j}, UNCHANGED <<Corpus, listed, crashes, writes, History>>
  PROVE  RunnerInv'
<1>1. j \in Job /\ job[j] \in JobDict
  BY DEF RunnerInv, TypeOK, Local
<1>2. j \notin overlap => j \notin swept
  BY DEF RunnerInv, AloneInv, AloneOK
<1> DEFINE d == [job[j] EXCEPT !.status = "error", !.error = code]
<1>3. d \in JobDict /\ d.status = "error" /\ d.error = code
  BY <1>1 DEF JobDict, Status
<1>4. PICK e : e = d
  OBVIOUS
<1>5. job' = [job EXCEPT ![j] = e]
  BY <1>1, <1>4 DEF Fail, RunnerInv, TypeOK
<1>6. th' = [th EXCEPT ![t] = Idle]
  BY DEF Fail, Done
<1> HIDE DEF d
<1>7. Touch(t, j, Idle, e, v)
  BY <1>3, <1>4, <1>5, <1>6, IdleTyped DEF Touch
<1>8. j \notin overlap => DictOK(e, j)
  BY <1>3, <1>4 DEF DictOK
<1> QED
  BY <1>2, <1>7, <1>8, EndStep

\* Where a thread stands, and what it knows there.
LEMMA Standing ==
  ASSUME RunnerInv, NEW t \in Thread, OnJob(th[t]), NEW j, j = th[t].job
  PROVE  /\ th[t] \in Local /\ j \in Job /\ job[j] \in JobDict
         /\ copy[j] \in Held /\ source \in Content \cup {None}
         /\ copy = [copy EXCEPT ![j] = copy[j]] /\ job = [job EXCEPT ![j] = job[j]]
         /\ j \notin overlap => AloneOK(th[t]) /\ JobOK(j)
<1>1. th[t] \in Local /\ j \in Job /\ TypeOK
  BY DEF RunnerInv, TypeOK, Local
<1>2. job[j] \in JobDict /\ copy[j] \in Held /\ source \in Content \cup {None}
  BY <1>1 DEF TypeOK
<1>3. copy = [copy EXCEPT ![j] = copy[j]] /\ job = [job EXCEPT ![j] = job[j]]
  BY <1>1 DEF TypeOK
<1>4. j \notin overlap => AloneOK(th[t]) /\ JobOK(j)
  BY <1>1 DEF RunnerInv, AloneInv, JobsOK
<1> QED
  BY <1>1, <1>2, <1>3, <1>4

LEMMA Goes ==
  ASSUME RunnerInv, NEW t \in Thread, NEW w \in Where, Goto(t, w)
  PROVE  \E c \in Local : /\ th' = [th EXCEPT ![t] = c] /\ c.at = w /\ c.job = th[t].job
                          /\ c.before = th[t].before /\ c.linked = th[t].linked
                          /\ c.first = th[t].first /\ c.got = th[t].got /\ c.decision = th[t].decision
<1>1. th \in [Thread -> Local] /\ th[t] \in Local
  BY DEF RunnerInv, TypeOK
<1> DEFINE c == [th[t] EXCEPT !.at = w]
<1>2. c \in Local
  BY <1>1 DEF Local
<1>3. /\ c.at = w /\ c.job = th[t].job /\ c.before = th[t].before /\ c.linked = th[t].linked
      /\ c.first = th[t].first /\ c.got = th[t].got /\ c.decision = th[t].decision
  BY <1>1 DEF Local
<1>4. th' = [th EXCEPT ![t] = c]
  BY <1>1 DEF Goto
<1> QED
  BY <1>2, <1>3, <1>4

\* A run goes on and leaves the dict and the copy of its job alone.
LEMMA MoveStep ==
  ASSUME RunnerInv, NEW t \in Thread, OnJob(th[t]), th[t].at # "decide", NEW j, j = th[t].job,
         NEW c \in Local, th' = [th EXCEPT ![t] = c], c.job = j, c.at \notin {"sweep", "unlist"},
         root' \subseteq root \cup {j}, listed' \subseteq listed \cup {j},
         UNCHANGED <<Corpus, job, copy, crashes, writes, History>>,
         j \notin overlap => AloneOK(c)'
  PROVE  RunnerInv'
<1>1. PICK d \in JobDict : d = job[j]
  BY Standing
<1>2. PICK v \in Held : v = copy[j]
  BY Standing
<1>3. job' = [job EXCEPT ![j] = d] /\ copy' = [copy EXCEPT ![j] = v]
  BY <1>1, <1>2, Standing
<1>4. j \notin overlap => DictOK(d, j) /\ j \notin swept
  BY <1>1, Standing DEF JobOK, DictOK, Reviewable, AloneOK
<1>5. Touch(t, j, c, d, v)
  BY <1>3 DEF Touch
<1> QED
  BY <1>4, <1>5, RunStep

LEMMA CreateStep ==
  ASSUME RunnerInv, NEW t \in Thread, Create(t)
  PROVE  RunnerInv'
<1>1. PICK j : j = th[t].job
  OBVIOUS
<1>2. OnJob(th[t]) /\ th[t].at = "create"
  BY DEF Create, OnJob
<1>3. PICK c \in Local : th' = [th EXCEPT ![t] = c] /\ c.at = "snapshot" /\ c.job = j
  BY <1>1, Goes DEF Create, Where
<1>5. j \notin overlap => AloneOK(c)'
  BY <1>1, <1>2, <1>3, Standing DEF AloneOK, Snapped, Create, History, Corpus
<1>6. root' \subseteq root \cup {j} /\ listed' \subseteq listed \cup {j}
  BY <1>1 DEF Create, Fresh
<1> QED
  BY <1>1, <1>2, <1>3, <1>5, <1>6, MoveStep DEF Create

LEMMA SnapshotStep ==
  ASSUME RunnerInv, NEW t \in Thread, Snapshot(t)
  PROVE  RunnerInv'
<1>1. PICK j : j = th[t].job
  OBVIOUS
<1>2. OnJob(th[t]) /\ th[t].at = "snapshot"
  BY DEF Snapshot, OnJob
<1>3. CASE /\ th' = [th EXCEPT ![t].at = "root", ![t].before = source]
           /\ writes' = [writes EXCEPT ![j] = 0] /\ UNCHANGED job
  <2>1. th[t] \in Local /\ source \in Content \cup {None} /\ j \in Job /\ TypeOK
    BY <1>1, <1>2, Standing DEF RunnerInv
  <2>2. PICK c \in Local : /\ c = [th[t] EXCEPT !.at = "root", !.before = source]
                           /\ c.at = "root" /\ c.job = j /\ c.before = source
    <3>1. [th[t] EXCEPT !.at = "root", !.before = source] \in Local
      BY <2>1 DEF Local, Where
    <3> QED
      BY <1>1, <2>1, <3>1 DEF Local
  <2>3. th'[t] = c /\ th' \in [Thread -> Local] /\ \A u \in Thread \ {t} : th'[u] = th[u]
    BY <1>3, <2>1, <2>2 DEF TypeOK
  <2>4. /\ writes' \in [Job -> 0..2] /\ writes'[j] = 0
        /\ \A k \in Job \ {j} : writes'[k] = writes[k]
    BY <1>3, <2>1 DEF TypeOK
  <2>5. UNCHANGED <<Corpus, listed, job, Files, crashes, History>>
    BY <1>3 DEF Snapshot
  <2>6. TypeOK'
    BY <2>1, <2>3, <2>4, <2>5 DEF TypeOK, Corpus, Files, History
  <2>7. j \notin overlap => AloneOK(th[t]) /\ j \notin swept
    BY <1>1, <1>2, Standing DEF AloneOK
  <2>8. j \notin overlap => AloneOK(c)'
    BY <1>1, <1>2, <2>2, <2>4, <2>5, <2>7 DEF AloneOK, Since, Corpus, Files, History
  <2>9. j \notin overlap => JobOK(j)'
    BY <1>1, <1>2, <2>5, <2>7 DEF AloneOK, JobOK, Reviewable
  <2>10. /\ OnJob(c) => c.job = j
         /\ c.at \notin {"sweep", "unlist"}
         /\ UNCHANGED <<source, used, overlap, swept, stuck, root, copy, job>>
    BY <2>2, <2>5 DEF Corpus, Files, History
  <2> QED
    BY <1>1, <1>2, <2>3, <2>4, <2>6, <2>7, <2>8, <2>9, <2>10, ThreadStep
<1>4. CASE Fail(t, "STAGE") /\ UNCHANGED writes
  <2>1. copy' = [copy EXCEPT ![j] = copy[j]] /\ copy[j] \in Held
    BY <1>1, <1>2, Standing DEF Snapshot, Files
  <2> QED
    BY <1>1, <1>2, <1>4, <2>1, FailStep DEF Snapshot, Files, Error
<1> QED
  BY <1>1, <1>3, <1>4 DEF Snapshot

LEMMA MakeRootStep ==
  ASSUME RunnerInv, NEW t \in Thread, MakeRoot(t)
  PROVE  RunnerInv'
<1>1. PICK j : j = th[t].job
  OBVIOUS
<1>2. OnJob(th[t]) /\ th[t].at = "root" /\ root' = root \cup {j}
  BY <1>1 DEF MakeRoot, OnJob
<1>3. CASE copy[j] = None /\ Goto(t, "copy") /\ UNCHANGED job
  <2>1. PICK c \in Local : /\ th' = [th EXCEPT ![t] = c] /\ c.at = "copy" /\ c.job = j
                           /\ c.before = th[t].before
    BY <1>1, <1>3, Goes DEF Where
  <2>3. j \notin overlap => AloneOK(c)'
    BY <1>1, <1>2, <1>3, <2>1, Standing DEF AloneOK, Since, Snapped, MakeRoot, History, Corpus
  <2> QED
    BY <1>1, <1>2, <1>3, <2>1, <2>3, MoveStep DEF MakeRoot
<1>4. CASE copy[j] # None /\ Fail(t, "ANALYSIS_ROOT_NOT_EMPTY")
  <2>1. copy' = [copy EXCEPT ![j] = copy[j]] /\ copy[j] \in Held
    BY <1>1, <1>2, Standing DEF MakeRoot
  <2> QED
    BY <1>1, <1>2, <1>4, <2>1, FailStep DEF MakeRoot, Error
<1> QED
  BY <1>1, <1>3, <1>4 DEF MakeRoot

LEMMA CopyOpenStep ==
  ASSUME RunnerInv, NEW t \in Thread, CopyOpen(t)
  PROVE  RunnerInv'
<1>1. PICK j : j = th[t].job
  OBVIOUS
<1>2. OnJob(th[t]) /\ th[t].at = "copy"
  BY DEF CopyOpen, OnJob
<1>3. CASE /\ copy' = [copy EXCEPT ![j] = Torn] /\ UNCHANGED job
           /\ th' = [th EXCEPT ![t].at = "copying", ![t].linked = TRUE, ![t].first = source]
  <2>1. th[t] \in Local /\ j \in Job /\ source \in Content \cup {None} /\ copy \in [Job -> Held]
    BY <1>1, <1>2, Standing DEF RunnerInv, TypeOK
  <2>2. [th[t] EXCEPT !.at = "copying", !.linked = TRUE, !.first = source] \in Local
    BY <2>1, ContentFacts DEF Local, Where
  <2>3. PICK c \in Local : c = [th[t] EXCEPT !.at = "copying", !.linked = TRUE, !.first = source]
    BY <2>2
  <2>4. c.at = "copying" /\ c.linked = TRUE /\ c.first = source /\ c.job = j /\ c.before = th[t].before
    BY <1>1, <2>1, <2>3 DEF Local
  <2>5. th' = [th EXCEPT ![t] = c]
    BY <1>3, <2>3 DEF RunnerInv, TypeOK
  <2>6. j \notin overlap => /\ Since(source, th[t]) /\ (writes[j] = 1 => source # th[t].before)
                            /\ j \notin swept /\ job[j].status = "processing"
    BY <1>1, <1>2, Standing DEF AloneOK, Snapped
  <2>7. UNCHANGED <<source, writes, job, swept>>
    BY <1>3 DEF CopyOpen, Corpus, History
  <2>8. copy'[j] = Torn
    BY <1>3, <2>1
  <2>9. j \notin overlap => AloneOK(c)'
    BY <1>1, <2>4, <2>6, <2>7 DEF AloneOK, Since
  <2>10. PICK d \in JobDict : d = job[j]
    BY <1>1, <1>2, Standing
  <2>11. job' = [job EXCEPT ![j] = d]
    BY <1>1, <1>2, <1>3, <2>10, Standing
  <2>12. j \notin overlap => DictOK(d, j)
    BY <1>1, <1>2, <2>10, Standing DEF JobOK, DictOK, Reviewable
  <2>13. Touch(t, j, c, d, Torn)
    BY <1>1, <1>2, <1>3, <2>4, <2>5, <2>11, ContentFacts DEF CopyOpen, Touch
  <2> QED
    BY <2>6, <2>9, <2>12, <2>13, RunStep
<1>4. CASE Fail(t, "STAGE") /\ UNCHANGED copy
  <2>1. copy' = [copy EXCEPT ![j] = copy[j]] /\ copy[j] \in Held
    BY <1>1, <1>2, <1>4, Standing
  <2> QED
    BY <1>1, <1>2, <1>4, <2>1, FailStep DEF CopyOpen, Error
<1> QED
  BY <1>1, <1>3, <1>4 DEF CopyOpen

LEMMA CopyCloseStep ==
  ASSUME RunnerInv, NEW t \in Thread, CopyClose(t)
  PROVE  RunnerInv'
<1>1. PICK j : j = th[t].job
  OBVIOUS
<1>2. OnJob(th[t]) /\ th[t].at = "copying"
  BY DEF CopyClose, OnJob
<1>3. th[t] \in Local /\ j \in Job /\ source \in Content \cup {None} /\ copy \in [Job -> Held]
  BY <1>1, <1>2, Standing DEF RunnerInv, TypeOK
<1>4. PICK v \in Held : /\ copy' = [copy EXCEPT ![j] = v]
                        /\ th[t].linked => v \in {th[t].first, source}
  <2>1. th[t].first \in Held /\ source \in Held /\ copy[j] \in Held
    BY <1>3, ContentFacts DEF Local
  <2>2. copy = [copy EXCEPT ![j] = copy[j]]
    BY <1>3
  <2>3. PICK w \in {th[t].first, source} : copy' = IF th[t].linked THEN [copy EXCEPT ![j] = w] ELSE copy
    BY <1>1 DEF CopyClose
  <2> QED
    BY <2>1, <2>2, <2>3
<1>5. copy' = [copy EXCEPT ![j] = v]
  BY <1>4
<1>6. CASE copy[j] # None /\ Goto(t, "records") /\ UNCHANGED job
  <2>1. PICK c \in Local : /\ th' = [th EXCEPT ![t] = c] /\ c.at = "records" /\ c.job = j
                           /\ c.before = th[t].before
    BY <1>1, <1>6, Goes DEF Where
  <2>2. j \notin overlap => /\ th[t].linked /\ Since(th[t].first, th[t]) /\ Since(source, th[t])
                            /\ (writes[j] = 1 => source # th[t].before)
                            /\ j \notin swept /\ job[j].status = "processing"
    BY <1>1, <1>2, Standing DEF AloneOK, Snapped
  <2>3. copy'[j] = v
    BY <1>3, <1>5
  <2>4. UNCHANGED <<source, writes, job, swept>>
    BY <1>6 DEF CopyClose, Corpus, History
  <2>5. j \notin overlap => AloneOK(c)'
    BY <1>1, <1>4, <2>1, <2>2, <2>3, <2>4 DEF AloneOK, Since
  <2>6. PICK d \in JobDict : d = job[j]
    BY <1>1, <1>2, Standing
  <2>7. job' = [job EXCEPT ![j] = d]
    BY <1>1, <1>2, <1>6, <2>6, Standing
  <2>8. j \notin overlap => DictOK(d, j)
    BY <1>1, <1>2, <2>6, Standing DEF JobOK, DictOK, Reviewable
  <2>9. UNCHANGED <<Corpus, listed, root, crashes, writes, History>>
    BY DEF CopyClose
  <2>10. Touch(t, j, c, d, v)
    BY <1>1, <1>2, <1>5, <2>1, <2>7, <2>9 DEF Touch
  <2> QED
    BY <2>2, <2>5, <2>8, <2>10, RunStep
<1>7. CASE Fail(t, "STAGE")
  BY <1>1, <1>2, <1>5, <1>7, FailStep DEF CopyClose, Error
<1> QED
  BY <1>1, <1>6, <1>7 DEF CopyClose

LEMMA WriteRecordsStep ==
  ASSUME RunnerInv, NEW t \in Thread, WriteRecords(t)
  PROVE  RunnerInv'
<1>1. PICK j : j = th[t].job
  OBVIOUS
<1>2. OnJob(th[t]) /\ th[t].at = "records"
  BY DEF WriteRecords, OnJob
<1>3. CASE Goto(t, "process") /\ UNCHANGED job
  <2>1. PICK c \in Local : /\ th' = [th EXCEPT ![t] = c] /\ c.at = "process" /\ c.job = j
                           /\ c.before = th[t].before
    BY <1>1, <1>3, Goes DEF Where
  <2>2. j \notin overlap => AloneOK(c)'
    BY <1>1, <1>2, <1>3, <2>1, Standing DEF AloneOK, Since, Snapped, WriteRecords, History, Corpus, Files
  <2> QED
    BY <1>1, <1>2, <1>3, <2>1, <2>2, MoveStep DEF WriteRecords, Files
<1>4. CASE Fail(t, "STAGE")
  <2>1. copy' = [copy EXCEPT ![j] = copy[j]] /\ copy[j] \in Held
    BY <1>1, <1>2, Standing DEF WriteRecords, Files
  <2> QED
    BY <1>1, <1>2, <1>4, <2>1, FailStep DEF WriteRecords, Files, Error
<1> QED
  BY <1>3, <1>4 DEF WriteRecords

LEMMA ProcessStep ==
  ASSUME RunnerInv, NEW t \in Thread, Process(t)
  PROVE  RunnerInv'
<1>1. PICK j : j = th[t].job
  OBVIOUS
<1>2. OnJob(th[t]) /\ th[t].at = "process"
  BY DEF Process, OnJob
<1>3. CASE th' = [th EXCEPT ![t].at = "resnap", ![t].got = copy[j]] /\ UNCHANGED job
  <2>1. th[t] \in Local /\ copy[j] \in Held
    BY <1>1, <1>2, Standing
  <2>2. [th[t] EXCEPT !.at = "resnap", !.got = copy[j]] \in Local
    BY <2>1 DEF Local, Where
  <2>3. PICK c \in Local : c = [th[t] EXCEPT !.at = "resnap", !.got = copy[j]]
    BY <2>2
  <2>4. c.at = "resnap" /\ c.got = copy[j] /\ c.job = j /\ c.before = th[t].before
    BY <1>1, <2>1, <2>3 DEF Local
  <2>5. th' = [th EXCEPT ![t] = c]
    BY <1>3, <2>3 DEF RunnerInv, TypeOK
  <2>6. j \notin overlap => AloneOK(c)'
    BY <1>1, <1>2, <1>3, <2>4, Standing DEF AloneOK, Since, Snapped, Process, History, Corpus, Files
  <2> QED
    BY <1>1, <1>2, <1>3, <2>4, <2>5, <2>6, MoveStep DEF Process, Files
<1>4. CASE Fail(t, "PROCESS")
  <2>1. copy' = [copy EXCEPT ![j] = copy[j]] /\ copy[j] \in Held
    BY <1>1, <1>2, Standing DEF Process, Files
  <2> QED
    BY <1>1, <1>2, <1>4, <2>1, FailStep DEF Process, Files, Error
<1> QED
  BY <1>1, <1>3, <1>4 DEF Process

\* The second snapshot: the source is what it was at the first, so it did not
\* change exactly once, and if it never changed the copy is of it.
LEMMA ResnapStep ==
  ASSUME RunnerInv, NEW t \in Thread, Resnap(t)
  PROVE  RunnerInv'
<1>1. PICK j : j = th[t].job
  OBVIOUS
<1>2. OnJob(th[t]) /\ th[t].at = "resnap"
  BY DEF Resnap, OnJob
<1>3. CASE source = th[t].before /\ Goto(t, "finish") /\ UNCHANGED job
  <2>1. PICK c \in Local : /\ th' = [th EXCEPT ![t] = c] /\ c.at = "finish" /\ c.job = j
                           /\ c.before = th[t].before /\ c.got = th[t].got
    BY <1>1, <1>3, Goes DEF Where
  <2>2. j \notin overlap => /\ Since(th[t].got, th[t]) /\ (writes[j] = 1 => source # th[t].before)
                            /\ j \notin swept /\ job[j].status = "processing"
    BY <1>1, <1>2, Standing DEF AloneOK, Snapped
  <2>3. writes[j] \in 0..2
    BY <1>1, <1>2, Standing DEF RunnerInv, TypeOK
  <2>4. j \notin overlap => AloneOK(c)'
    BY <1>1, <1>3, <2>1, <2>2, <2>3 DEF AloneOK, Since, Snapped, Resnap, History, Corpus, Files
  <2> QED
    BY <1>1, <1>2, <1>3, <2>1, <2>4, MoveStep DEF Resnap, Files
<1>4. CASE Fail(t, "SOURCE_CHANGED")
  <2>1. copy' = [copy EXCEPT ![j] = copy[j]] /\ copy[j] \in Held
    BY <1>1, <1>2, Standing DEF Resnap, Files
  <2> QED
    BY <1>1, <1>2, <1>4, <2>1, FailStep DEF Resnap, Files, Error
<1> QED
  BY <1>3, <1>4 DEF Resnap

LEMMA FinishStep ==
  ASSUME RunnerInv, NEW t \in Thread, Finish(t)
  PROVE  RunnerInv'
<1>1. PICK j : j = th[t].job
  OBVIOUS
<1>2. OnJob(th[t]) /\ th[t].at = "finish"
  BY DEF Finish, OnJob
<1>3. PICK v \in Held : copy' = [copy EXCEPT ![j] = v]
  BY <1>1, <1>2, Standing DEF Finish, Files
<1>4. CASE /\ job' = [job EXCEPT ![j].status = "ready_for_review", ![j].result = th[t].got,
                                 ![j].digest = th[t].before]
           /\ Done(t)
  <2>1. th[t] \in Local /\ j \in Job /\ job[j] \in JobDict /\ job \in [Job -> JobDict]
    BY <1>1, <1>2, Standing DEF RunnerInv, TypeOK
  <2> DEFINE d == [job[j] EXCEPT !.status = "ready_for_review", !.result = th[t].got,
                                 !.digest = th[t].before]
  <2>2. d \in JobDict
    BY <2>1 DEF JobDict, Local, Status
  <2>3. d.result = th[t].got /\ d.digest = th[t].before /\ d.error = job[j].error
    BY <2>1 DEF JobDict
  <2>4. job' = [job EXCEPT ![j] = d]
    BY <1>4, <2>1
  <2>5. j \notin overlap => (writes[j] <= 1 => th[t].got = th[t].before) /\ j \notin swept
    BY <1>1, <1>2, Standing DEF AloneOK
  <2>6. th' = [th EXCEPT ![t] = Idle]
    BY <1>4 DEF Done
  <2> HIDE DEF d
  <2>7. root' \subseteq root \cup {j} /\ listed' \subseteq listed \cup {j}
       /\ UNCHANGED <<Corpus, crashes, writes, History>>
    BY DEF Finish, Files
  <2>8. PICK e : e = d
    OBVIOUS
  <2>9. j \notin overlap => DictOK(e, j) /\ (j \in swept => UNCHANGED Files)
    BY <2>3, <2>5, <2>8 DEF DictOK
  <2>10. Touch(t, j, Idle, e, v)
    BY <1>1, <1>2, <1>3, <2>2, <2>4, <2>6, <2>7, <2>8, IdleTyped DEF Touch
  <2> QED
    BY <2>9, <2>10, EndStep
<1>5. CASE Fail(t, "STAGE")
  BY <1>1, <1>2, <1>3, <1>5, FailStep DEF Finish, Files, Error
<1> QED
  BY <1>1, <1>4, <1>5 DEF Finish

LEMMA DecideStep ==
  ASSUME RunnerInv, NEW t \in Thread, Decide(t)
  PROVE  RunnerInv'
<1>1. PICK j : j = th[t].job
  OBVIOUS
<1>2. OnJob(th[t]) /\ th[t].at = "decide"
  BY DEF Decide, OnJob
<1>3. PICK v \in Held : copy' = [copy EXCEPT ![j] = v]
  BY <1>1, <1>2, Standing DEF Decide, Files
<1>4. th[t] \in Local /\ j \in Job /\ job[j] \in JobDict /\ job \in [Job -> JobDict]
  BY <1>1, <1>2, Standing DEF RunnerInv, TypeOK
<1> DEFINE d == [job[j] EXCEPT !.status = IF th[t].decision = "approve" THEN "approved" ELSE "quarantined",
                               !.review = th[t].decision]
<1>5. d \in JobDict
  BY <1>4 DEF JobDict, Local, Status
<1>6. d.result = job[j].result /\ d.digest = job[j].digest /\ d.error = job[j].error
  BY <1>4 DEF JobDict
<1>7. job' = [job EXCEPT ![j] = d]
  BY <1>1, <1>4 DEF Decide
<1>8. j \notin overlap => (writes[j] <= 1 => job[j].result = job[j].digest)
  BY <1>1, <1>2, Standing DEF AloneOK, JobOK, Reviewable
<1>9. th' = [th EXCEPT ![t] = Idle] /\ root' = root /\ copy' = copy
  BY DEF Decide, Done, Files
<1> HIDE DEF d
<1>10. root' \subseteq root \cup {j} /\ listed' \subseteq listed \cup {j}
     /\ UNCHANGED <<Corpus, crashes, writes, History>>
  BY DEF Decide, Files
<1>11. PICK e : e = d
  OBVIOUS
<1>12. j \notin overlap => DictOK(e, j) /\ (j \in swept => UNCHANGED Files)
  BY <1>6, <1>8, <1>9, <1>11 DEF DictOK, Files
<1>13. Touch(t, j, Idle, e, v)
  BY <1>1, <1>2, <1>3, <1>5, <1>7, <1>9, <1>10, <1>11, IdleTyped DEF Touch
<1> QED
  BY <1>12, <1>13, EndStep

LEMMA RetryVerifyStep ==
  ASSUME RunnerInv, NEW t \in Thread, RetryVerify(t)
  PROVE  RunnerInv'
<1>1. PICK j : j = th[t].job
  OBVIOUS
<1>2. OnJob(th[t]) /\ th[t].at = "verify"
  BY DEF RetryVerify, OnJob
<1>3. PICK v \in Held : copy' = [copy EXCEPT ![j] = v]
  BY <1>1, <1>2, Standing DEF RetryVerify, Files
<1>4. th[t] \in Local /\ j \in Job /\ job[j] \in JobDict /\ job \in [Job -> JobDict]
  BY <1>1, <1>2, Standing DEF RunnerInv, TypeOK
<1> DEFINE d == [job[j] EXCEPT !.attempt = @ + 1]
<1>5. d \in JobDict
  BY <1>4 DEF JobDict
<1>6. /\ d.result = job[j].result /\ d.digest = job[j].digest /\ d.error = job[j].error
      /\ d.status = job[j].status
  BY <1>4 DEF JobDict
<1>7. job' = [job EXCEPT ![j] = d]
  BY <1>1, <1>4 DEF RetryVerify
<1>8. j \notin overlap => JobOK(j) /\ AloneOK(th[t]) /\ j \notin swept
  BY <1>1, <1>2, Standing DEF AloneOK
<1>9. job'[j] = d
  BY <1>4, <1>7
<1>10. UNCHANGED <<Corpus, listed, Files, crashes, writes, History>>
  BY DEF RetryVerify
<1> HIDE DEF d
<1>13. root' \subseteq root \cup {j} /\ listed' \subseteq listed \cup {j}
     /\ UNCHANGED <<Corpus, crashes, writes, History>>
  BY <1>10 DEF Files
<1>15. PICK e : e = d
  OBVIOUS
<1>14. j \notin overlap => DictOK(e, j) /\ (j \in swept => UNCHANGED Files)
  BY <1>6, <1>8, <1>15 DEF JobOK, DictOK, Reviewable
<1>11. CASE Goto(t, "wipe")
  <2>1. PICK c \in Local : th' = [th EXCEPT ![t] = c] /\ c.at = "wipe" /\ c.job = j
    BY <1>1, <1>11, Goes DEF Where
  <2>2. j \notin overlap => AloneOK(c)'
    BY <1>1, <1>2, <1>6, <1>8, <1>9, <1>10, <2>1 DEF AloneOK, Snapped, History, Corpus, Files
  <2> QED
    <3>1. Touch(t, j, c, e, v)
      BY <1>1, <1>2, <1>3, <1>5, <1>7, <1>13, <1>15, <2>1 DEF Touch, OnJob
    <3> QED
      BY <1>14, <2>2, <3>1, RunStep
<1>12. CASE Done(t)
  <2>1. th' = [th EXCEPT ![t] = Idle]
    BY <1>12 DEF Done
  <2> QED
    <3>1. Touch(t, j, Idle, e, v)
      BY <1>1, <1>2, <1>3, <1>5, <1>7, <1>13, <1>15, <2>1, IdleTyped DEF Touch
    <3> QED
      BY <1>14, <3>1, EndStep
<1> QED
  BY <1>11, <1>12 DEF RetryVerify

LEMMA RestartStep ==
  ASSUME RunnerInv, NEW t \in Thread, Restart(t)
  PROVE  RunnerInv'
<1>1. PICK j : j = th[t].job
  OBVIOUS
<1>2. OnJob(th[t]) /\ th[t].at = "restart"
  BY DEF Restart, OnJob
<1>3. PICK v \in Held : copy' = [copy EXCEPT ![j] = v]
  BY <1>1, <1>2, Standing DEF Restart, Files
<1>4. th[t] \in Local /\ j \in Job /\ job[j] \in JobDict /\ job \in [Job -> JobDict]
  BY <1>1, <1>2, Standing DEF RunnerInv, TypeOK
<1> DEFINE d == [NewJob EXCEPT !.attempt = job[j].attempt]
<1>5. d \in JobDict
  BY <1>4, NewJobTyped DEF JobDict
<1>6. d.status = "processing" /\ d.error = "none"
  BY DEF NewJob
<1>7. job' = [job EXCEPT ![j] = d] /\ job'[j] = d
  BY <1>1, <1>4 DEF Restart
<1> HIDE DEF d
<1>8. PICK c \in Local : th' = [th EXCEPT ![t] = c] /\ c.at = "snapshot" /\ c.job = j
  BY <1>1, Goes DEF Restart, Where
<1>9. UNCHANGED <<Corpus, listed, Files, crashes, writes, History>>
  BY DEF Restart
<1>10. j \notin overlap => j \notin swept /\ (copy[j] = None \/ j \in stuck)
  BY <1>1, <1>2, Standing DEF AloneOK
<1>11. j \notin overlap => AloneOK(c)'
  BY <1>6, <1>7, <1>8, <1>9, <1>10 DEF AloneOK, Snapped, History, Corpus, Files
<1>12. root' \subseteq root \cup {j} /\ listed' \subseteq listed \cup {j}
     /\ UNCHANGED <<Corpus, crashes, writes, History>>
  BY <1>9 DEF Files
<1>13. PICK e : e = d
  OBVIOUS
<1>14. j \notin overlap => DictOK(e, j) /\ (j \in swept => UNCHANGED Files)
  BY <1>6, <1>10, <1>13 DEF DictOK
<1>15. Touch(t, j, c, e, v)
  BY <1>1, <1>2, <1>3, <1>5, <1>7, <1>8, <1>12, <1>13 DEF Touch, OnJob
<1> QED
  BY <1>11, <1>14, <1>15, RunStep

\* rmtree: the other threads stay where they are; those at none of the jobs keep
\* their file.  A copy that stays is of a job rmtree is stuck at.
LEMMA Removed ==
  ASSUME RunnerInv, NEW t \in Thread, NEW js \in SUBSET Job, NEW new \in SUBSET Job, NEW w \in Where,
         Remove(t, js, new, w)
  PROVE  /\ th' \in [Thread -> Local]
         /\ th'[t] = [th[t] EXCEPT !.at = w]
         /\ \A u \in Thread \ {t} : /\ th'[u].at = th[u].at /\ th'[u].job = th[u].job
                                    /\ th[u].job \notin js => th'[u] = th[u]
         /\ copy' \in [Job -> Held]
         /\ \A j \in Job \ js : copy'[j] = copy[j] /\ (j \in stuck <=> j \in stuck')
         /\ \A j \in js : (copy'[j] = None /\ (j \in root' => j \in new)) \/ j \in stuck'
         /\ root' \subseteq root \cup new /\ stuck' \subseteq Job
         /\ \A j \in Job : copy[j] = None => copy'[j] = None
<1>1. th \in [Thread -> Local] /\ copy \in [Job -> Held] /\ stuck \subseteq Job /\ None \in Held
  BY ContentFacts DEF RunnerInv, TypeOK
<1>2. PICK kept \in SUBSET (js \cap root), left \in SUBSET js :
        /\ left \subseteq kept
        /\ root' = (root \ (js \ kept)) \cup new
        /\ copy' = [j \in Job |-> IF j \in js \ left THEN None ELSE copy[j]]
        /\ th' = [u \in Thread |-> IF u = t THEN [th[u] EXCEPT !.at = w]
                                   ELSE [th[u] EXCEPT !.linked = @ /\ th[u].job \notin js \ left]]
        /\ stuck' = (stuck \ js) \cup kept
  BY DEF Remove
<1>3. /\ copy' \in [Job -> Held]
      /\ \A j \in Job : copy'[j] = IF j \in js \ left THEN None ELSE copy[j]
  BY <1>1, <1>2
<1>4. /\ \A j \in Job \ js : copy'[j] = copy[j] /\ (j \in stuck <=> j \in stuck')
      /\ \A j \in js : (copy'[j] = None /\ (j \in root' => j \in new)) \/ j \in stuck'
      /\ root' \subseteq root \cup new /\ stuck' \subseteq Job
      /\ \A j \in Job : copy[j] = None => copy'[j] = None
  BY <1>1, <1>2, <1>3
<1>5. th'[t] = [th[t] EXCEPT !.at = w] /\ th'[t] \in Local
  BY <1>1, <1>2 DEF Local
<1>6. ASSUME NEW u \in Thread \ {t}
      PROVE  /\ th'[u] \in Local /\ th'[u].at = th[u].at /\ th'[u].job = th[u].job
             /\ th[u].job \notin js => th'[u] = th[u]
  <2>1. th'[u] = [th[u] EXCEPT !.linked = th[u].linked /\ th[u].job \notin js \ left] /\ th[u] \in Local
    BY <1>1, <1>2
  <2>2. th'[u] \in Local /\ th'[u].at = th[u].at /\ th'[u].job = th[u].job
    BY <2>1 DEF Local
  <2>3. ASSUME th[u].job \notin js PROVE th'[u] = th[u]
    <3>1. th[u].linked = (th[u].linked /\ th[u].job \notin js \ left)
      BY <2>1, <2>3 DEF Local
    <3> QED
      BY <2>1, <3>1 DEF Local
  <2> QED
    BY <2>2, <2>3
<1>7. th' \in [Thread -> Local]
  <2>1. \A u \in Thread : th'[u] \in Local
    BY <1>5, <1>6
  <2> QED
    BY <1>2, <2>1
<1> QED
  BY <1>3, <1>4, <1>5, <1>6, <1>7

LEMMA WipeStep ==
  ASSUME RunnerInv, NEW t \in Thread, Wipe(t)
  PROVE  RunnerInv'
<1>1. PICK j : j = th[t].job
  OBVIOUS
<1>2. OnJob(th[t]) /\ th[t].at = "wipe" /\ j \in Job /\ j \in used
  BY <1>1 DEF Wipe, OnJob, RunnerInv, TypeOK, Local, OwnersOK
<1>3. PICK js \in SUBSET Job, new \in SUBSET Job : js = {j} /\ new = Fresh(j)
  BY <1>2 DEF Fresh
<1>4. Remove(t, js, new, "restart") /\ "restart" \in Where
  BY <1>1, <1>3 DEF Wipe, Where
<1>5. /\ th' \in [Thread -> Local]
      /\ th'[t] = [th[t] EXCEPT !.at = "restart"]
      /\ \A u \in Thread \ {t} : /\ th'[u].at = th[u].at /\ th'[u].job = th[u].job
                                 /\ th[u].job # j => th'[u] = th[u]
      /\ copy' \in [Job -> Held]
      /\ copy'[j] = None \/ j \in stuck'
      /\ \A k \in Job \ {j} : copy'[k] = copy[k] /\ (k \in stuck <=> k \in stuck')
      /\ root' \subseteq root \cup {j} /\ stuck' \subseteq Job
  <2>1. /\ th' \in [Thread -> Local]
        /\ th'[t] = [th[t] EXCEPT !.at = "restart"]
        /\ \A u \in Thread \ {t} : /\ th'[u].at = th[u].at /\ th'[u].job = th[u].job
                                   /\ th[u].job \notin js => th'[u] = th[u]
        /\ copy' \in [Job -> Held]
        /\ \A k \in Job \ js : copy'[k] = copy[k] /\ (k \in stuck <=> k \in stuck')
        /\ \A k \in js : (copy'[k] = None /\ (k \in root' => k \in new)) \/ k \in stuck'
        /\ root' \subseteq root \cup new /\ stuck' \subseteq Job
        /\ \A k \in Job : copy[k] = None => copy'[k] = None
    BY <1>4, Removed
  <2> QED
    BY <1>2, <1>3, <2>1 DEF Fresh
<1>6. UNCHANGED <<Corpus, listed, job, crashes, writes, used, overlap, swept>>
  BY DEF Wipe
<1>7. TypeOK'
  BY <1>2, <1>5, <1>6 DEF RunnerInv, TypeOK, Corpus
<1>8. PICK c \in Local : th'[t] = c /\ c.at = "restart" /\ c.job = j
  BY <1>1, <1>5 DEF RunnerInv, TypeOK, Local
<1>9. j \notin overlap => JobOK(j) /\ AloneOK(th[t]) /\ j \notin swept
  BY <1>1, <1>2, Standing DEF AloneOK
<1>10. j \notin overlap => AloneOK(c)' /\ JobOK(j)'
  BY <1>1, <1>2, <1>5, <1>6, <1>8, <1>9 DEF AloneOK, Snapped, JobOK, Reviewable
<1>11. /\ UNCHANGED <<source, used, overlap, swept>> /\ stuck \ {j} \subseteq stuck'
       /\ \A k \in Job \ {j} : job'[k] = job[k] /\ copy'[k] = copy[k] /\ writes'[k] = writes[k]
       /\ c.at \notin {"sweep", "unlist"}
  BY <1>5, <1>6, <1>8 DEF Corpus, RunnerInv, TypeOK
<1> QED
  BY <1>1, <1>2, <1>5, <1>7, <1>8, <1>9, <1>10, <1>11, ThreadStep


-----------------------------------------------------------------------------
(* Requests, teardown and the surroundings.                                 *)

\* An idle thread starts on job j.
Enter(t, j, c) ==
  /\ th[t].at = "idle" /\ j \in Job
  /\ c \in Local /\ c.job = j /\ OnJob(c) /\ th' = [th EXCEPT ![t] = c]
  /\ overlap' = IF Busy(j) = {} THEN overlap ELSE overlap \cup {j}
  /\ swept' \subseteq swept
  /\ used' = used \cup {j}
  /\ UNCHANGED <<Corpus, listed, job, Files, crashes, writes, stuck>>

LEMMA EnterStep ==
  ASSUME RunnerInv, NEW t \in Thread, NEW j, NEW c, Enter(t, j, c), j \notin overlap' => AloneOK(c)'
  PROVE  RunnerInv'
<1>1. TypeOK /\ TypeOK'
  BY DEF RunnerInv, TypeOK, Enter, Files, Corpus
<1>2. th'[t] = c /\ c.job = j /\ OnJob(c) /\ \A u \in Thread \ {t} : th'[u] = th[u]
  BY <1>1 DEF TypeOK, Enter
<1>3. FreshOK'
  BY <1>1 DEF RunnerInv, FreshOK, Enter, Files
<1>4. OwnersOK'
  BY <1>2 DEF RunnerInv, OwnersOK, Enter
<1>5. \A k \in Job : Busy(k)' \subseteq (IF k = j THEN Busy(k) \cup {t} ELSE Busy(k))
  BY <1>2 DEF Busy, Sweeping, OnJob
<1>6. \A k : k \notin overlap' => k \notin overlap /\ (k = j => Busy(j) = {})
  BY DEF Enter
<1>7. Exclusive'
  BY <1>5, <1>6 DEF RunnerInv, Exclusive
<1>8. AloneInv'
  <2> SUFFICES ASSUME NEW u \in Thread, OnJob(th'[u]), th'[u].job \notin overlap'
               PROVE  AloneOK(th[u])'
    BY DEF AloneInv
  <2>1. CASE u = t
    <3>1. AloneOK(c)'
      BY <1>2, <2>1
    <3> QED
      BY <1>2, <2>1, <3>1 DEF AloneOK, Since
  <2>2. CASE u # t
    <3>1. th'[u] = th[u] /\ th[u] \in Local /\ th[u].job \in Job
      BY <1>1, <1>2, <2>2 DEF TypeOK, Local
    <3>2. AloneOK(th[u])
      BY <1>6, <3>1 DEF RunnerInv, AloneInv
    <3>3. PICK d \in Local : d = th[u]
      BY <3>1
    <3>4. AloneOK(d)'
      <4>1. UNCHANGED <<source, job, copy, writes, stuck>> /\ swept' \subseteq swept
        BY DEF Enter, Files, Corpus
      <4> QED
        BY <3>2, <3>3, <4>1, StaysAlone
    <3> QED
      BY <3>1, <3>3, <3>4 DEF AloneOK, Since
  <2> QED
    BY <2>1, <2>2
<1>9. JobsOK'
  BY <1>6 DEF RunnerInv, JobsOK, JobOK, Reviewable, Enter
<1>10. TornDownIsGone'
  BY <1>6 DEF RunnerInv, TornDownIsGone, Enter, Files
<1> QED
  BY <1>1, <1>3, <1>4, <1>7, <1>8, <1>9, <1>10 DEF RunnerInv

\* The locals of a thread that has just started.
LEMMA Started ==
  ASSUME NEW w \in Where, NEW j \in Job
  PROVE  \E c \in Local : c = [Idle EXCEPT !.at = w, !.job = j] /\ c.at = w /\ c.job = j
<1>1. [Idle EXCEPT !.at = w, !.job = j] \in Local
  BY IdleTyped DEF Local
<1> QED
  BY <1>1, IdleTyped DEF Local

LEMMA StartedReview ==
  ASSUME NEW j \in Job, NEW d \in Decision
  PROVE  \E c \in Local : /\ c = [Idle EXCEPT !.at = "decide", !.job = j, !.decision = d]
                          /\ c.at = "decide" /\ c.job = j
<1>1. [Idle EXCEPT !.at = "decide", !.job = j, !.decision = d] \in Local
  BY IdleTyped DEF Local, Where
<1> QED
  BY <1>1, IdleTyped DEF Local

LEMMA SubmitStep ==
  ASSUME RunnerInv, NEW t \in Thread, NEW j \in Job, Submit(t, j)
  PROVE  RunnerInv'
<1>1. "create" \in Where
  BY DEF Where
<1>2. PICK c \in Local : c = [Idle EXCEPT !.at = "create", !.job = j] /\ c.at = "create" /\ c.job = j
  BY <1>1, Started
<1>3. Enter(t, j, c)
  BY <1>2 DEF Enter, Submit, Begin, OnJob
<1>4. job[j] = NewJob /\ copy[j] = None /\ j \notin swept'
  BY DEF Submit, Begin, RunnerInv, FreshOK
<1>5. AloneOK(c)'
  BY <1>2, <1>3, <1>4 DEF AloneOK, Snapped, Enter, Files, NewJob
<1> QED
  BY <1>3, <1>5, EnterStep

LEMMA RetryStep ==
  ASSUME RunnerInv, NEW t \in Thread, NEW j \in Job, Retry(t, j)
  PROVE  RunnerInv'
<1>1. "verify" \in Where
  BY DEF Where
<1>2. PICK c \in Local : c = [Idle EXCEPT !.at = "verify", !.job = j] /\ c.at = "verify" /\ c.job = j
  BY <1>1, Started
<1>3. used = used \cup {j}
  BY DEF Retry, RunnerInv, TypeOK
<1>4. Enter(t, j, c)
  BY <1>2, <1>3 DEF Enter, Retry, Begin, OnJob
<1>5. AloneOK(c)'
  BY <1>2, <1>4 DEF AloneOK, Snapped, Enter, Retry, Begin
<1> QED
  BY <1>4, <1>5, EnterStep

LEMMA ReviewStep ==
  ASSUME RunnerInv, NEW t \in Thread, NEW j \in Job, NEW d \in {"approve", "quarantine"}, Review(t, j, d)
  PROVE  RunnerInv'
<1>1. d \in Decision
  BY DEF Decision
<1>2. PICK c \in Local : /\ c = [Idle EXCEPT !.at = "decide", !.job = j, !.decision = d]
                         /\ c.at = "decide" /\ c.job = j
  BY <1>1, StartedReview
<1>3. used = used \cup {j}
  BY DEF Review, RunnerInv, TypeOK
<1>4. Enter(t, j, c)
  BY <1>2, <1>3 DEF Enter, Review, OnJob
<1>5. AloneOK(c)'
  BY <1>2 DEF AloneOK, Snapped, Review
<1> QED
  BY <1>4, <1>5, EnterStep

\* While a thread tears down, every other thread's job is one they overlap on.
LEMMA TeardownAlone ==
  ASSUME RunnerInv, NEW t \in Thread, Sweeping(t), NEW u \in Thread, OnJob(th[u])
  PROVE  th[u].job \in overlap
<1>1. th[u].job \in Job /\ u # t
  BY DEF RunnerInv, TypeOK, Local, OnJob, Sweeping
<1>2. t \in Busy(th[u].job) /\ u \in Busy(th[u].job)
  BY DEF Busy, OnJob
<1> QED
  BY <1>1, <1>2 DEF RunnerInv, Exclusive

LEMMA TeardownStep ==
  ASSUME RunnerInv, NEW t \in Thread, Teardown(t)
  PROVE  RunnerInv'
<1>1. TypeOK /\ listed \subseteq Job
  BY DEF RunnerInv, TypeOK
<1>2. PICK c \in Local : c = [Idle EXCEPT !.at = "sweep", !.jobs = listed] /\ c.at = "sweep"
  <2>1. [Idle EXCEPT !.at = "sweep", !.jobs = listed] \in Local
    BY <1>1, IdleTyped DEF Local, Where
  <2> QED
    BY <2>1, IdleTyped DEF Local
<1>3. th' = [th EXCEPT ![t] = c]
  BY <1>2 DEF Teardown
<1>4. TypeOK'
  BY <1>1, <1>3 DEF TypeOK, Teardown, Files, Corpus
<1>5. th'[t] = c /\ ~OnJob(c) /\ \A u \in Thread \ {t} : th'[u] = th[u]
  BY <1>1, <1>2, <1>3 DEF TypeOK, OnJob
<1>6. \A k \in Job : k \notin overlap' => Busy(k) = {} /\ k \notin overlap
  BY DEF Teardown
<1>7. \A k \in Job : Busy(k)' \subseteq Busy(k) \cup {t}
  BY <1>5 DEF Busy, Sweeping, OnJob
<1>8. FreshOK' /\ OwnersOK'
  BY <1>5 DEF RunnerInv, FreshOK, OwnersOK, Teardown, Files
<1>9. Exclusive'
  BY <1>6, <1>7 DEF Exclusive
<1>10. AloneInv'
  <2>1. ASSUME NEW u \in Thread, OnJob(th'[u]) PROVE th'[u].job \in overlap'
    <3>1. u # t /\ th'[u] = th[u] /\ th[u].job \in Job
      BY <1>1, <1>5, <2>1 DEF TypeOK, Local
    <3>2. u \in Busy(th[u].job)
      BY <2>1, <3>1 DEF Busy, OnJob
    <3> QED
      BY <1>6, <3>1, <3>2
  <2> QED
    BY <2>1 DEF AloneInv
<1>11. JobsOK' /\ TornDownIsGone'
  BY <1>1, <1>6 DEF RunnerInv, JobsOK, JobOK, Reviewable, TornDownIsGone, TypeOK, Teardown, Files
<1> QED
  BY <1>4, <1>8, <1>9, <1>10, <1>11 DEF RunnerInv

LEMMA SweepStep ==
  ASSUME RunnerInv, NEW t \in Thread, Sweep(t)
  PROVE  RunnerInv'
<1>1. Sweeping(t) /\ TypeOK /\ used \subseteq Job
  BY DEF Sweep, Sweeping, RunnerInv, TypeOK
<1>2. PICK js \in SUBSET Job, new \in SUBSET Job : js = used /\ new = {}
  BY <1>1
<1>3. Remove(t, js, new, "unlist") /\ "unlist" \in Where
  BY <1>2 DEF Sweep, Where
<1>4. /\ th' \in [Thread -> Local]
      /\ th'[t] = [th[t] EXCEPT !.at = "unlist"]
      /\ \A u \in Thread \ {t} : th'[u].at = th[u].at /\ th'[u].job = th[u].job
      /\ copy' \in [Job -> Held]
      /\ \A k \in js : (copy'[k] = None /\ k \notin root') \/ k \in stuck'
      /\ root' \subseteq root /\ stuck' \subseteq Job
      /\ \A k \in Job : copy[k] = None => copy'[k] = None
  <2>1. /\ th' \in [Thread -> Local]
        /\ th'[t] = [th[t] EXCEPT !.at = "unlist"]
        /\ \A u \in Thread \ {t} : /\ th'[u].at = th[u].at /\ th'[u].job = th[u].job
                                   /\ th[u].job \notin js => th'[u] = th[u]
        /\ copy' \in [Job -> Held]
        /\ \A k \in Job \ js : copy'[k] = copy[k] /\ (k \in stuck <=> k \in stuck')
        /\ \A k \in js : (copy'[k] = None /\ (k \in root' => k \in new)) \/ k \in stuck'
        /\ root' \subseteq root \cup new /\ stuck' \subseteq Job
        /\ \A k \in Job : copy[k] = None => copy'[k] = None
    BY <1>3, Removed
  <2> QED
    BY <1>2, <2>1
<1>5. th'[t].at = "unlist"
  BY <1>1, <1>4 DEF TypeOK, Local
<1>6. TypeOK'
  BY <1>1, <1>4 DEF TypeOK, Sweep, Corpus
<1>7. FreshOK'
  BY <1>2, <1>4 DEF RunnerInv, FreshOK, Sweep
<1>8. OwnersOK'
  BY <1>4, <1>5 DEF RunnerInv, OwnersOK, OnJob, Sweep
<1>9. \A k \in Job : Busy(k)' \subseteq Busy(k)
  BY <1>1, <1>4, <1>5 DEF Busy, Sweeping, OnJob
<1>10. Exclusive'
  BY <1>9 DEF RunnerInv, Exclusive, Sweep
<1>11. AloneInv'
  <2>1. ASSUME NEW u \in Thread, OnJob(th'[u]) PROVE th'[u].job \in overlap'
    <3>1. u # t /\ OnJob(th[u]) /\ th'[u].job = th[u].job
      BY <1>4, <1>5, <2>1 DEF OnJob
    <3> QED
      BY <1>1, <3>1, TeardownAlone DEF Sweep
  <2> QED
    BY <2>1 DEF AloneInv
<1>12. JobsOK'
  BY DEF RunnerInv, JobsOK, JobOK, Reviewable, Sweep
<1>13. TornDownIsGone'
  BY <1>1, <1>2, <1>4 DEF TornDownIsGone, Sweep
<1> QED
  BY <1>6, <1>7, <1>8, <1>10, <1>11, <1>12, <1>13 DEF RunnerInv

LEMMA UnlistStep ==
  ASSUME RunnerInv, NEW t \in Thread, Unlist(t)
  PROVE  RunnerInv'
<1>1. Sweeping(t) /\ TypeOK
  BY DEF Unlist, Sweeping, RunnerInv, TypeOK
<1>2. TypeOK'
  BY <1>1, IdleTyped DEF TypeOK, Unlist, Done, Files, History, Corpus
<1>3. th'[t] = Idle /\ \A u \in Thread \ {t} : th'[u] = th[u]
  BY <1>1 DEF TypeOK, Unlist, Done
<1>4. FreshOK' /\ OwnersOK'
  BY <1>3, IdleTyped DEF RunnerInv, FreshOK, OwnersOK, Unlist, Files, History, Corpus
<1>5. \A k \in Job : Busy(k)' \subseteq Busy(k)
  BY <1>3, IdleTyped DEF Busy, Sweeping
<1>6. Exclusive'
  BY <1>5 DEF RunnerInv, Exclusive, Unlist, History, Corpus
<1>7. AloneInv'
  <2>1. ASSUME NEW u \in Thread, OnJob(th'[u]) PROVE th'[u].job \in overlap'
    <3>1. u # t /\ OnJob(th[u]) /\ th'[u] = th[u]
      BY <1>3, <2>1, IdleTyped
    <3> QED
      BY <1>1, <3>1, TeardownAlone DEF Unlist, History, Corpus
  <2> QED
    BY <2>1 DEF AloneInv
<1>8. JobsOK' /\ TornDownIsGone'
  BY DEF RunnerInv, JobsOK, JobOK, Reviewable, TornDownIsGone, Unlist, Files, History, Corpus
<1> QED
  BY <1>2, <1>4, <1>6, <1>7, <1>8 DEF RunnerInv

\* The source is written, by anyone, and every run goes on where it is.
LEMMA WriteStep ==
  ASSUME RunnerInv, TypeOK', NEW v \in Content, Write(v),
         \A u \in Thread : /\ OnJob(th[u]) \/ OnJob(th'[u]) => th'[u] = MixedIn(v)[u]
                           /\ Sweeping(u)' => Sweeping(u),
         UNCHANGED <<job, Files, History>>
  PROVE  RunnerInv'
<1>1. UNCHANGED <<job, root, copy, used, overlap, swept, stuck>> /\ TypeOK
  BY DEF Files, History, RunnerInv
<1>2. \A j \in Job : /\ writes[j] \in 0..2 /\ writes'[j] \in {writes[j], writes[j] + 1}
                     /\ v = source => writes'[j] = writes[j]
  BY <1>1 DEF TypeOK, Write
<1>3. ASSUME NEW u \in Thread, OnJob(th[u]) \/ OnJob(th'[u])
      PROVE  /\ th[u] \in Local /\ th'[u] \in Local /\ th'[u].at = th[u].at /\ th'[u].job = th[u].job
             /\ th'[u].before = th[u].before /\ th'[u].linked = th[u].linked /\ th'[u].got = th[u].got
             /\ v = source => th'[u].first = th[u].first
             /\ OnJob(th[u]) /\ OnJob(th'[u])
  <2>1. th[u] \in Local /\ th'[u] \in Local
    BY <1>1 DEF TypeOK
  <2>2. th'[u] = IF v # source /\ th[u].at = "copying" THEN [th[u] EXCEPT !.first = Torn] ELSE th[u]
    BY <1>3 DEF MixedIn
  <2>3. /\ th'[u].at = th[u].at /\ th'[u].job = th[u].job
        /\ th'[u].before = th[u].before /\ th'[u].linked = th[u].linked /\ th'[u].got = th[u].got
        /\ v = source => th'[u].first = th[u].first
    BY <2>1, <2>2 DEF Local
  <2>4. OnJob(th[u]) <=> OnJob(th'[u])
    BY <2>3 DEF OnJob
  <2> QED
    BY <1>3, <2>1, <2>3, <2>4
<1>4. FreshOK' /\ OwnersOK' /\ TornDownIsGone'
  BY <1>1, <1>3 DEF RunnerInv, FreshOK, OwnersOK, TornDownIsGone
<1>5. Exclusive'
  <2>1. \A j \in Job : Busy(j)' \subseteq Busy(j)
    BY <1>3 DEF Busy
  <2> QED
    BY <1>1, <2>1 DEF RunnerInv, Exclusive
<1>6. JobsOK'
  <2> SUFFICES ASSUME NEW j \in Job \ overlap, Reviewable(j), writes'[j] <= 1
               PROVE  job[j].result = job[j].digest
    BY <1>1 DEF JobsOK, JobOK, Reviewable
  <2>1. writes[j] <= 1
    BY <1>2
  <2> QED
    BY <2>1 DEF RunnerInv, JobsOK, JobOK
<1>7. AloneInv'
  <2> SUFFICES ASSUME NEW u \in Thread, OnJob(th'[u]), th'[u].job \notin overlap
               PROVE  AloneOK(th[u])'
    BY <1>1 DEF AloneInv
  <2> DEFINE c == th[u]
             j == th[u].job
             e == th'[u]
  <2>1. /\ c \in Local /\ e \in Local /\ e.at = c.at /\ e.job = j /\ j \in Job
        /\ e.before = c.before /\ e.linked = c.linked /\ e.got = c.got
        /\ v = source => e.first = c.first
    BY <1>3 DEF Local
  <2>2. AloneOK(c)
    BY <1>3 DEF RunnerInv, AloneInv
  <2>3. writes[j] \in 0..2 /\ writes'[j] \in {writes[j], writes[j] + 1} /\ source' = v
    BY <1>2, <2>1 DEF Write
  <2>4. v = source => writes'[j] = writes[j]
    BY <1>2, <2>1
  <2>5. v # source /\ c.at \in Snapped => writes'[j] # 0 /\ (writes'[j] = 1 => writes[j] = 0)
    <3> SUFFICES ASSUME v # source, c.at \in Snapped
                 PROVE  writes'[j] # 0 /\ (writes'[j] = 1 => writes[j] = 0)
      OBVIOUS
    <3>1. writes'[j] = IF writes[j] < 2 THEN writes[j] + 1 ELSE writes[j]
      BY <2>1 DEF Write
    <3> QED
      BY <2>3, <3>1
  <2> HIDE DEF c, j, e
  <2>6. CASE v = source
    <3>1. /\ c.at # "decide" => j \notin swept
          /\ c.at \in Snapped => Since(source, c) /\ (writes[j] = 1 => source # c.before)
          /\ c.at = "copying" => c.linked /\ Since(c.first, c)
      BY <2>2 DEF AloneOK, j, c
    <3> QED
      BY <1>1, <2>1, <2>2, <2>3, <2>4, <2>6 DEF AloneOK, Since, j, c, e
  <2>7. CASE v # source
    BY <1>1, <2>1, <2>2, <2>3, <2>5, <2>7 DEF AloneOK, Since, Snapped, j, c, e
  <2> QED
    BY <2>6, <2>7
<1> QED
  BY <1>4, <1>5, <1>6, <1>7 DEF RunnerInv

LEMMA WriteTyped ==
  ASSUME TypeOK, NEW v \in Content, Write(v)
  PROVE  /\ MixedIn(v) \in [Thread -> Local] /\ writes' \in [Job -> 0..2]
         /\ source' \in Content \cup {None}
         /\ \A u \in Thread : MixedIn(v)[u].at = th[u].at
<1>1. ASSUME NEW u \in Thread PROVE MixedIn(v)[u] \in Local /\ MixedIn(v)[u].at = th[u].at
  <2>1. th[u] \in Local
    BY DEF TypeOK
  <2>2. MixedIn(v)[u] = IF v # source /\ th[u].at = "copying" THEN [th[u] EXCEPT !.first = Torn] ELSE th[u]
    BY DEF MixedIn
  <2> QED
    BY <2>1, <2>2, ContentFacts DEF Local
<1>2. writes' \in [Job -> 0..2]
  BY DEF Write, TypeOK
<1>3. MixedIn(v) \in [Thread -> Local]
  BY <1>1 DEF MixedIn
<1> QED
  BY <1>1, <1>2, <1>3 DEF Write

LEMMA ChangeStep ==
  ASSUME RunnerInv, Change
  PROVE  RunnerInv'
<1>1. PICK v \in Content : Write(v) /\ th' = MixedIn(v)
  BY ContentFacts DEF Change
<1>2. TypeOK
  BY DEF RunnerInv
<1>3. /\ changes' \in 0..MaxChanges
      /\ UNCHANGED <<disk, manifest, listed, job, Files, crashes, History>>
  BY <1>2, RunnerAssumption DEF Change, TypeOK
<1>4. TypeOK'
  BY <1>1, <1>2, <1>3, WriteTyped DEF TypeOK, Files, History
<1>5. \A u \in Thread : Sweeping(u)' => Sweeping(u)
  BY <1>1, <1>2, WriteTyped DEF Sweeping
<1> QED
  BY <1>1, <1>3, <1>4, <1>5, WriteStep

\* A builder's write of the fixture.
LEMMA BuilderWrite ==
  ASSUME RunnerInv, NEW t \in Thread, NEW v \in Content, NEW w \in Where, ~OnJob(th[t]), w \notin {"sweep", "unlist"},
         w \in {"filling", "naming"}, Write(v), th' = [MixedIn(v) EXCEPT ![t].at = w],
         UNCHANGED <<disk, manifest, listed, job, Files, changes, crashes, History>>
  PROVE  RunnerInv'
<1>1. TypeOK /\ th[t] \in Local
  BY DEF RunnerInv, TypeOK
<1>2. /\ MixedIn(v) \in [Thread -> Local] /\ writes' \in [Job -> 0..2] /\ source' \in Content \cup {None}
      /\ \A u \in Thread : MixedIn(v)[u].at = th[u].at
  BY <1>1, WriteTyped
<1>3. th' \in [Thread -> Local] /\ th'[t].at = w /\ \A u \in Thread \ {t} : th'[u] = MixedIn(v)[u]
  BY <1>2 DEF Local
<1>4. TypeOK'
  BY <1>1, <1>2, <1>3 DEF TypeOK, Files, History
<1>5. ~OnJob(th'[t])
  BY <1>3 DEF OnJob
<1>6. \A u \in Thread : /\ OnJob(th[u]) \/ OnJob(th'[u]) => th'[u] = MixedIn(v)[u]
                        /\ Sweeping(u)' => Sweeping(u)
  BY <1>2, <1>3, <1>5 DEF Sweeping
<1> QED
  BY <1>4, <1>6, WriteStep

\* A thread moves between places where it is at no job.
LEMMA OffJobStep ==
  ASSUME RunnerInv, NEW t \in Thread, ~OnJob(th[t]), NEW c \in Local, ~OnJob(c), c.at \notin {"sweep", "unlist"},
         th' = [th EXCEPT ![t] = c], manifest' \in Content \cup {None},
         UNCHANGED <<disk, source, listed, job, Files, changes, crashes, writes, History>>
  PROVE  RunnerInv'
<1>1. UNCHANGED <<source, job, root, copy, writes, used, overlap, swept, stuck>> /\ TypeOK
  BY DEF Files, History, RunnerInv
<1>2. th'[t] = c /\ \A u \in Thread \ {t} : th'[u] = th[u]
  BY <1>1 DEF TypeOK
<1>3. TypeOK'
  BY <1>1 DEF TypeOK
<1>4. \A u \in Thread : OnJob(th'[u]) => OnJob(th[u]) /\ th'[u] = th[u]
  BY <1>2
<1>5. FreshOK' /\ OwnersOK' /\ TornDownIsGone' /\ JobsOK'
  BY <1>1, <1>4 DEF RunnerInv, FreshOK, OwnersOK, TornDownIsGone, JobsOK, JobOK, Reviewable
<1>6. Exclusive'
  <2>1. \A j \in Job : Busy(j)' \subseteq Busy(j)
    BY <1>2, <1>4 DEF Busy, Sweeping
  <2> QED
    BY <1>1, <2>1 DEF RunnerInv, Exclusive
<1>7. AloneInv'
  <2> SUFFICES ASSUME NEW u \in Thread, OnJob(th'[u]), th'[u].job \notin overlap
               PROVE  AloneOK(th[u])'
    BY <1>1 DEF AloneInv
  <2>1. th'[u] = th[u] /\ AloneOK(th[u])
    BY <1>1, <1>4 DEF RunnerInv, AloneInv
  <2> QED
    BY <1>1, <2>1 DEF AloneOK, Since
<1> QED
  BY <1>3, <1>5, <1>6, <1>7 DEF RunnerInv

LEMMA EnsureStep ==
  ASSUME RunnerInv, NEW t \in Thread, Ensure(t)
  PROVE  RunnerInv'
<1>1. PICK c \in Local : th' = [th EXCEPT ![t] = c] /\ c.at = "build"
  BY Goes DEF Ensure, Where
<1>2. ~OnJob(th[t]) /\ ~OnJob(c)
  BY <1>1 DEF Ensure, OnJob
<1>3. manifest \in Content \cup {None}
  BY DEF RunnerInv, TypeOK
<1> QED
  BY <1>1, <1>2, <1>3, OffJobStep DEF Ensure, Corpus

LEMMA BuildStep ==
  ASSUME RunnerInv, NEW t \in Thread, BuildOpen(t) \/ BuildWrite(t) \/ BuildManifest(t)
  PROVE  RunnerInv'
<1>1. ~OnJob(th[t])
  BY DEF BuildOpen, BuildWrite, BuildManifest, OnJob
<1>2. CASE BuildOpen(t)
  <2>1. "filling" \in Where
    BY DEF Where
  <2> QED
    BY <1>1, <1>2, <2>1, ContentFacts, BuilderWrite DEF BuildOpen
<1>3. CASE BuildWrite(t)
  <2>1. "naming" \in Where
    BY DEF Where
  <2> QED
    BY <1>1, <1>3, <2>1, ContentFacts, BuilderWrite DEF BuildWrite
<1>4. CASE BuildManifest(t)
  <2>1. source \in Content \cup {None}
    BY DEF RunnerInv, TypeOK
  <2> QED
    BY <1>1, <1>4, <2>1, IdleTyped, OffJobStep DEF BuildManifest, Done
<1> QED
  BY <1>2, <1>3, <1>4

LEMMA CrashStep ==
  ASSUME RunnerInv, Crash
  PROVE  RunnerInv'
<1>1. \A t \in Thread : th'[t] = Idle
  BY DEF Crash
<1>2. \A j \in Job : job'[j] = NewJob
  BY DEF Crash
<1>3. TypeOK'
  BY IdleTyped, NewJobTyped, RunnerAssumption DEF RunnerInv, TypeOK, Crash, Files, History, Corpus
<1>4. FreshOK' /\ OwnersOK' /\ AloneInv'
  BY <1>1, <1>2, IdleTyped DEF RunnerInv, FreshOK, OwnersOK, AloneInv, Crash, Files, History, Corpus
<1>5. Exclusive'
  BY <1>1, IdleTyped DEF Exclusive, Busy, Sweeping
<1>6. JobsOK' /\ TornDownIsGone'
  BY <1>2 DEF RunnerInv, JobsOK, JobOK, Reviewable, NewJob, TornDownIsGone, Crash, Files, History, Corpus
<1> QED
  BY <1>3, <1>4, <1>5, <1>6 DEF RunnerInv

LEMMA InitInv == Init => RunnerInv
<1> SUFFICES ASSUME Init PROVE RunnerInv
  OBVIOUS
<1>1. TypeOK
  BY IdleTyped, NewJobTyped, ContentFacts, RunnerAssumption DEF Init, TypeOK
<1>2. FreshOK /\ OwnersOK /\ AloneInv /\ TornDownIsGone
  BY IdleTyped DEF Init, FreshOK, OwnersOK, AloneInv, TornDownIsGone
<1>3. Exclusive
  BY IdleTyped DEF Init, Exclusive, Busy, Sweeping
<1>4. JobsOK
  BY DEF Init, JobsOK, JobOK, Reviewable, NewJob
<1> QED
  BY <1>1, <1>2, <1>3, <1>4 DEF RunnerInv

-----------------------------------------------------------------------------
(* The theorems.                                                            *)

LEMMA NextInv == RunnerInv /\ [Next]_vars => RunnerInv'
<1> SUFFICES ASSUME RunnerInv, [Next]_vars PROVE RunnerInv'
  OBVIOUS
<1>1. CASE UNCHANGED vars
  BY <1>1 DEF vars, RunnerInv, TypeOK, FreshOK, OwnersOK, Exclusive, Busy, Sweeping, AloneInv,
              AloneOK, Since, JobsOK, JobOK, Reviewable, TornDownIsGone
<1>2. CASE Change \/ Crash
  BY <1>2, ChangeStep, CrashStep
<1>3. ASSUME NEW t \in Thread, Step(t) PROVE RunnerInv'
  BY <1>3, CreateStep, SnapshotStep, MakeRootStep, CopyOpenStep, CopyCloseStep, WriteRecordsStep,
     ProcessStep, ResnapStep, FinishStep, DecideStep, RetryVerifyStep, WipeStep, RestartStep,
     SweepStep, UnlistStep, BuildStep DEF Step
<1>4. ASSUME NEW t \in Thread, Request(t) PROVE RunnerInv'
  BY <1>4, EnsureStep, TeardownStep, SubmitStep, RetryStep, ReviewStep DEF Request
<1> QED
  BY <1>1, <1>2, <1>3, <1>4 DEF Next

\* Whatever the threads do, in any order: every variable has its type, a job that no
\* two threads met on is in the state its own thread left it in, and what a
\* teardown removed is gone (local_runner.py, staging.py).
THEOREM RunnerInvariant == Spec => []RunnerInv
<1>1. Init => RunnerInv
  BY InitInv
<1>2. RunnerInv /\ [Next]_vars => RunnerInv'
  BY NextInv
<1> QED
  BY <1>1, <1>2, PTL DEF Spec

\* The variables of the runner keep their types, for any threads, jobs and bounds.
THEOREM RunnerTypeCorrect == Spec => []TypeOK
<1>1. RunnerInv => TypeOK
  BY DEF RunnerInv
<1> QED
  BY <1>1, RunnerInvariant, PTL

\* What is under review was computed from the content its first snapshot saw, unless
\* the source changed at least twice between the two snapshots
\* (EvidenceStager.run): one write at any moment of a run is caught.
THEOREM ChangeIsCaught == Spec => []OneChangeCaught
<1>1. RunnerInv => OneChangeCaught
  BY DEF RunnerInv, TypeOK, JobsOK, JobOK, OneChangeCaught
<1> QED
  BY <1>1, RunnerInvariant, PTL

\* A retry meets a staged source only when two threads were at the job or rmtree
\* had left it there (LocalRunner.retry, EvidenceStager.stage).
THEOREM RetryRootEmpty == Spec => []RetryFindsEmptyRoot
<1>1. RunnerInv => RetryFindsEmptyRoot
  BY DEF RunnerInv, AloneInv, AloneOK, OnJob, RetryFindsEmptyRoot
<1> QED
  BY <1>1, RunnerInvariant, PTL

\* A teardown leaves no copy of evidence that rmtree could remove, restarts or not
\* (LocalRunner.teardown).
THEOREM TeardownRemoves == Spec => []TornDownIsGone
<1>1. RunnerInv => TornDownIsGone
  BY DEF RunnerInv
<1> QED
  BY <1>1, RunnerInvariant, PTL

\* A thread that is alone with a job never finds it approved.
LEMMA NobodyAtApproved ==
  ASSUME RunnerInv, NEW t \in Thread, OnJob(th[t]), th[t].job \notin overlap
  PROVE  job[th[t].job].status # "approved"
<1>1. AloneOK(th[t]) /\ th[t].at \in Where
  BY DEF RunnerInv, AloneInv, TypeOK, Local
<1> QED
  BY <1>1 DEF AloneOK, Where, OnJob

LEMMA OwnJobOnly ==
  ASSUME RunnerInv, NEW t \in Thread, Step(t) \/ Request(t), NEW j \in Job, job'[j] # job[j]
  PROVE  OnJob(th[t]) /\ th[t].job = j /\ UNCHANGED overlap
<1>1. job \in [Job -> JobDict] /\ th[t].job \in Job
  BY DEF RunnerInv, TypeOK, Local
<1>2. CASE Request(t)
  BY <1>2 DEF Request, Ensure, Teardown, Submit, Retry, Review
<1>3. CASE Create(t) \/ Snapshot(t) \/ MakeRoot(t) \/ CopyOpen(t) \/ CopyClose(t) \/ WriteRecords(t)
  BY <1>1, <1>3 DEF Create, Snapshot, MakeRoot, CopyOpen, CopyClose, WriteRecords, Fail, OnJob, History, Corpus
<1>4. CASE Process(t) \/ Resnap(t) \/ Finish(t) \/ Decide(t) \/ RetryVerify(t) \/ Restart(t)
  BY <1>1, <1>4 DEF Process, Resnap, Finish, Decide, RetryVerify, Restart, Fail, OnJob, History, Corpus
<1>5. CASE Wipe(t) \/ Sweep(t) \/ Unlist(t)
  BY <1>5 DEF Wipe, Sweep, Unlist
<1>6. CASE BuildOpen(t) \/ BuildWrite(t) \/ BuildManifest(t)
  BY <1>6 DEF BuildOpen, BuildWrite, BuildManifest
<1> QED
  BY <1>2, <1>3, <1>4, <1>5, <1>6 DEF Step

\* An approval given by one thread stands against every later request that does
\* not meet another on the job (LocalRunner.review, retry).
THEOREM ApprovalStands == Spec => ApprovedStands
<1> DEFINE Stands == \A j \in listed : job[j].status = "approved" /\ j \in listed' /\ j \notin overlap'
                                       => job'[j].status = "approved"
<1>1. RunnerInv /\ [Next]_vars => [Stands]_vars
  <2> SUFFICES ASSUME RunnerInv, Next, NEW j \in listed, job[j].status = "approved", j \in listed',
                      j \notin overlap'
               PROVE  job'[j].status = "approved"
    OBVIOUS
  <2>1. j \in Job
    BY DEF RunnerInv, TypeOK
  <2>2. CASE Change \/ Crash
    BY <2>2 DEF Change, Crash
  <2>3. ASSUME NEW t \in Thread, Step(t) \/ Request(t) PROVE job'[j] = job[j]
    <3>1. SUFFICES ASSUME job'[j] # job[j] PROVE FALSE
      OBVIOUS
    <3>2. OnJob(th[t]) /\ th[t].job = j /\ UNCHANGED overlap
      BY <2>1, <2>3, <3>1, OwnJobOnly
    <3> QED
      BY <3>2, NobodyAtApproved
  <2> QED
    BY <2>2, <2>3 DEF Next
<1> QED
  BY <1>1, RunnerInvariant, PTL DEF Spec, ApprovedStands
=============================================================================
