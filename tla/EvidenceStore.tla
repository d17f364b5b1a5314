---------------------------- MODULE EvidenceStore ----------------------------
(***************************************************************************)
(* The filesystem-backed WORM evidence store (evidence_store.py) of one    *)
(* tenant, used by several processes that share the storage root and hold  *)
(* no lock.  Every action is one step another process can see on disk; a   *)
(* process may crash between any two of them.                              *)
(*                                                                         *)
(* A file's bytes are a member of Content and stand for their own SHA-256  *)
(* and size.  NoFile: the path does not exist.  Torn: the file was opened  *)
(* for writing and holds no complete content yet.  Garbled: two writers    *)
(* overlapped and the file is not JSON any more.                           *)
(***************************************************************************)
EXTENDS Naturals

CONSTANTS
  Proc,       \* processes calling the store
  Evidence,   \* (case id, evidence id) pairs of the tenant
  Quarantine, \* quarantine ids: fresh uuid4 values, one per ingest
  Content,    \* file contents, and so their SHA-256
  Retention,  \* retention_days a promotion may ask for
  MaxTime,    \* the clock stops here
  Ops,        \* which of "promote", "hold", "delete", "crash" happen
  NoFile, Torn, Garbled

Manifest == [sha256 : Content, until : Nat, hold : BOOLEAN]

ASSUME StoreAssumption ==
  /\ Retention \subseteq Nat
  /\ MaxTime \in Nat
  /\ NoFile # Torn /\ NoFile # Garbled /\ Torn # Garbled
  /\ {NoFile, Torn, Garbled} \cap (Content \cup Manifest) = {}
  /\ NoFile \notin Quarantine \cup Evidence

VARIABLES
  quar,     \* quarantine/<id>: was it ever made, its blob, the digest in meta.json
  obj,      \* evidence/<id>: its directory's mode, original (and is it 0400),
            \* <id>.manifest.json and that file's mode
  now,      \* the clock, in retention units
  proc,     \* per process: the step it is at and the locals of the call it is in
  received  \* contents whose ingest_to_quarantine returned (history)

vars == <<quar, obj, now, proc, received>>

Labels == {"idle", "i_copy", "i_meta", "i_write",
           "p_check", "p_verify", "p_quar", "p_mkdir", "p_exists", "p_reverify",
           "p_copy", "p_copying", "p_seal", "p_publish", "p_writing", "p_lock", "p_clean",
           "h_chmod", "h_open", "h_write", "h_lock",
           "d_chmod", "d_unlink", "d_rmdir", "d_manifest"}

Codes == {"NONE", "OK", "EVIDENCE_CONFLICT", "EVIDENCE_EXISTS", "EVIDENCE_NOT_FOUND",
          "QUARANTINE_NOT_FOUND", "CHECKSUM_MISMATCH", "LEGAL_HOLD_ACTIVE",
          "RETENTION_ACTIVE", "DELETE_NOT_CONFIRMED", "OS_ERROR", "JSON_ERROR"}

QuarState == [used : BOOLEAN, blob : Content \cup {NoFile}, meta : Content \cup {NoFile, Torn}]

ObjState == [dir : {"none", "rw", "ro"}, original : Content \cup {NoFile, Torn},
             sealed : BOOLEAN, manifest : Manifest \cup {NoFile, Torn, Garbled},
             mode : {"rw", "ro"}]

\* The step, the quarantine id and the arguments held, the manifest read or to
\* be written, whether the file being written is still linked in its directory,
\* and the answer of the last call: its code and, when a promotion or a hold
\* succeeded, the evidence id and the digest the caller now relies on.
ProcState == [pc : Labels, q : Quarantine \cup {NoFile}, ev : Evidence \cup {NoFile},
              want : Content \cup {NoFile}, days : Nat, seen : Manifest \cup {NoFile},
              linked : BOOLEAN, code : Codes, id : Evidence \cup {NoFile},
              sha : Content \cup {NoFile}]

\* Every variable keeps the shape its file or Python local has.
TypeOK ==
  /\ quar \in [Quarantine -> QuarState]
  /\ obj \in [Evidence -> ObjState]
  /\ now \in Nat
  /\ proc \in [Proc -> ProcState]
  /\ received \subseteq Content

\* A process between calls: it keeps only its quarantine id and the last answer.
Idle(q, code, id, sha) ==
  [pc |-> "idle", q |-> q, ev |-> NoFile, want |-> NoFile, days |-> 0, seen |-> NoFile,
   linked |-> FALSE, code |-> code, id |-> id, sha |-> sha]

\* A process in a call that has no answer yet.
InCall(l, q, i, c, r, m) ==
  [pc |-> l, q |-> q, ev |-> i, want |-> c, days |-> r, seen |-> m,
   linked |-> FALSE, code |-> "NONE", id |-> NoFile, sha |-> NoFile]

Fresh(q) == Idle(q, "NONE", NoFile, NoFile)

Init ==
  /\ quar = [q \in Quarantine |-> [used |-> FALSE, blob |-> NoFile, meta |-> NoFile]]
  /\ obj = [i \in Evidence |-> [dir |-> "none", original |-> NoFile, sealed |-> FALSE,
                                manifest |-> NoFile, mode |-> "rw"]]
  /\ now = 0
  /\ proc = [p \in Proc |-> Fresh(NoFile)]
  /\ received = {}

-----------------------------------------------------------------------------
(* How a step of p ends: at the next label, with an answer, or raising.     *)

Become(p, s)     == proc' = [proc EXCEPT ![p] = s]
Goto(p, l)       == proc' = [proc EXCEPT ![p].pc = l]
Answer(p, sha)   == Become(p, Idle(proc[p].q, "OK", proc[p].ev, sha))
Raise(p, code)   == Become(p, Idle(proc[p].q, code, NoFile, NoFile))
\* The call goes on at l if the system call succeeds, else an OSError escapes.
Try(p, ok, l)    == (ok /\ Goto(p, l)) \/ (~ok /\ Raise(p, "OS_ERROR"))

\* The effect of a system call on one evidence object, when it succeeds.
Change(i, ok, o) == obj' = [obj EXCEPT ![i] = IF ok THEN o ELSE @]

\* read_manifest: a missing file is EVIDENCE_NOT_FOUND; json.loads raises on one
\* that was not completely written.
Readable(i)  == obj[i].manifest \in Manifest
ReadError(i) == IF obj[i].manifest = NoFile THEN "EVIDENCE_NOT_FOUND" ELSE "JSON_ERROR"

-----------------------------------------------------------------------------
(* ingest_to_quarantine and find_quarantine_by_sha.                         *)

StartIngest(p, c, q) ==
  /\ proc[p].pc = "idle"
  /\ ~quar[q].used
  /\ quar' = [quar EXCEPT ![q].used = TRUE]
  /\ Become(p, InCall("i_copy", q, NoFile, c, 0, NoFile))
  /\ UNCHANGED <<obj, now, received>>

\* copyfile into a temporary name, then an atomic os.replace.
IngestCopy(p) ==
  /\ proc[p].pc = "i_copy"
  /\ quar' = [quar EXCEPT ![proc[p].q].blob = proc[p].want]
  /\ Goto(p, "i_meta")
  /\ UNCHANGED <<obj, now, received>>

\* The blob is hashed and meta.json opened for writing.
IngestOpenMeta(p) ==
  /\ proc[p].pc = "i_meta"
  /\ quar' = [quar EXCEPT ![proc[p].q].meta = Torn]
  /\ Goto(p, "i_write")
  /\ UNCHANGED <<obj, now, received>>

IngestWriteMeta(p) ==
  /\ proc[p].pc = "i_write"
  /\ quar' = [quar EXCEPT ![proc[p].q].meta = proc[p].want]
  /\ received' = received \cup {proc[p].want}
  /\ Answer(p, NoFile)
  /\ UNCHANGED <<obj, now>>

\* The directory scan returns any entry whose metadata names the digest; it does
\* not look at the blob, and skips metadata it cannot parse.
FindQuarantine(p, c) ==
  /\ proc[p].pc = "idle"
  /\ LET found == {q \in Quarantine : quar[q].meta = c}
     IN  \E q \in IF found = {} THEN {NoFile} ELSE found : Become(p, Fresh(q))
  /\ UNCHANGED <<quar, obj, now, received>>

-----------------------------------------------------------------------------
(* promote_to_evidence (register_to_evidence is the same call).             *)

StartPromote(p, i, c, r) ==
  /\ "promote" \in Ops
  /\ proc[p].pc = "idle" /\ proc[p].q # NoFile
  /\ Become(p, InCall("p_check", proc[p].q, i, c, r, NoFile))
  /\ UNCHANGED <<quar, obj, now, received>>

\* existing_manifest_path.is_file(), and the first read of the manifest.
LookForManifest(p, here, found, missing) ==
  /\ proc[p].pc = here
  /\ LET i == proc[p].ev
     IN  \/ obj[i].manifest = NoFile /\ missing
         \/ obj[i].manifest \in {Torn, Garbled} /\ Raise(p, "JSON_ERROR")
         \/ /\ Readable(i)
            /\ Become(p, [proc[p] EXCEPT !.pc = found, !.seen = obj[i].manifest])
  /\ UNCHANGED <<quar, obj, now, received>>

\* The manifest read first names the expected digest, and the bytes match the
\* manifest as verify_integrity reads it again.
SameEvidenceAnyDigest(p, o) == o.original = o.manifest.sha256
SameEvidence(p, o) == proc[p].seen.sha256 = proc[p].want /\ o.original = o.manifest.sha256

VerifyExisting(p, here, mismatch) ==
  /\ proc[p].pc = here
  /\ LET i == proc[p].ev
         present == obj[i].original # NoFile
     IN  \/ ~Readable(i) /\ Raise(p, ReadError(i))
         \/ Readable(i) /\ ~present /\ Raise(p, "EVIDENCE_NOT_FOUND")
         \/ Readable(i) /\ present /\ SameEvidence(p, obj[i]) /\ Answer(p, proc[p].want)
         \/ Readable(i) /\ present /\ ~SameEvidence(p, obj[i]) /\ Raise(p, mismatch)
  /\ UNCHANGED <<quar, obj, now, received>>

PromoteCheck(p)  == LookForManifest(p, "p_check", "p_verify", Goto(p, "p_quar"))
PromoteVerify(p) == VerifyExisting(p, "p_verify", "EVIDENCE_CONFLICT")

\* The staged blob and its metadata are read and the blob is hashed.
PromoteQuarantine(p) ==
  /\ proc[p].pc = "p_quar"
  /\ LET q == quar[proc[p].q]
     IN  \/ NoFile \in {q.blob, q.meta} /\ Raise(p, "QUARANTINE_NOT_FOUND")
         \/ /\ NoFile \notin {q.blob, q.meta}
            /\ {q.blob, q.meta} # {proc[p].want}
            /\ Raise(p, IF q.meta = Torn THEN "JSON_ERROR" ELSE "CHECKSUM_MISMATCH")
         \/ {q.blob, q.meta} = {proc[p].want} /\ Goto(p, "p_mkdir")
  /\ UNCHANGED <<quar, obj, now, received>>

\* mkdir(exist_ok=False) decides which promoter of an id goes on.
MkdirExistOk(i) == TRUE
MkdirSucceeds(i) == obj[i].dir = "none"

PromoteMkdir(p) ==
  /\ proc[p].pc = "p_mkdir"
  /\ LET i == proc[p].ev
     IN  /\ Change(i, MkdirSucceeds(i), [obj[i] EXCEPT !.dir = "rw"])
         /\ Goto(p, IF MkdirSucceeds(i) THEN "p_copy" ELSE "p_exists")
  /\ UNCHANGED <<quar, now, received>>

PromoteExists(p)   == LookForManifest(p, "p_exists", "p_reverify", Raise(p, "EVIDENCE_EXISTS"))
PromoteReverify(p) == VerifyExisting(p, "p_reverify", "EVIDENCE_EXISTS")

\* copyfile opens the source, then creates or truncates the destination.
PromoteOpenCopy(p) ==
  /\ proc[p].pc = "p_copy"
  /\ LET i == proc[p].ev
         b == quar[proc[p].q].blob
         ok == b # NoFile /\ obj[i].dir # "none" /\ ~obj[i].sealed
     IN  /\ Change(i, ok, [obj[i] EXCEPT !.original = Torn])
         /\ \/ ok /\ Become(p, [proc[p] EXCEPT !.pc = "p_copying", !.want = b, !.linked = TRUE])
            \/ ~ok /\ Raise(p, "OS_ERROR")
  /\ UNCHANGED <<quar, now, received>>

PromoteCopied(p) ==
  /\ proc[p].pc = "p_copying"
  /\ Change(proc[p].ev, proc[p].linked, [obj[proc[p].ev] EXCEPT !.original = proc[p].want])
  /\ Goto(p, "p_seal")
  /\ UNCHANGED <<quar, now, received>>

RetentionBackwards(p) == now - proc[p].days
RetentionUntil(p) == now + proc[p].days

\* The quarantine is cleaned up only behind the manifest.
AfterSealCleanUp == "p_clean"
AfterSeal == "p_publish"

\* chmod the original and its directory, stat it, build the manifest, and make
\* the directory writable again.
PromoteSeal(p) ==
  /\ proc[p].pc = "p_seal"
  /\ LET i == proc[p].ev
         ok == obj[i].original # NoFile
         m == [sha256 |-> proc[p].want, until |-> RetentionUntil(p), hold |-> FALSE]
     IN  /\ Change(i, ok, [obj[i] EXCEPT !.sealed = TRUE, !.dir = "rw"])
         /\ \/ ok /\ Become(p, [proc[p] EXCEPT !.pc = AfterSeal, !.seen = m])
            \/ ~ok /\ Raise(p, "OS_ERROR")
  /\ UNCHANGED <<quar, now, received>>

\* open(path, "w") creates the manifest or truncates it; a 0400 file refuses.
OpenManifest(p, here, next) ==
  /\ proc[p].pc = here
  /\ LET i == proc[p].ev
         ok == obj[i].manifest = NoFile \/ obj[i].mode = "rw"
     IN  /\ Change(i, ok, [obj[i] EXCEPT !.manifest = Torn, !.mode = "rw"])
         /\ \/ ok /\ Become(p, [proc[p] EXCEPT !.pc = next, !.linked = TRUE])
            \/ ~ok /\ Raise(p, "OS_ERROR")
  /\ UNCHANGED <<quar, now, received>>

\* The text goes to offset 0.  The one with "legal_hold": false is a byte longer
\* than the one with true, so writing the shorter one over the longer one that
\* another writer finished since the truncation leaves a trailing byte.
Overwritten(old, m) ==
  IF m.hold /\ (old = Garbled \/ (old \in Manifest /\ ~old.hold)) THEN Garbled ELSE m

WriteManifest(p, here, next) ==
  /\ proc[p].pc = here
  /\ LET i == proc[p].ev
     IN  Change(i, proc[p].linked,
                [obj[i] EXCEPT !.manifest = Overwritten(@, proc[p].seen)])
  /\ Goto(p, next)
  /\ UNCHANGED <<quar, now, received>>

\* chmod of the manifest path; a missing file raises.
ChmodManifest(i, m) == Change(i, obj[i].manifest # NoFile, [obj[i] EXCEPT !.mode = m])

PromotePublish(p) == OpenManifest(p, "p_publish", "p_writing")
PromoteWrite(p)   == WriteManifest(p, "p_writing", "p_lock")

PromoteLock(p) ==
  /\ proc[p].pc = "p_lock"
  /\ LET i == proc[p].ev
         there == obj[i].manifest # NoFile
     IN  /\ Change(i, there, [obj[i] EXCEPT !.mode = "ro",
                                            !.dir = IF @ = "none" THEN @ ELSE "ro"])
         /\ Try(p, there /\ obj[i].dir # "none", "p_clean")
  /\ UNCHANGED <<quar, now, received>>

\* rmtree(qdir, ignore_errors=True) unlinks the two files in directory order.
PromoteClean(p) ==
  /\ proc[p].pc = "p_clean"
  /\ LET q == proc[p].q IN
     \/ /\ quar[q].blob # NoFile
        /\ quar' = [quar EXCEPT ![q].blob = NoFile] /\ UNCHANGED proc
     \/ /\ quar[q].meta # NoFile
        /\ quar' = [quar EXCEPT ![q].meta = NoFile] /\ UNCHANGED proc
     \/ /\ quar[q].blob = NoFile /\ quar[q].meta = NoFile
        /\ Answer(p, proc[p].want) /\ UNCHANGED quar
  /\ UNCHANGED <<obj, now, received>>

-----------------------------------------------------------------------------
(* set_legal_hold.                                                          *)

StartHold(p, i, h) ==
  /\ "hold" \in Ops
  /\ proc[p].pc = "idle"
  /\ \/ /\ Readable(i)
        /\ LET m == [obj[i].manifest EXCEPT !.hold = h]
           IN  Become(p, InCall("h_chmod", proc[p].q, i, NoFile, 0, m))
     \/ ~Readable(i) /\ Raise(p, ReadError(i))
  /\ UNCHANGED <<quar, obj, now, received>>

HoldChmod(p) ==
  /\ proc[p].pc = "h_chmod"
  /\ ChmodManifest(proc[p].ev, "rw")
  /\ Try(p, obj[proc[p].ev].manifest # NoFile, "h_open")
  /\ UNCHANGED <<quar, now, received>>

HoldOpen(p)  == OpenManifest(p, "h_open", "h_write")
HoldWrite(p) == WriteManifest(p, "h_write", "h_lock")

HoldLock(p) ==
  /\ proc[p].pc = "h_lock"
  /\ ChmodManifest(proc[p].ev, "ro")
  /\ \/ obj[proc[p].ev].manifest # NoFile /\ Answer(p, proc[p].seen.sha256)
     \/ obj[proc[p].ev].manifest = NoFile /\ Raise(p, "OS_ERROR")
  /\ UNCHANGED <<quar, now, received>>

-----------------------------------------------------------------------------
(* delete_evidence.                                                         *)

\* The checks on the manifest that was read, in the code's order.
DeleteVerdictForced(m, force) ==
  IF m.hold /\ ~force THEN "LEGAL_HOLD_ACTIVE" ELSE "OK"
DeleteVerdict(m, force) ==
  IF m.hold THEN "LEGAL_HOLD_ACTIVE"
  ELSE IF now < m.until THEN "RETENTION_ACTIVE"
  ELSE IF ~force THEN "DELETE_NOT_CONFIRMED" ELSE "OK"

StartDelete(p, i, force) ==
  /\ "delete" \in Ops
  /\ proc[p].pc = "idle"
  /\ LET verdict == IF Readable(i) THEN DeleteVerdict(obj[i].manifest, force) ELSE ReadError(i)
     IN  \/ verdict = "OK" /\ Become(p, InCall("d_chmod", proc[p].q, i, NoFile, 0, NoFile))
         \/ verdict # "OK" /\ Raise(p, verdict)
  /\ UNCHANGED <<quar, obj, now, received>>

DeleteChmod(p) ==
  /\ proc[p].pc = "d_chmod"
  /\ LET i == proc[p].ev
     IN  /\ Change(i, obj[i].dir # "none", [obj[i] EXCEPT !.dir = "rw"])
         /\ Try(p, obj[i].dir # "none", "d_unlink")
  /\ UNCHANGED <<quar, now, received>>

\* p goes to state s, and whoever has the unlinked file of i open writes to a
\* file no path leads to any more.
BecomeUnlinking(p, s, i, writing) ==
  proc' = [r \in Proc |-> IF r = p THEN s
                          ELSE IF proc[r].ev = i /\ proc[r].pc \in writing
                          THEN [proc[r] EXCEPT !.linked = FALSE] ELSE proc[r]]

\* rmtree lists the directory and unlinks what it saw.  When another process
\* removes the file meanwhile it saw nothing or it raises.
DeleteUnlink(p) ==
  /\ proc[p].pc = "d_unlink"
  /\ LET i == proc[p].ev
         ok == obj[i].dir = "rw" /\ obj[i].original # NoFile
     IN  /\ Change(i, ok, [obj[i] EXCEPT !.original = NoFile, !.sealed = FALSE])
         /\ \/ /\ ok
               /\ BecomeUnlinking(p, [proc[p] EXCEPT !.pc = "d_rmdir"], i, {"p_copying"})
            \/ obj[i].dir # "none" /\ obj[i].original = NoFile /\ Goto(p, "d_rmdir")
            \/ ~ok /\ Raise(p, "OS_ERROR")
  /\ UNCHANGED <<quar, now, received>>

DeleteRmdir(p) ==
  /\ proc[p].pc = "d_rmdir"
  /\ LET i == proc[p].ev
         ok == obj[i].dir # "none" /\ obj[i].original = NoFile
     IN  Change(i, ok, [obj[i] EXCEPT !.dir = "none"]) /\ Try(p, ok, "d_manifest")
  /\ UNCHANGED <<quar, now, received>>

\* unlink(missing_ok=True).
DeleteManifest(p) ==
  /\ proc[p].pc = "d_manifest"
  /\ LET i == proc[p].ev
     IN  /\ Change(i, TRUE, [obj[i] EXCEPT !.manifest = NoFile, !.mode = "rw"])
         /\ BecomeUnlinking(p, Idle(proc[p].q, "OK", i, NoFile), i, {"p_writing", "h_write"})
  /\ UNCHANGED <<quar, now, received>>

-----------------------------------------------------------------------------
(* The environment: time passes, and a process dies with its locals.        *)

Tick ==
  /\ now < MaxTime
  /\ now' = now + 1
  /\ UNCHANGED <<quar, obj, proc, received>>

Crash(p) ==
  /\ "crash" \in Ops
  /\ proc[p].pc # "idle"
  /\ Become(p, Fresh(NoFile))
  /\ UNCHANGED <<quar, obj, now, received>>

Call(p) ==
  \/ \E c \in Content, q \in Quarantine : StartIngest(p, c, q)
  \/ \E c \in Content : FindQuarantine(p, c)
  \/ \E i \in Evidence, c \in Content, r \in Retention : StartPromote(p, i, c, r)
  \/ \E i \in Evidence, h \in BOOLEAN : StartHold(p, i, h)
  \/ \E i \in Evidence, force \in BOOLEAN : StartDelete(p, i, force)

Step(p) ==
  \/ IngestCopy(p) \/ IngestOpenMeta(p) \/ IngestWriteMeta(p)
  \/ PromoteCheck(p) \/ PromoteVerify(p) \/ PromoteQuarantine(p) \/ PromoteMkdir(p)
  \/ PromoteExists(p) \/ PromoteReverify(p) \/ PromoteOpenCopy(p) \/ PromoteCopied(p)
  \/ PromoteSeal(p) \/ PromotePublish(p) \/ PromoteWrite(p) \/ PromoteLock(p)
  \/ PromoteClean(p)
  \/ HoldChmod(p) \/ HoldOpen(p) \/ HoldWrite(p) \/ HoldLock(p)
  \/ DeleteChmod(p) \/ DeleteUnlink(p) \/ DeleteRmdir(p) \/ DeleteManifest(p)

Next == Tick \/ \E p \in Proc : Call(p) \/ Step(p) \/ Crash(p)

Spec == Init /\ [][Next]_vars

-----------------------------------------------------------------------------
(* Properties.                                                              *)

\* While nothing is deleted, a manifest that can be read always describes the
\* bytes beside it: promote_to_evidence publishes the manifest last, and no
\* later promotion, hold, crash or race may part the two.
PublishedIntact ==
  \A i \in Evidence : Readable(i) => obj[i].original = obj[i].manifest.sha256

\* While nothing is deleted, a caller told that its promotion or hold succeeded
\* can rely on it for good: the original holds the digest it was told.  Two
\* callers of promote_to_evidence are never told different contents for one id.
RepliesHold ==
  \A p \in Proc : proc[p].sha # NoFile => obj[proc[p].id].original = proc[p].sha

\* While nothing is deleted, content whose ingest_to_quarantine returned is never
\* lost: it is staged, or it is the original of an object with a manifest file.
\* The staged copy goes (rmtree(qdir)) only after that.
NoEvidenceLoss ==
  \A c \in received :
    \/ \E q \in Quarantine : quar[q].blob = c
    \/ \E i \in Evidence : obj[i].original = c /\ obj[i].manifest # NoFile

\* delete_evidence removes an original only while its manifest carries no legal
\* hold and its retention has elapsed.
DeletionLawful ==
  [][\A i \in Evidence : obj[i].original # NoFile /\ obj'[i].original = NoFile
       => Readable(i) /\ ~obj[i].manifest.hold /\ obj[i].manifest.until <= now]_vars

\* A legal hold is in force: the manifest carries it, locked again, and no
\* set_legal_hold is at work on it, so the one that set it has returned.
Held(i) ==
  /\ Readable(i) /\ obj[i].manifest.hold /\ obj[i].mode = "ro"
  /\ ~\E p \in Proc : proc[p].ev = i /\ proc[p].pc \in {"h_chmod", "h_open", "h_write", "h_lock"}

\* An original under a legal hold that is in force is not removed:
\* "delete_evidence fails closed while a hold is set" (evidence_store.py:16-17).
HeldOriginalStays ==
  [][\A i \in Evidence : obj[i].original # NoFile /\ obj'[i].original = NoFile => ~Held(i)]_vars

Promoting == {"p_copy", "p_copying", "p_seal", "p_publish", "p_writing"}

\* An interrupted promotion can resume: promote_to_evidence, called again with a
\* matching staged object, refuses with EVIDENCE_EXISTS only if the object has a
\* manifest or another call is on the way to writing it.
InterruptedPromotionResumes ==
  [][\A p \in Proc : proc[p].pc = "p_exists" /\ proc'[p].code = "EVIDENCE_EXISTS"
       => \/ obj[proc[p].ev].manifest # NoFile
          \/ \E r \in Proc : proc[r].ev = proc[p].ev /\ proc[r].pc \in Promoting]_vars

\* The complete originals, and what each caller was last told.
Bytes == [i \in Evidence |-> IF obj[i].original \in Content THEN obj[i].original ELSE NoFile]
Told  == [p \in Proc |-> IF proc[p].sha = NoFile THEN <<NoFile, NoFile>>
                         ELSE <<proc[p].id, proc[p].sha>>]

WriteOnce == INSTANCE WriteOnceStore
  WITH Client <- Proc, Id <- Evidence, None <- NoFile, bytes <- Bytes, told <- Told

\* While nothing is deleted the store is a write-once store: promote_to_evidence
\* never replaces a complete original, whatever races or crashes happen, and no
\* answer names other bytes.
ImplementsWriteOnce == WriteOnce!Spec
=============================================================================
