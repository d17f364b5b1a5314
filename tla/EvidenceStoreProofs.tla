------------------------ MODULE EvidenceStoreProofs ------------------------
(***************************************************************************)
(* Proofs about EvidenceStore, for any number of processes, evidence ids,  *)
(* quarantine slots and contents: types with every operation, and, while   *)
(* nothing is deleted, the inductive invariant, the theorems for the       *)
(* properties of EvidenceStore and the refinement of WriteOnceStore.       *)
(***************************************************************************)
EXTENDS EvidenceStore, TLAPS

IngestLabels  == {"i_copy", "i_meta", "i_write"}
PromoteLabels == {"p_check", "p_verify", "p_quar", "p_mkdir", "p_exists", "p_reverify",
                  "p_copy", "p_copying", "p_seal", "p_publish", "p_writing", "p_lock",
                  "p_clean"}
HoldLabels    == {"h_chmod", "h_open", "h_write", "h_lock"}
DeleteLabels  == {"d_chmod", "d_unlink", "d_rmdir", "d_manifest"}
\* Labels at which `seen` holds a manifest.
SeenLabels    == HoldLabels \cup {"p_verify", "p_reverify", "p_publish", "p_writing"}

\* The locals a call has been given are there while it runs.
CallOK(s) ==
  /\ s \in ProcState
  /\ s.pc \in IngestLabels \cup PromoteLabels => s.q \in Quarantine /\ s.want \in Content
  /\ s.pc \in PromoteLabels \cup HoldLabels \cup DeleteLabels => s.ev \in Evidence
  /\ s.pc \in SeenLabels => s.seen \in Manifest
  /\ s.sha # NoFile => s.id \in Evidence

DiskOK ==
  /\ quar \in [Quarantine -> QuarState]
  /\ obj \in [Evidence -> ObjState]
  /\ now \in Nat
  /\ received \subseteq Content

ProcsOK == proc \in [Proc -> ProcState] /\ \A p \in Proc : CallOK(proc[p])

TypeInv == DiskOK /\ ProcsOK

-----------------------------------------------------------------------------
(* How the building blocks of the actions keep the types.                   *)

LEMMA IdleOK ==
  ASSUME NEW q \in Quarantine \cup {NoFile}, NEW code \in Codes,
         NEW id \in Evidence \cup {NoFile}, NEW sha \in Content \cup {NoFile},
         sha # NoFile => id \in Evidence
  PROVE  CallOK(Idle(q, code, id, sha))
  BY DEF CallOK, Idle, ProcState, Labels, IngestLabels, PromoteLabels, HoldLabels,
         DeleteLabels, SeenLabels

LEMMA FreshOK ==
  ASSUME NEW q \in Quarantine \cup {NoFile}
  PROVE  CallOK(Fresh(q))
  BY IdleOK DEF Fresh, Codes

LEMMA StartOK ==
  ASSUME NEW q \in Quarantine \cup {NoFile}, NEW l \in Labels, NEW i \in Evidence \cup {NoFile},
         NEW c \in Content \cup {NoFile}, NEW r \in Nat, NEW m \in Manifest \cup {NoFile},
         l \in IngestLabels \cup PromoteLabels => q \in Quarantine /\ c \in Content,
         l \in PromoteLabels \cup HoldLabels \cup DeleteLabels => i \in Evidence,
         l \in SeenLabels => m \in Manifest
  PROVE  CallOK(InCall(l, q, i, c, r, m))
  BY DEF CallOK, InCall, ProcState, Codes

LEMMA BecomeOK ==
  ASSUME ProcsOK, NEW p \in Proc, NEW s, CallOK(s), Become(p, s)
  PROVE  ProcsOK'
  BY DEF ProcsOK, Become, CallOK

LEMMA GotoOK ==
  ASSUME ProcsOK, NEW p \in Proc, NEW l \in Labels, Goto(p, l),
         l \in IngestLabels \cup PromoteLabels =>
           proc[p].q \in Quarantine /\ proc[p].want \in Content,
         l \in PromoteLabels \cup HoldLabels \cup DeleteLabels => proc[p].ev \in Evidence,
         l \in SeenLabels => proc[p].seen \in Manifest
  PROVE  ProcsOK'
<1> DEFINE s == [proc[p] EXCEPT !.pc = l]
<1>1. CallOK(s)
  BY DEF ProcsOK, CallOK, ProcState
<1>2. Become(p, s)
  BY DEF Goto, Become, ProcsOK
<1> QED
  BY <1>1, <1>2, BecomeOK

LEMMA RaiseOK ==
  ASSUME ProcsOK, NEW p \in Proc, NEW code \in Codes, Raise(p, code)
  PROVE  ProcsOK'
<1>1. CallOK(Idle(proc[p].q, code, NoFile, NoFile))
  BY IdleOK DEF ProcsOK, CallOK, ProcState
<1> QED
  BY <1>1, BecomeOK DEF Raise

LEMMA AnswerOK ==
  ASSUME ProcsOK, NEW p \in Proc, NEW sha \in Content \cup {NoFile}, Answer(p, sha),
         sha # NoFile => proc[p].ev \in Evidence
  PROVE  ProcsOK'
<1>1. CallOK(Idle(proc[p].q, "OK", proc[p].ev, sha))
  BY IdleOK DEF ProcsOK, CallOK, ProcState, Codes
<1> QED
  BY <1>1, BecomeOK DEF Answer

LEMMA ChangeOK ==
  ASSUME obj \in [Evidence -> ObjState], NEW i \in Evidence, NEW ok, NEW o,
         ok => o \in ObjState, Change(i, ok, o)
  PROVE  obj' \in [Evidence -> ObjState]
  BY DEF Change

LEMMA InitType == Init => TypeInv
<1> SUFFICES ASSUME Init PROVE TypeInv
  OBVIOUS
<1>1. CallOK(Fresh(NoFile))
  BY FreshOK
<1>2. ProcsOK
  BY <1>1 DEF Init, ProcsOK, CallOK
<1>3. DiskOK
  BY DEF Init, DiskOK, QuarState, ObjState
<1> QED
  BY <1>2, <1>3 DEF TypeInv

-----------------------------------------------------------------------------
(* Type correctness, action by action.                                      *)

LEMMA CallType ==
  ASSUME TypeInv, NEW p \in Proc, Call(p)
  PROVE  TypeInv'
<1> USE DEF TypeInv
<1>q. proc[p].q \in Quarantine \cup {NoFile}
  BY DEF ProcsOK, ProcState
<1>1. ASSUME NEW c \in Content, NEW q \in Quarantine, StartIngest(p, c, q)
      PROVE  TypeInv'
  <2>1. CallOK(InCall("i_copy", q, NoFile, c, 0, NoFile))
    BY DEF CallOK, InCall, ProcState, Codes, Labels, IngestLabels, PromoteLabels, HoldLabels,
           DeleteLabels, SeenLabels
  <2>2. ProcsOK'
    BY <1>1, <2>1, BecomeOK DEF StartIngest
  <2> QED
    BY <1>1, <2>2 DEF StartIngest, DiskOK, QuarState
<1>2. ASSUME NEW c \in Content, FindQuarantine(p, c)
      PROVE  TypeInv'
  <2>1. PICK q \in Quarantine \cup {NoFile} : Become(p, Fresh(q))
    BY <1>2 DEF FindQuarantine
  <2>2. ProcsOK'
    BY <2>1, FreshOK, BecomeOK
  <2> QED
    BY <1>2, <2>2 DEF FindQuarantine, DiskOK
<1>3. ASSUME NEW i \in Evidence, NEW c \in Content, NEW r \in Retention, StartPromote(p, i, c, r)
      PROVE  TypeInv'
  <2>1. CallOK(InCall("p_check", proc[p].q, i, c, r, NoFile))
    BY <1>3, <1>q, StartOK, StoreAssumption
       DEF Labels, IngestLabels, PromoteLabels, HoldLabels, DeleteLabels, SeenLabels, StartPromote
  <2>2. ProcsOK'
    BY <1>3, <2>1, BecomeOK DEF StartPromote
  <2> QED
    BY <1>3, <2>2 DEF StartPromote, DiskOK
<1>4. ASSUME NEW i \in Evidence, NEW h \in BOOLEAN, StartHold(p, i, h)
      PROVE  TypeInv'
  <2> DEFINE m == [obj[i].manifest EXCEPT !.hold = h]
             s == InCall("h_chmod", proc[p].q, i, NoFile, 0, m)
  <2>1. CASE Readable(i) /\ Become(p, s)
    <3>1. m \in Manifest
      BY <2>1 DEF Readable, Manifest
    <3> HIDE DEF m
    <3>2. CallOK(s)
      BY <1>q, <3>1
         DEF CallOK, InCall, ProcState, Codes, Labels, IngestLabels, PromoteLabels, HoldLabels,
             DeleteLabels, SeenLabels
    <3>3. ProcsOK'
      BY <2>1, <3>2, BecomeOK DEF m
    <3> QED
      BY <1>4, <3>3 DEF StartHold, DiskOK
  <2>2. CASE Raise(p, ReadError(i))
    <3>1. ProcsOK'
      BY <2>2, RaiseOK DEF ReadError, Codes
    <3> QED
      BY <1>4, <3>1 DEF StartHold, DiskOK
  <2> QED
    BY <1>4, <2>1, <2>2 DEF StartHold
<1>5. ASSUME NEW i \in Evidence, NEW force \in BOOLEAN, StartDelete(p, i, force)
      PROVE  TypeInv'
  <2> DEFINE v == IF Readable(i) THEN DeleteVerdict(obj[i].manifest, force) ELSE ReadError(i)
             s == InCall("d_chmod", proc[p].q, i, NoFile, 0, NoFile)
  <2>1. v \in Codes
    BY DEF DeleteVerdict, ReadError, Codes
  <2>2. CASE Become(p, s)
    <3>1. CallOK(s)
      BY <1>q, StartOK
         DEF Labels, IngestLabels, PromoteLabels, HoldLabels, DeleteLabels, SeenLabels
    <3>2. ProcsOK'
      BY <2>2, <3>1, BecomeOK
    <3> QED
      BY <1>5, <3>2 DEF StartDelete, DiskOK
  <2>3. CASE Raise(p, v)
    <3>1. ProcsOK'
      BY <2>1, <2>3, RaiseOK
    <3> QED
      BY <1>5, <3>1 DEF StartDelete, DiskOK
  <2> QED
    BY <1>5, <2>2, <2>3 DEF StartDelete
<1> QED
  BY <1>1, <1>2, <1>3, <1>4, <1>5 DEF Call

\* The facts about p's locals that its label gives.
LEMMA AtLabel ==
  ASSUME TypeInv, NEW p \in Proc
  PROVE  /\ proc[p] \in ProcState
         /\ proc[p].pc \in {"i_copy", "i_meta", "i_write", "p_check", "p_verify", "p_quar",
              "p_mkdir", "p_exists", "p_reverify", "p_copy", "p_copying", "p_seal", "p_publish",
              "p_writing", "p_lock", "p_clean"} => proc[p].q \in Quarantine /\ proc[p].want \in Content
         /\ proc[p].pc \in {"p_check", "p_verify", "p_quar",
              "p_mkdir", "p_exists", "p_reverify", "p_copy", "p_copying", "p_seal", "p_publish",
              "p_writing", "p_lock", "p_clean", "h_chmod", "h_open", "h_write", "h_lock",
              "d_chmod", "d_unlink", "d_rmdir", "d_manifest"} => proc[p].ev \in Evidence
         /\ proc[p].pc \in {"h_chmod", "h_open", "h_write", "h_lock", "p_verify", "p_reverify",
              "p_publish", "p_writing"} => proc[p].seen \in Manifest
  BY DEF TypeInv, ProcsOK, CallOK, IngestLabels, PromoteLabels, HoldLabels, DeleteLabels, SeenLabels

LEMMA LookForManifestType ==
  ASSUME TypeInv, NEW p \in Proc, NEW here \in PromoteLabels, NEW found \in {"p_verify", "p_reverify"},
         NEW missing, missing => ProcsOK', LookForManifest(p, here, found, missing)
  PROVE  TypeInv'
<1> DEFINE i == proc[p].ev
           s == [proc[p] EXCEPT !.pc = found, !.seen = obj[i].manifest]
<1>1. DiskOK'
  BY DEF LookForManifest, TypeInv, DiskOK
<1>2. CASE missing
  BY <1>1, <1>2 DEF TypeInv
<1>3. CASE Raise(p, "JSON_ERROR")
  BY <1>1, <1>3, RaiseOK DEF TypeInv, Codes
<1>4. CASE Readable(i) /\ Become(p, s)
  <2>0. /\ proc[p] \in ProcState /\ proc[p].q \in Quarantine /\ proc[p].want \in Content
        /\ i \in Evidence /\ obj[i].manifest \in Manifest /\ (proc[p].sha # NoFile => proc[p].id \in Evidence)
    BY <1>4, AtLabel DEF Readable, LookForManifest, PromoteLabels, TypeInv, ProcsOK, CallOK
  <2>1. CallOK(s)
    BY <2>0 DEF CallOK, ProcState, Labels
  <2>2. ProcsOK'
    BY <2>1, <1>4, BecomeOK DEF TypeInv
  <2> QED
    BY <1>1, <2>2 DEF TypeInv
<1> QED
  BY <1>2, <1>3, <1>4 DEF LookForManifest

LEMMA VerifyExistingType ==
  ASSUME TypeInv, NEW p \in Proc, NEW here \in {"p_verify", "p_reverify"}, NEW mismatch \in Codes,
         VerifyExisting(p, here, mismatch)
  PROVE  TypeInv'
<1>1. DiskOK'
  BY DEF VerifyExisting, TypeInv, DiskOK
<1>2. ASSUME NEW code \in Codes, Raise(p, code)
      PROVE  TypeInv'
  BY <1>1, <1>2, RaiseOK DEF TypeInv
<1>3. CASE Answer(p, proc[p].want)
  <2>1. proc[p].want \in Content /\ proc[p].ev \in Evidence
    BY AtLabel DEF VerifyExisting
  <2>2. ProcsOK'
    BY <1>3, <2>1, AnswerOK DEF TypeInv
  <2> QED
    BY <1>1, <2>2 DEF TypeInv
<1> QED
  BY <1>2, <1>3 DEF VerifyExisting, ReadError, Codes

LEMMA OpenManifestType ==
  ASSUME TypeInv, NEW p \in Proc, NEW here \in {"p_publish", "h_open"},
         NEW next \in {"p_writing", "h_write"},
         here = "p_publish" <=> next = "p_writing", OpenManifest(p, here, next)
  PROVE  TypeInv'
<1> DEFINE i == proc[p].ev
           s == [proc[p] EXCEPT !.pc = next, !.linked = TRUE]
<1>1. i \in Evidence
  BY AtLabel DEF OpenManifest
<1>2. [obj[i] EXCEPT !.manifest = Torn, !.mode = "rw"] \in ObjState
  BY <1>1 DEF TypeInv, DiskOK, ObjState
<1>3. DiskOK'
  BY <1>1, <1>2, ChangeOK DEF OpenManifest, TypeInv, DiskOK
<1>4. CASE Raise(p, "OS_ERROR")
  BY <1>3, <1>4, RaiseOK DEF TypeInv, Codes
<1>5. CASE Become(p, s)
  <2>0. /\ proc[p] \in ProcState /\ proc[p].seen \in Manifest
        /\ proc[p].sha # NoFile => proc[p].id \in Evidence
        /\ next = "p_writing" => proc[p].q \in Quarantine /\ proc[p].want \in Content
    BY AtLabel DEF OpenManifest, TypeInv, ProcsOK, CallOK
  <2>1. CallOK(s)
    BY <1>1, <2>0 DEF CallOK, ProcState, Labels, IngestLabels, PromoteLabels
  <2>2. ProcsOK'
    BY <2>1, <1>5, BecomeOK DEF TypeInv
  <2> QED
    BY <1>3, <2>2 DEF TypeInv
<1> QED
  BY <1>4, <1>5 DEF OpenManifest

LEMMA WriteManifestType ==
  ASSUME TypeInv, NEW p \in Proc, NEW here \in {"p_writing", "h_write"},
         NEW next \in {"p_lock", "h_lock"},
         here = "p_writing" <=> next = "p_lock", WriteManifest(p, here, next)
  PROVE  TypeInv'
<1> DEFINE i == proc[p].ev
<1>1. i \in Evidence /\ proc[p].seen \in Manifest
  BY AtLabel DEF WriteManifest
<1>2. Overwritten(obj[i].manifest, proc[p].seen) \in Manifest \cup {Garbled}
  BY <1>1 DEF Overwritten
<1>3. [obj[i] EXCEPT !.manifest = Overwritten(@, proc[p].seen)] \in ObjState
  BY <1>1, <1>2 DEF TypeInv, DiskOK, ObjState
<1>4. DiskOK'
  BY <1>1, <1>3, ChangeOK DEF WriteManifest, TypeInv, DiskOK
<1>5. ProcsOK'
  BY AtLabel, GotoOK DEF WriteManifest, TypeInv, Labels, IngestLabels, PromoteLabels,
     HoldLabels, DeleteLabels, SeenLabels
<1> QED
  BY <1>4, <1>5 DEF TypeInv

\* The new state of p changes its label and some locals and stays well-formed.
LEMMA LocalsOK ==
  ASSUME TypeInv, NEW p \in Proc, NEW s \in ProcState, Become(p, s),
         proc[p].pc \in PromoteLabels, s.pc \in PromoteLabels,
         s.q = proc[p].q, s.ev = proc[p].ev, s.want \in Content,
         s.sha = proc[p].sha, s.id = proc[p].id,
         s.pc \in SeenLabels => s.seen \in Manifest
  PROVE  ProcsOK'
<1>1. CallOK(proc[p])
  BY DEF TypeInv, ProcsOK
<1>2. CallOK(s)
  BY <1>1 DEF CallOK, IngestLabels, PromoteLabels, HoldLabels, DeleteLabels
<1> QED
  BY <1>2, BecomeOK DEF TypeInv

LEMMA IngestType ==
  ASSUME TypeInv, NEW p \in Proc, IngestCopy(p) \/ IngestOpenMeta(p) \/ IngestWriteMeta(p)
  PROVE  TypeInv'
<1>1. /\ proc[p].q \in Quarantine /\ proc[p].want \in Content
  BY AtLabel DEF IngestCopy, IngestOpenMeta, IngestWriteMeta
<1>2. DiskOK'
  BY <1>1 DEF IngestCopy, IngestOpenMeta, IngestWriteMeta, TypeInv, DiskOK, QuarState
<1>3. CASE Answer(p, NoFile)
  BY <1>2, <1>3, AnswerOK DEF TypeInv
<1>4. ASSUME NEW l \in {"i_meta", "i_write"}, Goto(p, l)
      PROVE  ProcsOK'
  BY <1>1, <1>4, GotoOK DEF TypeInv, Labels, IngestLabels, PromoteLabels, HoldLabels,
                            DeleteLabels, SeenLabels
<1> QED
  BY <1>2, <1>3, <1>4 DEF IngestCopy, IngestOpenMeta, IngestWriteMeta, TypeInv

LEMMA PromoteGoto ==
  ASSUME TypeInv, NEW p \in Proc, proc[p].pc \in PromoteLabels,
         NEW l \in {"p_quar", "p_mkdir", "p_exists", "p_copy", "p_seal", "p_lock", "p_clean"},
         Goto(p, l)
  PROVE  ProcsOK'
  BY AtLabel, GotoOK DEF TypeInv, Labels, IngestLabels, PromoteLabels, HoldLabels, DeleteLabels,
                         SeenLabels

LEMMA PromoteReadType ==
  ASSUME TypeInv, NEW p \in Proc,
         \/ PromoteCheck(p) \/ PromoteVerify(p) \/ PromoteQuarantine(p)
         \/ PromoteExists(p) \/ PromoteReverify(p)
  PROVE  TypeInv'
<1>1. CASE PromoteCheck(p)
  <2>1. Goto(p, "p_quar") => ProcsOK'
    BY <1>1, PromoteGoto DEF PromoteCheck, LookForManifest, PromoteLabels
  <2> QED
    BY <1>1, <2>1, LookForManifestType DEF PromoteCheck, PromoteLabels
<1>2. CASE PromoteExists(p)
  <2>1. Raise(p, "EVIDENCE_EXISTS") => ProcsOK'
    BY RaiseOK DEF TypeInv, Codes
  <2> QED
    BY <1>2, <2>1, LookForManifestType DEF PromoteExists, PromoteLabels
<1>3. CASE PromoteVerify(p)
  BY <1>3, VerifyExistingType DEF PromoteVerify, Codes
<1>4. CASE PromoteReverify(p)
  BY <1>4, VerifyExistingType DEF PromoteReverify, Codes
<1>5. CASE PromoteQuarantine(p)
  <2>1. DiskOK'
    BY <1>5 DEF PromoteQuarantine, TypeInv, DiskOK
  <2>2. Goto(p, "p_mkdir") => ProcsOK'
    BY <1>5, PromoteGoto DEF PromoteQuarantine, PromoteLabels
  <2>3. ASSUME NEW code \in {"QUARANTINE_NOT_FOUND", "JSON_ERROR", "CHECKSUM_MISMATCH"}, Raise(p, code)
        PROVE  ProcsOK'
    BY <2>3, RaiseOK DEF TypeInv, Codes
  <2> QED
    BY <1>5, <2>1, <2>2, <2>3 DEF PromoteQuarantine, TypeInv
<1> QED
  BY <1>1, <1>2, <1>3, <1>4, <1>5

LEMMA PromoteWriteType ==
  ASSUME TypeInv, NEW p \in Proc,
         \/ PromoteMkdir(p) \/ PromoteOpenCopy(p) \/ PromoteCopied(p) \/ PromoteSeal(p)
         \/ PromotePublish(p) \/ PromoteWrite(p) \/ PromoteLock(p) \/ PromoteClean(p)
  PROVE  TypeInv'
<1> DEFINE i == proc[p].ev
<1>p. /\ proc[p] \in ProcState /\ proc[p].pc \in PromoteLabels /\ i \in Evidence
      /\ proc[p].want \in Content /\ proc[p].q \in Quarantine /\ obj[i] \in ObjState
      /\ quar[proc[p].q] \in QuarState
  BY AtLabel DEF PromoteLabels, PromoteMkdir, PromoteOpenCopy, PromoteCopied, PromoteSeal,
     PromotePublish, PromoteWrite, PromoteLock, PromoteClean, OpenManifest, WriteManifest,
     TypeInv, DiskOK
<1>r. Raise(p, "OS_ERROR") => ProcsOK'
  BY RaiseOK DEF TypeInv, Codes
<1>1. CASE PromoteMkdir(p)
  <2>1. DiskOK'
    BY <1>1, <1>p, ChangeOK DEF PromoteMkdir, TypeInv, DiskOK, ObjState
  <2> QED
    BY <1>1, <1>p, <2>1, PromoteGoto DEF PromoteMkdir, TypeInv
<1>2. CASE PromoteOpenCopy(p)
  <2> DEFINE b == quar[proc[p].q].blob
             s == [proc[p] EXCEPT !.pc = "p_copying", !.want = b, !.linked = TRUE]
  <2>1. DiskOK'
    BY <1>2, <1>p, ChangeOK DEF PromoteOpenCopy, TypeInv, DiskOK, ObjState
  <2>2. CASE b # NoFile /\ Become(p, s)
    <3>1. b \in Content
      BY <1>p, <2>2 DEF QuarState
    <3>2. /\ s \in ProcState /\ s.pc \in PromoteLabels \ SeenLabels /\ s.q = proc[p].q
          /\ s.ev = proc[p].ev /\ s.want \in Content /\ s.sha = proc[p].sha /\ s.id = proc[p].id
      BY <1>p, <3>1 DEF ProcState, Labels, PromoteLabels, SeenLabels, HoldLabels
    <3> QED
      BY <1>p, <2>1, <2>2, <3>2, LocalsOK DEF TypeInv
  <2> QED
    BY <1>2, <1>r, <2>1, <2>2 DEF PromoteOpenCopy, TypeInv
<1>3. CASE PromoteCopied(p)
  <2>1. DiskOK'
    BY <1>3, <1>p, ChangeOK DEF PromoteCopied, TypeInv, DiskOK, ObjState
  <2> QED
    BY <1>3, <1>p, <2>1, PromoteGoto DEF PromoteCopied, TypeInv
<1>4. CASE PromoteSeal(p)
  <2> DEFINE m == [sha256 |-> proc[p].want, until |-> RetentionUntil(p), hold |-> FALSE]
             s == [proc[p] EXCEPT !.pc = AfterSeal, !.seen = m]
  <2>1. DiskOK'
    BY <1>4, <1>p, ChangeOK DEF PromoteSeal, TypeInv, DiskOK, ObjState
  <2>2. CASE Become(p, s)
    <3>1. m \in Manifest
      BY <1>p DEF Manifest, RetentionUntil, ProcState, TypeInv, DiskOK
    <3> HIDE DEF m
    <3>2. /\ s \in ProcState /\ s.pc \in PromoteLabels /\ s.q = proc[p].q
          /\ s.ev = proc[p].ev /\ s.want \in Content /\ s.sha = proc[p].sha /\ s.id = proc[p].id
          /\ s.seen \in Manifest
      BY <1>p, <3>1 DEF ProcState, Labels, PromoteLabels, AfterSeal
    <3> QED
      BY <1>p, <2>1, <2>2, <3>2, LocalsOK DEF TypeInv
  <2> QED
    BY <1>4, <1>r, <2>1, <2>2 DEF PromoteSeal, TypeInv
<1>5. CASE PromotePublish(p)
  BY <1>5, OpenManifestType DEF PromotePublish
<1>6. CASE PromoteWrite(p)
  BY <1>6, WriteManifestType DEF PromoteWrite
<1>7. CASE PromoteLock(p)
  <2>1. DiskOK'
    BY <1>7, <1>p, ChangeOK DEF PromoteLock, TypeInv, DiskOK, ObjState
  <2> QED
    BY <1>7, <1>p, <1>r, <2>1, PromoteGoto DEF PromoteLock, Try, TypeInv
<1>8. CASE PromoteClean(p)
  <2>1. DiskOK'
    BY <1>8, <1>p DEF PromoteClean, TypeInv, DiskOK, QuarState
  <2>2. UNCHANGED proc => ProcsOK'
    BY DEF TypeInv, ProcsOK
  <2>3. Answer(p, proc[p].want) => ProcsOK'
    BY <1>p, AnswerOK DEF TypeInv
  <2> QED
    BY <1>8, <2>1, <2>2, <2>3 DEF PromoteClean, TypeInv
<1> QED
  BY <1>1, <1>2, <1>3, <1>4, <1>5, <1>6, <1>7, <1>8

LEMMA HoldType ==
  ASSUME TypeInv, NEW p \in Proc, HoldChmod(p) \/ HoldOpen(p) \/ HoldWrite(p) \/ HoldLock(p)
  PROVE  TypeInv'
<1> DEFINE i == proc[p].ev
<1>p. i \in Evidence /\ proc[p].seen \in Manifest /\ obj[i] \in ObjState
  BY AtLabel DEF HoldChmod, HoldOpen, HoldWrite, HoldLock, OpenManifest, WriteManifest, TypeInv,
                 DiskOK
<1>r. Raise(p, "OS_ERROR") => ProcsOK'
  BY RaiseOK DEF TypeInv, Codes
<1>1. CASE HoldOpen(p)
  BY <1>1, OpenManifestType DEF HoldOpen
<1>2. CASE HoldWrite(p)
  BY <1>2, WriteManifestType DEF HoldWrite
<1>3. CASE HoldChmod(p)
  <2>1. DiskOK'
    BY <1>3, <1>p, ChangeOK DEF HoldChmod, ChmodManifest, TypeInv, DiskOK, ObjState
  <2>2. Goto(p, "h_open") => ProcsOK'
    BY <1>p, GotoOK DEF TypeInv, Labels, IngestLabels, PromoteLabels, HoldLabels, DeleteLabels,
                        SeenLabels
  <2> QED
    BY <1>3, <1>r, <2>1, <2>2 DEF HoldChmod, Try, TypeInv
<1>4. CASE HoldLock(p)
  <2>1. DiskOK'
    BY <1>4, <1>p, ChangeOK DEF HoldLock, ChmodManifest, TypeInv, DiskOK, ObjState
  <2>2. Answer(p, proc[p].seen.sha256) => ProcsOK'
    BY <1>p, AnswerOK DEF TypeInv, Manifest
  <2> QED
    BY <1>4, <1>r, <2>1, <2>2 DEF HoldLock, TypeInv
<1> QED
  BY <1>1, <1>2, <1>3, <1>4

LEMMA DeleteType ==
  ASSUME TypeInv, NEW p \in Proc,
         DeleteChmod(p) \/ DeleteUnlink(p) \/ DeleteRmdir(p) \/ DeleteManifest(p)
  PROVE  TypeInv'
<1> DEFINE i == proc[p].ev
<1>p. /\ proc[p] \in ProcState /\ i \in Evidence /\ obj[i] \in ObjState
      /\ proc[p].pc \in DeleteLabels /\ CallOK(proc[p])
  BY AtLabel DEF DeleteChmod, DeleteUnlink, DeleteRmdir, DeleteManifest, TypeInv, DiskOK,
                 DeleteLabels, ProcsOK
<1>d. DiskOK'
  BY <1>p, ChangeOK DEF DeleteChmod, DeleteUnlink, DeleteRmdir, DeleteManifest, TypeInv, DiskOK,
                        ObjState
<1>r. Raise(p, "OS_ERROR") => ProcsOK'
  BY RaiseOK DEF TypeInv, Codes
<1>g. ASSUME NEW l \in {"d_unlink", "d_rmdir", "d_manifest"}, Goto(p, l)
      PROVE  ProcsOK'
  BY <1>p, <1>g, GotoOK DEF TypeInv, Labels, IngestLabels, PromoteLabels, HoldLabels, DeleteLabels,
                            SeenLabels
<1>u. ASSUME NEW s, CallOK(s), NEW w, BecomeUnlinking(p, s, i, w)
      PROVE  ProcsOK'
  <2>1. \A r \in Proc : CallOK(proc[r]) /\ CallOK([proc[r] EXCEPT !.linked = FALSE])
    BY DEF TypeInv, ProcsOK, CallOK, ProcState
  <2>2. \A r \in Proc : CallOK(proc'[r])
    BY <1>u, <2>1 DEF BecomeUnlinking
  <2>3. proc' \in [Proc -> ProcState]
    BY <1>u, <2>2 DEF BecomeUnlinking, CallOK
  <2> QED
    BY <2>2, <2>3 DEF ProcsOK
<1>1. CASE DeleteChmod(p)
  BY <1>1, <1>d, <1>r, <1>g DEF DeleteChmod, Try, TypeInv
<1>2. CASE DeleteUnlink(p)
  <2> DEFINE s == [proc[p] EXCEPT !.pc = "d_rmdir"]
  <2>1. CallOK(s)
    BY <1>p DEF CallOK, ProcState, Labels, IngestLabels, PromoteLabels, HoldLabels, DeleteLabels,
                SeenLabels
  <2>2. BecomeUnlinking(p, s, i, {"p_copying"}) => ProcsOK'
    BY <1>u, <2>1
  <2> QED
    BY <1>2, <1>d, <1>r, <1>g, <2>2 DEF DeleteUnlink, TypeInv
<1>3. CASE DeleteRmdir(p)
  BY <1>3, <1>d, <1>r, <1>g DEF DeleteRmdir, Try, TypeInv
<1>4. CASE DeleteManifest(p)
  <2>1. CallOK(Idle(proc[p].q, "OK", i, NoFile))
    BY <1>p, IdleOK DEF ProcState, Codes
  <2> QED
    BY <1>4, <1>d, <1>u, <2>1 DEF DeleteManifest, TypeInv
<1> QED
  BY <1>1, <1>2, <1>3, <1>4

LEMMA NextType == TypeInv /\ [Next]_vars => TypeInv'
<1> SUFFICES ASSUME TypeInv, [Next]_vars PROVE TypeInv'
  OBVIOUS
<1>1. CASE UNCHANGED vars
  BY <1>1 DEF vars, TypeInv, DiskOK, ProcsOK
<1>2. CASE Tick
  BY <1>2 DEF Tick, TypeInv, DiskOK, ProcsOK
<1>3. ASSUME NEW p \in Proc, Crash(p) PROVE TypeInv'
  <2>1. ProcsOK'
    BY <1>3, FreshOK, BecomeOK DEF Crash, TypeInv
  <2> QED
    BY <1>3, <2>1 DEF Crash, TypeInv, DiskOK
<1>4. ASSUME NEW p \in Proc, Step(p) PROVE TypeInv'
  BY <1>4, IngestType, PromoteReadType, PromoteWriteType, HoldType, DeleteType DEF Step
<1> QED
  BY <1>1, <1>2, <1>3, <1>4, CallType DEF Next

\* Every file and every local of the store keeps its shape, whatever processes,
\* crashes and deletions interleave (all of evidence_store.py).
THEOREM TypeCorrect == Spec => []TypeOK
<1>1. TypeInv => TypeOK
  BY DEF TypeInv, DiskOK, ProcsOK, TypeOK
<1> QED
  BY <1>1, InitType, NextType, PTL DEF Spec

-----------------------------------------------------------------------------
(* While nothing is deleted the evidence store is safe.                     *)

Writers == {"p_copy", "p_copying", "p_seal", "p_publish"}
Behind  == {"p_writing", "p_lock", "p_clean"}
Readers == HoldLabels \cup {"p_verify", "p_reverify"}

NoDeleter == \A p \in Proc : proc[p].pc \notin DeleteLabels

\* Nothing lies in a directory that was not made, and whatever manifest file is
\* there stands beside complete bytes, which it names if it can be read.
ObjOK(o) ==
  /\ o.dir = "none" => o.original = NoFile /\ o.manifest = NoFile
  /\ o.manifest # NoFile => o.original \in Content
  /\ o.manifest \in Manifest => o.manifest.sha256 = o.original

ObjInv == \A i \in Evidence : ObjOK(obj[i])

\* What a process in state s has established about the object o it works on.
StepOK(s, o) ==
  /\ s.pc \in Writers => o.dir # "none" /\ o.manifest = NoFile
  /\ s.pc = "p_copy" => o.original = NoFile
  /\ s.pc = "p_copying" => o.original = Torn /\ s.linked
  /\ s.pc \in {"p_seal", "p_publish"} \cup Behind => o.original = s.want
  /\ s.pc \in {"p_publish", "p_writing"} => s.seen.sha256 = s.want
  /\ s.pc \in Behind \cup Readers => o.manifest # NoFile
  /\ s.pc \in Readers => o.original = s.seen.sha256

StepInv == \A p \in Proc : StepOK(proc[p], obj[proc[p].ev])

\* The winner of mkdir works on the object alone.
OneWriter ==
  \A p, r \in Proc : proc[p].pc \in Writers /\ proc[r].pc \in Writers
                       /\ proc[p].ev = proc[r].ev => p = r

\* Quarantine: ids are handed out once, an ingesting process is alone with its
\* directory, and what a promoter staged for copying is the digest it checked.
QuarInv ==
  /\ \A q \in Quarantine : ~quar[q].used => quar[q].blob = NoFile /\ quar[q].meta = NoFile
  /\ \A p \in Proc : proc[p].q # NoFile => quar[proc[p].q].used
  /\ \A p, r \in Proc : proc[p].pc \in IngestLabels /\ p # r => proc[r].q # proc[p].q
  /\ \A p \in Proc : proc[p].pc \in IngestLabels => quar[proc[p].q].meta \notin Content
  /\ \A p \in Proc : proc[p].pc = "i_copy" => quar[proc[p].q].blob = NoFile
  /\ \A p \in Proc : proc[p].pc \in {"i_meta", "i_write"} => quar[proc[p].q].blob = proc[p].want
  /\ \A p \in Proc : proc[p].pc \in {"p_mkdir"} \cup Writers \cup Behind
                       => quar[proc[p].q].blob \in {proc[p].want, NoFile}

SafeInv == ObjInv /\ StepInv /\ OneWriter /\ RepliesHold

WormInv == TypeInv /\ NoDeleter /\ SafeInv /\ QuarInv /\ NoEvidenceLoss

\* A change of object i from o to n that no other process can be hurt by.
Harmless(o, n) ==
  /\ o.manifest # NoFile => n.manifest # NoFile
  /\ o.original \in Content => n.original = o.original

-----------------------------------------------------------------------------
(* General lemmas: one process moves to state s, and perhaps one object      *)
(* changes.                                                                  *)

LEMMA QuietStep ==
  ASSUME TypeInv, NoDeleter, SafeInv, NEW p \in Proc, NEW s, CallOK(s), Become(p, s),
         UNCHANGED obj,
         s.pc \notin DeleteLabels, StepOK(s, obj[s.ev]),
         s.pc \in Writers => proc[p].pc \in Writers /\ s.ev = proc[p].ev,
         s.sha # NoFile => obj[s.id].original = s.sha
  PROVE  NoDeleter' /\ SafeInv'
<1>1. proc'[p] = s /\ \A r \in Proc \ {p} : proc'[r] = proc[r]
  BY DEF TypeInv, ProcsOK, Become
<1>2. NoDeleter'
  BY <1>1 DEF NoDeleter
<1>3. ObjInv'
  BY DEF SafeInv, ObjInv
<1>4. StepInv'
  BY <1>1 DEF SafeInv, StepInv
<1>5. OneWriter'
  BY <1>1 DEF SafeInv, OneWriter
<1>6. RepliesHold'
  BY <1>1 DEF SafeInv, RepliesHold
<1> QED
  BY <1>2, <1>3, <1>4, <1>5, <1>6 DEF SafeInv

LEMMA ObjectStep ==
  ASSUME TypeInv, NoDeleter, SafeInv, NEW p \in Proc, NEW s, CallOK(s), Become(p, s),
         NEW i \in Evidence, NEW o, obj' = [obj EXCEPT ![i] = o], proc[p].ev = i,
         \/ obj[i].dir = "none" \/ obj[i].manifest # NoFile \/ proc[p].pc \in Writers,
         Harmless(obj[i], o), ObjOK(o),
         s.pc \notin DeleteLabels, s.ev \in {i, NoFile}, s.ev = i => StepOK(s, o),
         s.ev = NoFile => s.pc = "idle",
         s.pc \in Writers => proc[p].pc \in Writers \/ obj[i].dir = "none",
         \/ s.sha = proc[p].sha /\ s.id = proc[p].id
         \/ s.sha # NoFile => s.id = i /\ o.original = s.sha
  PROVE  NoDeleter' /\ SafeInv'
<1>1. proc'[p] = s /\ \A r \in Proc \ {p} : proc'[r] = proc[r]
  BY DEF TypeInv, ProcsOK, Become
<1>2. obj'[i] = o /\ \A j : j # i => obj'[j] = obj[j]
  BY DEF TypeInv, DiskOK
<1>3. NoDeleter'
  BY <1>1 DEF NoDeleter
<1>4. ObjInv'
  BY <1>2 DEF SafeInv, ObjInv
<1>5. ASSUME NEW r \in Proc, r # p, proc[r].ev = i
      PROVE  StepOK(proc[r], o) /\ (obj[i].dir = "none" => proc[r].pc \notin Writers)
  <2>1. StepOK(proc[r], obj[i]) /\ StepOK(proc[p], obj[i]) /\ ObjOK(obj[i])
    BY <1>5 DEF SafeInv, StepInv, ObjInv
  <2>2. CASE proc[r].pc \in Writers
    <3>1. obj[i].dir # "none" /\ obj[i].manifest = NoFile
      BY <2>1, <2>2 DEF StepOK
    <3> QED
      BY <1>5, <2>2, <3>1 DEF SafeInv, OneWriter
  <2>3. CASE proc[r].pc \in Behind \cup Readers
    <3>1. obj[i].manifest # NoFile /\ obj[i].original \in Content
      BY <2>1, <2>3 DEF StepOK, ObjOK
    <3>2. o.manifest # NoFile /\ o.original = obj[i].original
      BY <3>1 DEF Harmless
    <3>3. proc[r].pc \notin Writers
      BY <2>3 DEF Writers, Behind, Readers, HoldLabels
    <3> QED
      BY <2>1, <3>2, <3>3 DEF StepOK, Writers
  <2>4. CASE proc[r].pc \notin Writers \cup Behind \cup Readers
    BY <2>1, <2>4 DEF StepOK, Writers, Behind
  <2> QED
    BY <2>2, <2>3, <2>4
<1>6. StepInv'
  <2> SUFFICES ASSUME NEW r \in Proc PROVE StepOK(proc'[r], obj'[proc'[r].ev])
    BY DEF StepInv
  <2>1. CASE r = p /\ s.ev = i
    BY <1>1, <1>2, <2>1
  <2>2. CASE r = p /\ s.ev = NoFile
    BY <1>1, <2>2 DEF StepOK, Writers, Behind, Readers, HoldLabels
  <2>3. CASE r # p /\ proc[r].ev = i
    BY <1>1, <1>2, <1>5, <2>3
  <2>4. CASE r # p /\ proc[r].ev # i
    BY <1>1, <1>2, <2>4 DEF SafeInv, StepInv
  <2> QED
    BY <2>1, <2>2, <2>3, <2>4
<1>7. OneWriter'
  <2> SUFFICES ASSUME NEW r \in Proc, r # p, proc[r].pc \in Writers, s.pc \in Writers,
                      proc[r].ev = s.ev
               PROVE  FALSE
    BY <1>1 DEF SafeInv, OneWriter
  <2>1. s.ev = i
    BY DEF Writers
  <2> QED
    BY <1>5, <2>1 DEF SafeInv, OneWriter
<1>8. RepliesHold'
  <2> SUFFICES ASSUME NEW r \in Proc, proc'[r].sha # NoFile
               PROVE  obj'[proc'[r].id].original = proc'[r].sha
    BY DEF RepliesHold
  <2>1. CASE r = p /\ (s.sha # NoFile => s.id = i /\ o.original = s.sha)
    BY <1>1, <1>2, <2>1
  <2>2. CASE proc'[r].sha = proc[r].sha /\ proc'[r].id = proc[r].id
    <3>1. proc[r].sha \in Content
      BY <2>2 DEF TypeInv, ProcsOK, ProcState
    <3>2. obj[proc[r].id].original = proc[r].sha
      BY <2>2 DEF SafeInv, RepliesHold
    <3> QED
      BY <1>2, <2>2, <3>1, <3>2 DEF Harmless
  <2> QED
    BY <1>1, <2>1, <2>2
<1> QED
  BY <1>3, <1>4, <1>6, <1>7, <1>8 DEF SafeInv

\* A process that answers or raises and leaves the objects alone.
LEMMA IdleQuiet ==
  ASSUME TypeInv, NoDeleter, SafeInv, NEW p \in Proc, NEW q, NEW code, NEW id, NEW sha,
         Become(p, Idle(q, code, id, sha)), CallOK(Idle(q, code, id, sha)), UNCHANGED obj,
         sha # NoFile => obj[id].original = sha
  PROVE  NoDeleter' /\ SafeInv'
<1> DEFINE s == Idle(q, code, id, sha)
<1>1. s.pc = "idle" /\ s.sha = sha /\ s.id = id
  BY DEF Idle
<1>2. StepOK(s, obj[s.ev]) /\ s.pc \notin DeleteLabels \cup Writers
  BY <1>1 DEF StepOK, Writers, Behind, Readers, HoldLabels, DeleteLabels
<1> HIDE DEF s
<1> QED
  BY <1>1, <1>2, QuietStep DEF s

LEMMA RaiseQuiet ==
  ASSUME TypeInv, NoDeleter, SafeInv, NEW p \in Proc, NEW code \in Codes, Raise(p, code),
         UNCHANGED obj
  PROVE  NoDeleter' /\ SafeInv'
<1>1. CallOK(Idle(proc[p].q, code, NoFile, NoFile))
  BY IdleOK DEF TypeInv, ProcsOK, ProcState
<1> QED
  BY <1>1, IdleQuiet DEF Raise

LEMMA AnswerQuiet ==
  ASSUME TypeInv, NoDeleter, SafeInv, NEW p \in Proc, NEW sha \in Content \cup {NoFile},
         Answer(p, sha), UNCHANGED obj, sha # NoFile => proc[p].ev \in Evidence,
         sha # NoFile => obj[proc[p].ev].original = sha
  PROVE  NoDeleter' /\ SafeInv'
<1>1. CallOK(Idle(proc[p].q, "OK", proc[p].ev, sha))
  BY IdleOK DEF TypeInv, ProcsOK, ProcState, Codes
<1> QED
  BY <1>1, IdleQuiet DEF Answer

\* Moving on to a label that claims nothing about the object.
LEMMA GotoQuiet ==
  ASSUME TypeInv, NoDeleter, SafeInv, NEW p \in Proc, NEW l \in Labels, Goto(p, l),
         ProcsOK', UNCHANGED obj,
         l \notin DeleteLabels \cup Writers \cup Behind \cup Readers
  PROVE  NoDeleter' /\ SafeInv'
<1> DEFINE s == [proc[p] EXCEPT !.pc = l]
<1>1. s.pc = l /\ s.sha = proc[p].sha /\ s.id = proc[p].id /\ Become(p, s)
  BY DEF TypeInv, ProcsOK, ProcState, Goto, Become
<1>2. CallOK(s)
  BY <1>1 DEF ProcsOK, Become, TypeInv
<1>3. StepOK(s, obj[s.ev])
  BY <1>1 DEF StepOK, Writers, Behind
<1>4. s.sha # NoFile => obj[s.id].original = s.sha
  BY <1>1 DEF SafeInv, RepliesHold
<1> HIDE DEF s
<1> QED
  BY <1>1, <1>2, <1>3, <1>4, QuietStep

LEMMA CallSafe ==
  ASSUME WormInv, TypeInv', "delete" \notin Ops, NEW p \in Proc, Call(p)
  PROVE  NoDeleter' /\ SafeInv'
<1> USE DEF WormInv
<1>i. ASSUME NEW l \in {"i_copy", "p_check"}, NEW q, NEW i, NEW c, NEW r,
             Become(p, InCall(l, q, i, c, r, NoFile)), UNCHANGED obj
      PROVE  NoDeleter' /\ SafeInv'
  <2> DEFINE s == InCall(l, q, i, c, r, NoFile)
  <2>1. s.pc = l /\ s.sha = NoFile /\ StepOK(s, obj[s.ev])
    BY DEF InCall, StepOK, Writers, Behind, Readers, HoldLabels
  <2>2. CallOK(s)
    BY <1>i DEF TypeInv, ProcsOK, Become
  <2>3. l \notin DeleteLabels \cup Writers
    BY DEF DeleteLabels, Writers
  <2> HIDE DEF s
  <2> QED
    BY <1>i, <2>1, <2>2, <2>3, QuietStep DEF s
<1>1. ASSUME NEW c \in Content, NEW q \in Quarantine, StartIngest(p, c, q)
      PROVE  NoDeleter' /\ SafeInv'
  BY <1>1, <1>i DEF StartIngest
<1>2. ASSUME NEW c \in Content, FindQuarantine(p, c)
      PROVE  NoDeleter' /\ SafeInv'
  <2>1. PICK q \in Quarantine \cup {NoFile} : Become(p, Fresh(q))
    BY <1>2 DEF FindQuarantine
  <2>2. UNCHANGED obj
    BY <1>2 DEF FindQuarantine
  <2> QED
    BY <2>1, <2>2, FreshOK, IdleQuiet DEF Fresh
<1>3. ASSUME NEW i \in Evidence, NEW c \in Content, NEW r \in Retention, StartPromote(p, i, c, r)
      PROVE  NoDeleter' /\ SafeInv'
  BY <1>3, <1>i DEF StartPromote
<1>4. ASSUME NEW i \in Evidence, NEW h \in BOOLEAN, StartHold(p, i, h)
      PROVE  NoDeleter' /\ SafeInv'
  <2> DEFINE m == [obj[i].manifest EXCEPT !.hold = h]
             s == InCall("h_chmod", proc[p].q, i, NoFile, 0, m)
  <2>1. CASE Readable(i) /\ Become(p, s)
    <3>1. m \in Manifest /\ m.sha256 = obj[i].manifest.sha256
      BY <2>1 DEF Readable, Manifest
    <3>2. obj[i].manifest # NoFile /\ obj[i].original = m.sha256
      BY <2>1, <3>1, StoreAssumption DEF Readable, SafeInv, ObjInv, ObjOK
    <3> HIDE DEF m
    <3>3. s.pc = "h_chmod" /\ s.sha = NoFile /\ s.ev = i /\ s.seen = m
      BY DEF InCall
    <3>4. CallOK(s)
      BY <2>1 DEF TypeInv, ProcsOK, Become
    <3>5. StepOK(s, obj[i])
      BY <3>2, <3>3 DEF StepOK, Writers, Behind, Readers, HoldLabels
    <3>6. s.pc \notin DeleteLabels \cup Writers
      BY <3>3 DEF DeleteLabels, Writers
    <3>7. UNCHANGED obj
      BY <1>4 DEF StartHold
    <3> HIDE DEF s
    <3> QED
      BY <2>1, <3>3, <3>4, <3>5, <3>6, <3>7, QuietStep
  <2>2. CASE Raise(p, ReadError(i))
    BY <1>4, <2>2, RaiseQuiet DEF StartHold, ReadError, Codes
  <2> QED
    BY <1>4, <2>1, <2>2 DEF StartHold
<1> QED
  BY <1>1, <1>2, <1>3, <1>4 DEF Call, StartDelete

\* An object that can be read holds what its manifest names.
LEMMA ReadableIntact ==
  ASSUME SafeInv, NEW i \in Evidence, Readable(i)
  PROVE  /\ obj[i].manifest # NoFile
         /\ obj[i].original = obj[i].manifest.sha256
         /\ obj[i].original \in Content
  BY StoreAssumption DEF SafeInv, ObjInv, ObjOK, Readable

LEMMA LookForManifestSafe ==
  ASSUME WormInv, TypeInv', NEW p \in Proc, NEW here, NEW found \in {"p_verify", "p_reverify"},
         NEW missing, missing => NoDeleter' /\ SafeInv', LookForManifest(p, here, found, missing),
         proc[p].ev \in Evidence
  PROVE  NoDeleter' /\ SafeInv'
<1> DEFINE i == proc[p].ev
           s == [proc[p] EXCEPT !.pc = found, !.seen = obj[i].manifest]
<1> USE DEF WormInv
<1>1. CASE Raise(p, "JSON_ERROR")
  BY <1>1, RaiseQuiet DEF LookForManifest, Codes
<1>2. CASE Readable(i) /\ Become(p, s)
  <2>1. /\ s.pc = found /\ s.seen = obj[i].manifest /\ s.ev = i /\ s.sha = proc[p].sha
        /\ s.id = proc[p].id
    BY DEF TypeInv, ProcsOK, ProcState
  <2>2. CallOK(s)
    BY <1>2 DEF TypeInv, ProcsOK, Become
  <2>3. StepOK(s, obj[i])
    BY <1>2, <2>1, ReadableIntact DEF StepOK, Writers, Behind
  <2>4. s.pc \notin DeleteLabels \cup Writers
    BY <2>1 DEF DeleteLabels, Writers
  <2>5. s.sha # NoFile => obj[s.id].original = s.sha
    BY <2>1 DEF SafeInv, RepliesHold
  <2>6. UNCHANGED obj
    BY DEF LookForManifest
  <2> HIDE DEF s
  <2> QED
    BY <1>2, <2>1, <2>2, <2>3, <2>4, <2>5, <2>6, QuietStep
<1> QED
  BY <1>1, <1>2 DEF LookForManifest

LEMMA VerifyExistingSafe ==
  ASSUME WormInv, NEW p \in Proc, NEW here \in {"p_verify", "p_reverify"}, NEW mismatch \in Codes,
         VerifyExisting(p, here, mismatch)
  PROVE  NoDeleter' /\ SafeInv'
<1> DEFINE i == proc[p].ev
<1> USE DEF WormInv
<1>1. ASSUME NEW code \in Codes, Raise(p, code) PROVE NoDeleter' /\ SafeInv'
  BY <1>1, RaiseQuiet DEF VerifyExisting
<1>2. CASE SameEvidence(p, obj[i]) /\ Answer(p, proc[p].want)
  <2>1. i \in Evidence /\ proc[p].want \in Content
    BY AtLabel DEF VerifyExisting
  <2>2. obj[i].original = proc[p].want
    BY <1>2 DEF VerifyExisting, SameEvidence, SafeInv, StepInv, StepOK, Readers
  <2> QED
    BY <1>2, <2>1, <2>2, AnswerQuiet DEF VerifyExisting
<1> QED
  BY <1>1, <1>2 DEF VerifyExisting, ReadError, Codes

LEMMA ReadStepSafe ==
  ASSUME WormInv, TypeInv', NEW p \in Proc,
         \/ IngestCopy(p) \/ IngestOpenMeta(p) \/ IngestWriteMeta(p)
         \/ PromoteCheck(p) \/ PromoteVerify(p) \/ PromoteQuarantine(p)
         \/ PromoteExists(p) \/ PromoteReverify(p) \/ PromoteClean(p)
  PROVE  NoDeleter' /\ SafeInv'
<1> USE DEF WormInv
<1>g. ASSUME NEW l \in {"i_meta", "i_write", "p_quar", "p_mkdir"}, Goto(p, l), UNCHANGED obj
      PROVE  NoDeleter' /\ SafeInv'
  <2>1. l \in Labels /\ l \notin DeleteLabels \cup Writers \cup Behind \cup Readers
    BY DEF Labels, DeleteLabels, Writers, Behind, Readers, HoldLabels
  <2> QED
    BY <1>g, <2>1, GotoQuiet DEF TypeInv
<1>1. CASE IngestCopy(p) \/ IngestOpenMeta(p)
  BY <1>1, <1>g DEF IngestCopy, IngestOpenMeta
<1>2. CASE IngestWriteMeta(p)
  BY <1>2, AnswerQuiet DEF IngestWriteMeta
<1>3. CASE PromoteCheck(p)
  <2>1. proc[p].ev \in Evidence /\ UNCHANGED obj
    BY <1>3, AtLabel DEF PromoteCheck, LookForManifest
  <2> QED
    BY <1>3, <1>g, <2>1, LookForManifestSafe DEF PromoteCheck
<1>4. CASE PromoteExists(p)
  <2>1. proc[p].ev \in Evidence /\ UNCHANGED obj
    BY <1>4, AtLabel DEF PromoteExists, LookForManifest
  <2>2. Raise(p, "EVIDENCE_EXISTS") => NoDeleter' /\ SafeInv'
    BY <2>1, RaiseQuiet DEF Codes
  <2> QED
    BY <1>4, <2>1, <2>2, LookForManifestSafe DEF PromoteExists
<1>5. CASE PromoteVerify(p) \/ PromoteReverify(p)
  BY <1>5, VerifyExistingSafe DEF PromoteVerify, PromoteReverify, Codes
<1>6. CASE PromoteQuarantine(p)
  <2>1. ASSUME NEW code \in {"QUARANTINE_NOT_FOUND", "JSON_ERROR", "CHECKSUM_MISMATCH"}, Raise(p, code)
        PROVE  NoDeleter' /\ SafeInv'
    BY <1>6, <2>1, RaiseQuiet DEF PromoteQuarantine, Codes
  <2> QED
    BY <1>6, <1>g, <2>1 DEF PromoteQuarantine
<1>7. CASE PromoteClean(p)
  <2>1. CASE UNCHANGED proc
    BY <1>7, <2>1 DEF PromoteClean, NoDeleter, SafeInv, ObjInv, StepInv, OneWriter, RepliesHold
  <2>2. CASE Answer(p, proc[p].want)
    <3>1. /\ proc[p].ev \in Evidence /\ proc[p].want \in Content
          /\ obj[proc[p].ev].original = proc[p].want
      BY <1>7, AtLabel DEF PromoteClean, SafeInv, StepInv, StepOK, Behind
    <3> QED
      BY <1>7, <2>2, <3>1, AnswerQuiet DEF PromoteClean
  <2> QED
    BY <1>7, <2>1, <2>2 DEF PromoteClean
<1> QED
  BY <1>1, <1>2, <1>3, <1>4, <1>5, <1>6, <1>7

\* A system call that fails leaves the objects alone.
LEMMA NoChange ==
  ASSUME TypeInv, NEW i \in Evidence, NEW ok, ~ok, NEW o, Change(i, ok, o)
  PROVE  UNCHANGED obj
  BY DEF Change, TypeInv, DiskOK

\* Moving on to label l after a change of the object p works on.
LEMMA GotoObject ==
  ASSUME TypeInv, ProcsOK', NoDeleter, SafeInv, NEW p \in Proc, NEW i \in Evidence, NEW o,
         NEW l \in PromoteLabels \cup HoldLabels, Goto(p, l), Change(i, TRUE, o), proc[p].ev = i,
         \/ obj[i].dir = "none" \/ obj[i].manifest # NoFile \/ proc[p].pc \in Writers,
         Harmless(obj[i], o), ObjOK(o), StepOK([proc[p] EXCEPT !.pc = l], o),
         l \in Writers => proc[p].pc \in Writers \/ obj[i].dir = "none"
  PROVE  NoDeleter' /\ SafeInv'
<1> DEFINE s == [proc[p] EXCEPT !.pc = l]
<1>1. s.pc = l /\ s.ev = i /\ s.sha = proc[p].sha /\ s.id = proc[p].id /\ Become(p, s)
  BY DEF TypeInv, ProcsOK, ProcState, Goto, Become
<1>2. CallOK(s)
  BY <1>1 DEF ProcsOK, Become, TypeInv
<1>3. obj' = [obj EXCEPT ![i] = o]
  BY DEF Change
<1>4. l \notin DeleteLabels /\ l # "idle"
  BY DEF DeleteLabels, PromoteLabels, HoldLabels
<1>5. StepOK(s, o)
  OBVIOUS
<1>6. i # NoFile
  BY StoreAssumption
<1> HIDE DEF s
<1> QED
  BY <1>1, <1>2, <1>3, <1>4, <1>5, <1>6, ObjectStep

LEMMA WriteStepSafe ==
  ASSUME WormInv, TypeInv', NEW p \in Proc,
         \/ PromoteMkdir(p) \/ PromoteOpenCopy(p) \/ PromoteCopied(p) \/ PromoteSeal(p)
         \/ PromotePublish(p) \/ PromoteWrite(p) \/ PromoteLock(p)
         \/ HoldChmod(p) \/ HoldOpen(p) \/ HoldWrite(p) \/ HoldLock(p)
  PROVE  NoDeleter' /\ SafeInv'
<1> USE DEF WormInv
<1> DEFINE i == proc[p].ev
<1>p. /\ i \in Evidence /\ i # NoFile /\ obj[i] \in ObjState /\ proc[p] \in ProcState
      /\ ObjOK(obj[i]) /\ StepOK(proc[p], obj[i])
  <2>1. i \in Evidence
    BY AtLabel DEF PromoteMkdir, PromoteOpenCopy, PromoteCopied, PromoteSeal, PromotePublish,
       PromoteWrite, PromoteLock, HoldChmod, HoldOpen, HoldWrite, HoldLock, OpenManifest,
       WriteManifest
  <2> QED
    BY <2>1, StoreAssumption DEF TypeInv, DiskOK, ProcsOK, SafeInv, ObjInv, StepInv
<1>r. ASSUME Raise(p, "OS_ERROR"), UNCHANGED obj PROVE NoDeleter' /\ SafeInv'
  BY <1>r, RaiseQuiet DEF Codes
<1>1. CASE PromoteMkdir(p)
  <2>1. CASE MkdirSucceeds(i)
    <3> DEFINE o == [obj[i] EXCEPT !.dir = "rw"]
    <3>1. o.dir = "rw" /\ o.original = NoFile /\ o.manifest = NoFile
      BY <1>p, <2>1 DEF MkdirSucceeds, ObjOK, ObjState
    <3>2. Change(i, TRUE, o) /\ Goto(p, "p_copy")
      BY <1>1, <2>1 DEF PromoteMkdir, Change
    <3>3. StepOK([proc[p] EXCEPT !.pc = "p_copy"], o)
      BY <1>p, <3>1 DEF StepOK, ProcState, Writers, Behind, Readers, HoldLabels
    <3>4. ObjOK(o) /\ Harmless(obj[i], o)
      BY <1>p, <2>1, <3>1, StoreAssumption DEF ObjOK, Harmless, MkdirSucceeds
    <3> HIDE DEF o
    <3> QED
      BY <1>p, <2>1, <3>2, <3>3, <3>4, GotoObject DEF MkdirSucceeds, PromoteLabels, TypeInv
  <2>2. CASE ~MkdirSucceeds(i)
    <3>1. UNCHANGED obj /\ Goto(p, "p_exists")
      BY <1>1, <1>p, <2>2, NoChange DEF PromoteMkdir
    <3>2. "p_exists" \in Labels \ (DeleteLabels \cup Writers \cup Behind \cup Readers)
      BY DEF Labels, DeleteLabels, Writers, Behind, Readers, HoldLabels
    <3> QED
      BY <3>1, <3>2, GotoQuiet DEF TypeInv
  <2> QED
    BY <2>1, <2>2
<1>2. CASE PromoteOpenCopy(p)
  <2> DEFINE b == quar[proc[p].q].blob
             ok == b # NoFile /\ obj[i].dir # "none" /\ ~obj[i].sealed
             o == [obj[i] EXCEPT !.original = Torn]
             s == [proc[p] EXCEPT !.pc = "p_copying", !.want = b, !.linked = TRUE]
  <2>1. CASE ok /\ Become(p, s)
    <3>1. proc[p].pc = "p_copy" /\ obj[i].original = NoFile /\ obj[i].manifest = NoFile
      BY <1>2, <1>p DEF PromoteOpenCopy, StepOK, Writers
    <3>2. o.original = Torn /\ o.manifest = NoFile /\ o.dir = obj[i].dir
      BY <1>p, <3>1 DEF ObjState
    <3>3. /\ s.pc = "p_copying" /\ s.ev = i /\ s.linked /\ s.sha = proc[p].sha
          /\ s.id = proc[p].id
      BY <1>p DEF ProcState
    <3>4. StepOK(s, o)
      BY <2>1, <3>2, <3>3 DEF StepOK, Writers, Behind, Readers, HoldLabels
    <3>5. ObjOK(o) /\ Harmless(obj[i], o)
      BY <2>1, <3>1, <3>2, StoreAssumption DEF ObjOK, Harmless
    <3>6. obj' = [obj EXCEPT ![i] = o]
      BY <1>2, <2>1 DEF PromoteOpenCopy, Change
    <3>7. CallOK(s)
      BY <2>1 DEF TypeInv, ProcsOK, Become
    <3>8. s.pc \notin DeleteLabels /\ proc[p].pc \in Writers
      BY <3>1, <3>3 DEF DeleteLabels, Writers
    <3> HIDE DEF s, o
    <3> QED
      BY <1>p, <2>1, <3>3, <3>4, <3>5, <3>6, <3>7, <3>8, ObjectStep
  <2>2. CASE ~ok /\ Raise(p, "OS_ERROR")
    BY <1>2, <1>p, <1>r, <2>2, NoChange DEF PromoteOpenCopy
  <2> QED
    BY <1>2, <2>1, <2>2 DEF PromoteOpenCopy
<1>3. CASE PromoteCopied(p)
  <2> DEFINE o == [obj[i] EXCEPT !.original = proc[p].want]
  <2>1. /\ proc[p].pc = "p_copying" /\ obj[i].original = Torn /\ obj[i].manifest = NoFile
        /\ proc[p].linked /\ obj[i].dir # "none" /\ proc[p].want \in Content
    BY <1>3, <1>p, AtLabel DEF PromoteCopied, StepOK, Writers
  <2>2. o.original = proc[p].want /\ o.manifest = NoFile /\ o.dir # "none"
    BY <1>p, <2>1 DEF ObjState
  <2>3. Change(i, TRUE, o) /\ Goto(p, "p_seal")
    BY <1>3, <2>1 DEF PromoteCopied, Change
  <2>4. StepOK([proc[p] EXCEPT !.pc = "p_seal"], o)
    BY <1>p, <2>2 DEF StepOK, ProcState, Writers, Behind, Readers, HoldLabels
  <2>5. ObjOK(o) /\ Harmless(obj[i], o)
    BY <2>1, <2>2, StoreAssumption DEF ObjOK, Harmless
  <2>6. proc[p].pc \in Writers /\ "p_seal" \in PromoteLabels
    BY <2>1 DEF Writers, PromoteLabels
  <2> HIDE DEF o
  <2> QED
    BY <1>p, <2>3, <2>4, <2>5, <2>6, GotoObject DEF TypeInv
<1>4. CASE PromoteSeal(p)
  <2> DEFINE m == [sha256 |-> proc[p].want, until |-> RetentionUntil(p), hold |-> FALSE]
             s == [proc[p] EXCEPT !.pc = AfterSeal, !.seen = m]
             o == [obj[i] EXCEPT !.sealed = TRUE, !.dir = "rw"]
  <2>1. /\ proc[p].pc = "p_seal" /\ obj[i].original = proc[p].want /\ obj[i].manifest = NoFile
        /\ proc[p].want \in Content
    BY <1>4, <1>p, AtLabel DEF PromoteSeal, StepOK, Writers
  <2>2. o.original = proc[p].want /\ o.manifest = NoFile /\ o.dir = "rw"
    BY <1>p, <2>1 DEF ObjState
  <2>3. obj[i].original # NoFile
    BY <2>1, StoreAssumption
  <2>4. Become(p, s) /\ obj' = [obj EXCEPT ![i] = o]
    BY <1>4, <2>3 DEF PromoteSeal, Change
  <2>5. /\ s.pc = "p_publish" /\ s.ev = i /\ s.sha = proc[p].sha /\ s.id = proc[p].id
        /\ s.seen.sha256 = proc[p].want /\ s.want = proc[p].want
    BY <1>p DEF ProcState, AfterSeal
  <2>6. StepOK(s, o)
    BY <2>2, <2>5 DEF StepOK, Writers, Behind, Readers, HoldLabels
  <2>7. ObjOK(o) /\ Harmless(obj[i], o)
    BY <2>1, <2>2, StoreAssumption DEF ObjOK, Harmless
  <2>8. CallOK(s) /\ s.pc \notin DeleteLabels /\ proc[p].pc \in Writers
    BY <2>1, <2>4, <2>5 DEF TypeInv, ProcsOK, Become, DeleteLabels, Writers
  <2> HIDE DEF s, o
  <2> QED
    BY <1>p, <2>4, <2>5, <2>6, <2>7, <2>8, ObjectStep
<1>5. CASE PromotePublish(p) \/ HoldOpen(p)
  <2> DEFINE next == IF proc[p].pc = "p_publish" THEN "p_writing" ELSE "h_write"
             ok == obj[i].manifest = NoFile \/ obj[i].mode = "rw"
             o == [obj[i] EXCEPT !.manifest = Torn, !.mode = "rw"]
             s == [proc[p] EXCEPT !.pc = next, !.linked = TRUE]
  <2>0. /\ proc[p].pc \in {"p_publish", "h_open"}
        /\ Change(i, ok, o)
        /\ (ok /\ Become(p, s)) \/ (~ok /\ Raise(p, "OS_ERROR"))
    BY <1>5 DEF PromotePublish, HoldOpen, OpenManifest
  <2>1. CASE ok /\ Become(p, s)
    <3>1. obj[i].original \in Content /\ obj[i].dir # "none"
      BY <1>p, <2>0, AtLabel, StoreAssumption DEF StepOK, ObjOK, Writers, Readers, HoldLabels
    <3>2. o.original = obj[i].original /\ o.manifest = Torn /\ o.dir = obj[i].dir
      BY <1>p DEF ObjState
    <3>3. /\ s.pc = next /\ s.ev = i /\ s.sha = proc[p].sha /\ s.id = proc[p].id
          /\ s.seen = proc[p].seen /\ s.want = proc[p].want
      BY <1>p DEF ProcState
    <3>4. StepOK(s, o)
      BY <1>p, <2>0, <3>2, <3>3, StoreAssumption DEF StepOK, Writers, Behind, Readers, HoldLabels
    <3>5. ObjOK(o) /\ Harmless(obj[i], o)
      BY <3>1, <3>2, StoreAssumption DEF ObjOK, Harmless
    <3>6. obj' = [obj EXCEPT ![i] = o]
      BY <2>0, <2>1 DEF Change
    <3>7. CallOK(s) /\ s.pc \notin DeleteLabels /\ s.pc \notin Writers
      BY <2>1, <3>3 DEF TypeInv, ProcsOK, Become, DeleteLabels, Writers
    <3>8. proc[p].pc \in Writers \/ obj[i].manifest # NoFile
      BY <1>p, <2>0 DEF StepOK, Writers, Readers, HoldLabels
    <3> HIDE DEF s, o, next
    <3> QED
      BY <1>p, <2>1, <3>3, <3>4, <3>5, <3>6, <3>7, <3>8, ObjectStep
  <2>2. CASE ~ok /\ Raise(p, "OS_ERROR")
    BY <1>p, <1>r, <2>0, <2>2, NoChange
  <2> QED
    BY <2>0, <2>1, <2>2
<1>6. CASE PromoteWrite(p) \/ HoldWrite(p)
  <2> DEFINE next == IF proc[p].pc = "p_writing" THEN "p_lock" ELSE "h_lock"
             w == Overwritten(obj[i].manifest, proc[p].seen)
             o == IF proc[p].linked THEN [obj[i] EXCEPT !.manifest = w] ELSE obj[i]
  <2>1. /\ proc[p].pc \in {"p_writing", "h_write"} /\ Goto(p, next)
        /\ Change(i, proc[p].linked, [obj[i] EXCEPT !.manifest = w])
    BY <1>6 DEF PromoteWrite, HoldWrite, WriteManifest
  <2>2. /\ obj[i].manifest # NoFile /\ obj[i].original \in Content /\ proc[p].seen \in Manifest
        /\ proc[p].seen.sha256 = obj[i].original /\ obj[i].dir # "none"
    BY <1>p, <2>1, AtLabel DEF StepOK, ObjOK, Behind, Readers, HoldLabels
  <2>3. w = proc[p].seen \/ w = Garbled
    BY DEF Overwritten
  <2>4. /\ o.original = obj[i].original /\ o.manifest \in {obj[i].manifest, proc[p].seen, Garbled}
        /\ o.dir = obj[i].dir
    BY <1>p, <2>3 DEF ObjState
  <2>5. o.manifest # NoFile /\ (o.manifest \in Manifest => o.manifest.sha256 = o.original)
    BY <1>p, <2>2, <2>4, StoreAssumption DEF ObjOK
  <2>6. ObjOK(o) /\ Harmless(obj[i], o)
    BY <2>2, <2>4, <2>5 DEF ObjOK, Harmless
  <2>7. StepOK([proc[p] EXCEPT !.pc = next], o)
    BY <1>p, <2>1, <2>4, <2>5 DEF StepOK, ProcState, Writers, Behind, Readers, HoldLabels
  <2>8. Change(i, TRUE, o)
    BY <2>1 DEF Change
  <2>9. next \in (PromoteLabels \cup HoldLabels) \ Writers
    BY DEF PromoteLabels, HoldLabels, Writers
  <2> HIDE DEF o, next
  <2> QED
    BY <1>p, <2>1, <2>2, <2>6, <2>7, <2>8, <2>9, GotoObject DEF TypeInv
<1>7. CASE PromoteLock(p)
  <2> DEFINE o == [obj[i] EXCEPT !.mode = "ro", !.dir = IF @ = "none" THEN @ ELSE "ro"]
  <2>1. /\ proc[p].pc = "p_lock" /\ obj[i].manifest # NoFile /\ obj[i].dir # "none"
        /\ obj[i].original = proc[p].want
    BY <1>7, <1>p DEF PromoteLock, StepOK, ObjOK, Behind
  <2>2. Change(i, TRUE, o) /\ Goto(p, "p_clean")
    BY <1>7, <2>1 DEF PromoteLock, Change, Try
  <2>3. o.original = obj[i].original /\ o.manifest = obj[i].manifest /\ o.dir = "ro"
    BY <1>p, <2>1 DEF ObjState
  <2>4. ObjOK(o) /\ Harmless(obj[i], o)
    BY <1>p, <2>3 DEF ObjOK, Harmless
  <2>5. StepOK([proc[p] EXCEPT !.pc = "p_clean"], o)
    BY <1>p, <2>1, <2>3 DEF StepOK, ProcState, Writers, Behind, Readers, HoldLabels
  <2>6. "p_clean" \in PromoteLabels \ Writers
    BY DEF PromoteLabels, Writers
  <2> HIDE DEF o
  <2> QED
    BY <1>p, <2>1, <2>2, <2>4, <2>5, <2>6, GotoObject DEF TypeInv
<1>8. CASE HoldChmod(p) \/ HoldLock(p)
  <2> DEFINE m == IF proc[p].pc = "h_chmod" THEN "rw" ELSE "ro"
             o == [obj[i] EXCEPT !.mode = m]
  <2>1. /\ obj[i].manifest # NoFile /\ obj[i].original = proc[p].seen.sha256
        /\ proc[p].seen \in Manifest
    BY <1>8, <1>p, AtLabel DEF HoldChmod, HoldLock, StepOK, Readers, HoldLabels
  <2>2. o.original = obj[i].original /\ o.manifest = obj[i].manifest /\ o.dir = obj[i].dir
    BY <1>p DEF ObjState
  <2>3. ObjOK(o) /\ Harmless(obj[i], o)
    BY <1>p, <2>2 DEF ObjOK, Harmless
  <2>4. Change(i, TRUE, o)
    BY <1>8, <2>1 DEF HoldChmod, HoldLock, ChmodManifest, Change
  <2>5. CASE HoldChmod(p)
    <3>1. Goto(p, "h_open")
      BY <2>1, <2>5 DEF HoldChmod, Try
    <3>2. StepOK([proc[p] EXCEPT !.pc = "h_open"], o)
      BY <1>p, <2>1, <2>2 DEF StepOK, ProcState, Writers, Behind, Readers, HoldLabels
    <3>3. "h_open" \in HoldLabels \ Writers
      BY DEF HoldLabels, Writers
    <3> HIDE DEF o
    <3> QED
      BY <1>p, <2>1, <2>3, <2>4, <3>1, <3>2, <3>3, GotoObject DEF TypeInv
  <2>6. CASE HoldLock(p)
    <3> DEFINE s == Idle(proc[p].q, "OK", i, proc[p].seen.sha256)
    <3>1. Become(p, s)
      BY <2>1, <2>6 DEF HoldLock, Answer
    <3>2. s.pc = "idle" /\ s.ev = NoFile /\ s.id = i /\ s.sha = proc[p].seen.sha256
      BY DEF Idle
    <3>3. CallOK(s) /\ s.pc \notin DeleteLabels \cup Writers
      BY <3>1, <3>2 DEF TypeInv, ProcsOK, Become, DeleteLabels, Writers
    <3>4. obj' = [obj EXCEPT ![i] = o]
      BY <2>4 DEF Change
    <3> HIDE DEF s, o
    <3> QED
      BY <1>p, <2>1, <2>2, <2>3, <3>1, <3>2, <3>3, <3>4, ObjectStep
  <2> QED
    BY <1>8, <2>5, <2>6
<1> QED
  BY <1>1, <1>2, <1>3, <1>4, <1>5, <1>6, <1>7, <1>8

-----------------------------------------------------------------------------
(* No step without deletions takes a manifest or complete bytes away.       *)

LEMMA Monotone ==
  ASSUME WormInv, "delete" \notin Ops, [Next]_vars, NEW j \in Evidence
  PROVE  Harmless(obj[j], obj'[j])
<1> USE DEF WormInv
<1>u. UNCHANGED obj => Harmless(obj[j], obj'[j])
  BY DEF Harmless
<1>c. ASSUME NEW p \in Proc, NEW ok, NEW o, Change(proc[p].ev, ok, o), proc[p].ev \in Evidence,
             ok => Harmless(obj[proc[p].ev], o)
      PROVE  Harmless(obj[j], obj'[j])
  BY <1>c DEF Change, Harmless, TypeInv, DiskOK
<1>1. CASE UNCHANGED vars \/ Tick
  BY <1>1, <1>u DEF vars, Tick
<1>2. ASSUME NEW p \in Proc, Call(p) \/ Crash(p) PROVE Harmless(obj[j], obj'[j])
  <2>1. UNCHANGED obj
    BY <1>2 DEF Call, Crash, StartIngest, FindQuarantine, StartPromote, StartHold, StartDelete
  <2> QED
    BY <1>u, <2>1
<1>3. ASSUME NEW p \in Proc, Step(p) PROVE Harmless(obj[j], obj'[j])
  <2> DEFINE i == proc[p].ev
  <2>1. ASSUME NEW l \in PromoteLabels \cup HoldLabels, proc[p].pc = l
        PROVE  i \in Evidence /\ StepOK(proc[p], obj[i]) /\ ObjOK(obj[i]) /\ obj[i] \in ObjState
    BY <2>1 DEF TypeInv, ProcsOK, CallOK, SafeInv, StepInv, ObjInv, DiskOK
  <2>2. CASE \/ IngestCopy(p) \/ IngestOpenMeta(p) \/ IngestWriteMeta(p)
             \/ PromoteCheck(p) \/ PromoteVerify(p) \/ PromoteQuarantine(p)
             \/ PromoteExists(p) \/ PromoteReverify(p) \/ PromoteClean(p)
    BY <1>u, <2>2 DEF IngestCopy, IngestOpenMeta, IngestWriteMeta, PromoteCheck, PromoteVerify,
       PromoteQuarantine, PromoteExists, PromoteReverify, PromoteClean, LookForManifest,
       VerifyExisting
  <2>3. CASE PromoteMkdir(p)
    <3>1. i \in Evidence /\ obj[i] \in ObjState
      BY <2>1, <2>3 DEF PromoteMkdir, PromoteLabels
    <3>2. Harmless(obj[i], [obj[i] EXCEPT !.dir = "rw"])
      BY <3>1 DEF Harmless, ObjState
    <3> QED
      BY <1>c, <2>3, <3>1, <3>2 DEF PromoteMkdir
  <2>4. CASE PromoteOpenCopy(p)
    <3>1. i \in Evidence /\ obj[i] \in ObjState /\ obj[i].original = NoFile
      BY <2>1, <2>4 DEF PromoteOpenCopy, PromoteLabels, StepOK
    <3>2. Harmless(obj[i], [obj[i] EXCEPT !.original = Torn])
      BY <3>1, StoreAssumption DEF Harmless, ObjState
    <3> QED
      BY <1>c, <2>4, <3>1, <3>2 DEF PromoteOpenCopy
  <2>5. CASE PromoteCopied(p)
    <3>1. i \in Evidence /\ obj[i] \in ObjState /\ obj[i].original = Torn
      BY <2>1, <2>5 DEF PromoteCopied, PromoteLabels, StepOK
    <3>2. Harmless(obj[i], [obj[i] EXCEPT !.original = proc[p].want])
      BY <3>1, StoreAssumption DEF Harmless, ObjState
    <3> QED
      BY <1>c, <2>5, <3>1, <3>2 DEF PromoteCopied
  <2>6. CASE PromoteSeal(p)
    <3>1. i \in Evidence /\ obj[i] \in ObjState
      BY <2>1, <2>6 DEF PromoteSeal, PromoteLabels
    <3>2. Harmless(obj[i], [obj[i] EXCEPT !.sealed = TRUE, !.dir = "rw"])
      BY <3>1 DEF Harmless, ObjState
    <3> QED
      BY <1>c, <2>6, <3>1, <3>2 DEF PromoteSeal
  <2>7. CASE PromotePublish(p) \/ HoldOpen(p)
    <3>1. i \in Evidence /\ obj[i] \in ObjState
      BY <2>1, <2>7 DEF PromotePublish, HoldOpen, OpenManifest, PromoteLabels, HoldLabels
    <3>2. Harmless(obj[i], [obj[i] EXCEPT !.manifest = Torn, !.mode = "rw"])
      BY <3>1, StoreAssumption DEF Harmless, ObjState
    <3> QED
      BY <1>c, <2>7, <3>1, <3>2 DEF PromotePublish, HoldOpen, OpenManifest
  <2>8. CASE PromoteWrite(p) \/ HoldWrite(p)
    <3> DEFINE w == Overwritten(obj[i].manifest, proc[p].seen)
    <3>1. i \in Evidence /\ obj[i] \in ObjState /\ proc[p].seen \in Manifest
      BY <2>1, <2>8, AtLabel
         DEF PromoteWrite, HoldWrite, WriteManifest, PromoteLabels, HoldLabels
    <3>2. w # NoFile
      BY <3>1, StoreAssumption DEF Overwritten
    <3>3. Harmless(obj[i], [obj[i] EXCEPT !.manifest = w])
      BY <3>1, <3>2 DEF Harmless, ObjState
    <3> QED
      BY <1>c, <2>8, <3>1, <3>3 DEF PromoteWrite, HoldWrite, WriteManifest
  <2>9. CASE PromoteLock(p)
    <3> DEFINE o == [obj[i] EXCEPT !.mode = "ro", !.dir = IF @ = "none" THEN @ ELSE "ro"]
    <3>1. i \in Evidence /\ obj[i] \in ObjState
      BY <2>1, <2>9 DEF PromoteLock, PromoteLabels
    <3>2. Harmless(obj[i], o)
      BY <3>1 DEF Harmless, ObjState
    <3> QED
      BY <1>c, <2>9, <3>1, <3>2 DEF PromoteLock
  <2>10. CASE HoldChmod(p) \/ HoldLock(p)
    <3>1. i \in Evidence /\ obj[i] \in ObjState
      BY <2>1, <2>10 DEF HoldChmod, HoldLock, HoldLabels
    <3>2. \A m : Harmless(obj[i], [obj[i] EXCEPT !.mode = m])
      BY <3>1 DEF Harmless, ObjState
    <3> QED
      BY <1>c, <2>10, <3>1, <3>2 DEF HoldChmod, HoldLock, ChmodManifest
  <2>11. ~(DeleteChmod(p) \/ DeleteUnlink(p) \/ DeleteRmdir(p) \/ DeleteManifest(p))
    BY DEF NoDeleter, DeleteLabels, DeleteChmod, DeleteUnlink, DeleteRmdir, DeleteManifest
  <2> QED
    BY <1>3, <2>2, <2>3, <2>4, <2>5, <2>6, <2>7, <2>8, <2>9, <2>10, <2>11 DEF Step
<1> QED
  BY <1>1, <1>2, <1>3 DEF Next

-----------------------------------------------------------------------------
(* The quarantine, and that nothing received is lost.                       *)

LEMMA QuarQuiet ==
  ASSUME TypeInv, QuarInv, NEW p \in Proc, NEW s, Become(p, s), UNCHANGED quar,
         s.q \in {proc[p].q, NoFile}, s.pc \notin IngestLabels,
         s.pc \in {"p_mkdir"} \cup Writers \cup Behind => quar[s.q].blob \in {s.want, NoFile}
  PROVE  QuarInv'
<1>1. proc'[p] = s /\ \A r \in Proc \ {p} : proc'[r] = proc[r]
  BY DEF TypeInv, ProcsOK, Become
<1>2. \A r \in Proc : proc[r].pc \in IngestLabels => proc[r].q # NoFile
  BY StoreAssumption DEF TypeInv, ProcsOK, CallOK
<1>3. s.pc \notin {"i_copy", "i_meta", "i_write"}
  BY DEF IngestLabels
<1> QED
  BY <1>1, <1>2, <1>3 DEF QuarInv

\* Answering or raising.
LEMMA QuarIdle ==
  ASSUME TypeInv, QuarInv, NEW p \in Proc, UNCHANGED quar, NEW q \in {proc[p].q, NoFile},
         NEW code, NEW id, NEW sha, Become(p, Idle(q, code, id, sha))
  PROVE  QuarInv'
<1> DEFINE s == Idle(q, code, id, sha)
<1>1. s.q = q /\ s.pc = "idle"
  BY DEF Idle
<1>2. s.pc \notin IngestLabels \cup {"p_mkdir"} \cup Writers \cup Behind
  BY <1>1 DEF IngestLabels, Writers, Behind
<1> HIDE DEF s
<1> QED
  BY <1>1, <1>2, QuarQuiet DEF s

\* Entering a promotion or a hold.
LEMMA QuarInCall ==
  ASSUME TypeInv, QuarInv, NEW p \in Proc, UNCHANGED quar, NEW l \in {"p_check", "h_chmod"},
         NEW i, NEW c, NEW r, NEW m, Become(p, InCall(l, proc[p].q, i, c, r, m))
  PROVE  QuarInv'
<1> DEFINE s == InCall(l, proc[p].q, i, c, r, m)
<1>1. s.q = proc[p].q /\ s.pc = l
  BY DEF InCall
<1>2. s.pc \notin IngestLabels \cup {"p_mkdir"} \cup Writers \cup Behind
  BY <1>1 DEF IngestLabels, Writers, Behind
<1> HIDE DEF s
<1> QED
  BY <1>1, <1>2, QuarQuiet DEF s

\* Moving on within a promotion or a hold, whatever else p notes down.
LEMMA QuarMove ==
  ASSUME TypeInv, QuarInv, NEW p \in Proc, UNCHANGED quar, NEW s, Become(p, s),
         s.q = proc[p].q, s.want = proc[p].want, s.pc \notin IngestLabels,
         \/ s.pc \notin {"p_mkdir"} \cup Writers \cup Behind
         \/ proc[p].pc \in {"p_mkdir"} \cup Writers \cup Behind
  PROVE  QuarInv'
<1>1. s.pc \in {"p_mkdir"} \cup Writers \cup Behind => quar[s.q].blob \in {s.want, NoFile}
  BY DEF QuarInv
<1> QED
  BY <1>1, QuarQuiet

LEMMA QuarGoto ==
  ASSUME TypeInv, QuarInv, NEW p \in Proc, UNCHANGED quar, NEW l, Goto(p, l),
         l \notin IngestLabels,
         \/ l \notin {"p_mkdir"} \cup Writers \cup Behind
         \/ proc[p].pc \in {"p_mkdir"} \cup Writers \cup Behind
  PROVE  QuarInv'
<1> DEFINE s == [proc[p] EXCEPT !.pc = l]
<1>1. s.q = proc[p].q /\ s.pc = l /\ s.want = proc[p].want /\ Become(p, s)
  BY DEF TypeInv, ProcsOK, ProcState, Goto, Become
<1> HIDE DEF s
<1> QED
  BY <1>1, QuarMove

LEMMA CallQuar ==
  ASSUME WormInv, "delete" \notin Ops, NEW p \in Proc, Call(p)
  PROVE  QuarInv'
<1> USE DEF WormInv
<1>1. ASSUME NEW c \in Content, NEW q \in Quarantine, StartIngest(p, c, q)
      PROVE  QuarInv'
  <2> DEFINE s == InCall("i_copy", q, NoFile, c, 0, NoFile)
  <2>1. proc'[p] = s /\ \A r \in Proc \ {p} : proc'[r] = proc[r]
    BY <1>1 DEF StartIngest, TypeInv, ProcsOK, Become
  <2>2. s.pc = "i_copy" /\ s.q = q
    BY DEF InCall
  <2>3. ~quar[q].used /\ quar' = [quar EXCEPT ![q].used = TRUE]
    BY <1>1 DEF StartIngest
  <2>4. /\ quar'[q].used /\ quar'[q].meta = NoFile /\ quar'[q].blob = NoFile
        /\ \A u \in Quarantine \ {q} : quar'[u] = quar[u]
    BY <2>3 DEF QuarInv, TypeInv, DiskOK, QuarState
  <2>5. \A r \in Proc \ {p} : proc[r].q # q /\ proc[r].q \in Quarantine \cup {NoFile}
    BY <2>3, StoreAssumption DEF QuarInv, TypeInv, ProcsOK, ProcState
  <2>6. \A r \in Proc \ {p} : proc[r].pc \in IngestLabels \cup PromoteLabels
                                => proc[r].q \in Quarantine \ {q}
    BY <2>5 DEF TypeInv, ProcsOK, CallOK
  <2>7. {"i_meta", "i_write"} \cup {"p_mkdir"} \cup Writers \cup Behind
          \subseteq (IngestLabels \cup PromoteLabels) \ {"i_copy"}
    BY DEF IngestLabels, PromoteLabels, Writers, Behind
  <2> HIDE DEF s
  <2>8. (\A u \in Quarantine : ~quar[u].used => quar[u].blob = NoFile /\ quar[u].meta = NoFile)'
    BY <2>4 DEF QuarInv
  <2>9. (\A r \in Proc : proc[r].q # NoFile => quar[proc[r].q].used)'
    BY <2>1, <2>2, <2>4, <2>5 DEF QuarInv
  <2>10. (\A r, t \in Proc : proc[r].pc \in IngestLabels /\ r # t => proc[t].q # proc[r].q)'
    BY <2>1, <2>2, <2>5 DEF QuarInv
  <2>11. (\A r \in Proc : proc[r].pc \in IngestLabels => quar[proc[r].q].meta \notin Content)'
    BY <2>1, <2>2, <2>4, <2>6, StoreAssumption DEF QuarInv
  <2>12. (\A r \in Proc : proc[r].pc \in {"i_meta", "i_write"} => quar[proc[r].q].blob = proc[r].want)'
    BY <2>1, <2>2, <2>4, <2>6, <2>7 DEF QuarInv
  <2>13. (\A r \in Proc : proc[r].pc \in {"p_mkdir"} \cup Writers \cup Behind
                            => quar[proc[r].q].blob \in {proc[r].want, NoFile})'
    BY <2>1, <2>2, <2>4, <2>6, <2>7 DEF QuarInv
  <2>14. (\A r \in Proc : proc[r].pc = "i_copy" => quar[proc[r].q].blob = NoFile)'
    BY <2>1, <2>2, <2>4, <2>6 DEF QuarInv, IngestLabels
  <2> QED
    BY <2>8, <2>9, <2>10, <2>11, <2>12, <2>13, <2>14 DEF QuarInv
<1>2. ASSUME NEW c \in Content, FindQuarantine(p, c)
      PROVE  QuarInv'
  <2>1. PICK q \in Quarantine \cup {NoFile} :
               Become(p, Fresh(q)) /\ (q = NoFile \/ (q \in Quarantine /\ quar[q].meta = c))
    BY <1>2 DEF FindQuarantine
  <2>2. proc'[p] = Fresh(q) /\ \A r \in Proc \ {p} : proc'[r] = proc[r]
    BY <2>1 DEF TypeInv, ProcsOK, Become
  <2>3. Fresh(q).pc = "idle" /\ Fresh(q).q = q
    BY DEF Fresh, Idle
  <2>4. q # NoFile => quar[q].used /\ \A r \in Proc : proc[r].pc \in IngestLabels => proc[r].q # q
    BY <2>1, StoreAssumption DEF QuarInv
  <2>5. \A r \in Proc : proc[r].pc \in IngestLabels => proc[r].q # NoFile
    BY StoreAssumption DEF TypeInv, ProcsOK, CallOK
  <2>6. "idle" \notin IngestLabels \cup {"p_mkdir"} \cup Writers \cup Behind
    BY DEF IngestLabels, Writers, Behind
  <2>7. UNCHANGED quar
    BY <1>2 DEF FindQuarantine
  <2> QED
    BY <2>2, <2>3, <2>4, <2>5, <2>6, <2>7 DEF QuarInv
<1>3. ASSUME NEW i \in Evidence, NEW c \in Content, NEW r \in Retention, StartPromote(p, i, c, r)
      PROVE  QuarInv'
  BY <1>3, QuarInCall DEF StartPromote
<1>4. ASSUME NEW i \in Evidence, NEW h \in BOOLEAN, StartHold(p, i, h)
      PROVE  QuarInv'
  BY <1>4, QuarInCall, QuarIdle DEF StartHold, Raise
<1> QED
  BY <1>1, <1>2, <1>3, <1>4 DEF Call, StartDelete

\* Ingesting: p changes only the directory it is alone with.
LEMMA IngestQuar ==
  ASSUME TypeInv, QuarInv, NEW p \in Proc, IngestCopy(p) \/ IngestOpenMeta(p) \/ IngestWriteMeta(p)
  PROVE  QuarInv'
<1> DEFINE q == proc[p].q
<1>1. /\ proc[p].pc \in IngestLabels /\ q \in Quarantine /\ q # NoFile /\ proc[p].want \in Content
      /\ proc[p] \in ProcState
  BY AtLabel, StoreAssumption DEF IngestCopy, IngestOpenMeta, IngestWriteMeta, IngestLabels
<1>2. \A r \in Proc \ {p} : proc[r].q # q
  BY <1>1 DEF QuarInv
<1>3. \A u \in Quarantine \ {q} : quar'[u] = quar[u]
  BY <1>1 DEF IngestCopy, IngestOpenMeta, IngestWriteMeta, TypeInv, DiskOK
<1>4. \A r \in Proc \ {p} : proc'[r] = proc[r]
  BY DEF IngestCopy, IngestOpenMeta, IngestWriteMeta, Goto, Answer, Become, TypeInv, ProcsOK
<1>5. proc'[p].q = q /\ quar'[q].used /\ quar[q].used
  <2>1. quar[q].used /\ quar[q] \in QuarState
    BY <1>1 DEF QuarInv, TypeInv, DiskOK
  <2>2. quar'[q].used
    BY <1>1, <2>1 DEF IngestCopy, IngestOpenMeta, IngestWriteMeta, QuarState, TypeInv, DiskOK
  <2>3. proc'[p].q = q
    BY <1>1 DEF IngestCopy, IngestOpenMeta, IngestWriteMeta, Goto, Answer, Become, Idle, TypeInv,
       ProcsOK, ProcState
  <2> QED
    BY <2>1, <2>2, <2>3
<1>6. /\ proc'[p].pc \in IngestLabels => quar'[q].meta \notin Content
      /\ proc'[p].pc \in {"i_meta", "i_write"} => quar'[q].blob = proc'[p].want
      /\ proc'[p].pc \notin {"i_copy", "p_mkdir"} \cup Writers \cup Behind
  <2>0. quar[q] \in QuarState /\ quar[q].meta \notin Content
    BY <1>1 DEF QuarInv, TypeInv, DiskOK
  <2>1. CASE IngestCopy(p)
    <3>1. proc'[p].pc = "i_meta" /\ proc'[p].want = proc[p].want
      BY <1>1, <2>1 DEF IngestCopy, Goto, TypeInv, ProcsOK, ProcState
    <3>2. quar'[q].meta = quar[q].meta /\ quar'[q].blob = proc[p].want
      BY <1>1, <2>0, <2>1 DEF IngestCopy, QuarState, TypeInv, DiskOK
    <3> QED
      BY <2>0, <3>1, <3>2 DEF Writers, Behind
  <2>2. CASE IngestOpenMeta(p)
    <3>1. proc'[p].pc = "i_write" /\ proc'[p].want = proc[p].want /\ proc[p].pc = "i_meta"
      BY <1>1, <2>2 DEF IngestOpenMeta, Goto, TypeInv, ProcsOK, ProcState
    <3>2. quar'[q].meta = Torn /\ quar'[q].blob = quar[q].blob
      BY <1>1, <2>0, <2>2 DEF IngestOpenMeta, QuarState, TypeInv, DiskOK
    <3>3. quar[q].blob = proc[p].want
      BY <3>1 DEF QuarInv
    <3> QED
      BY <3>1, <3>2, <3>3, StoreAssumption DEF Writers, Behind
  <2>3. CASE IngestWriteMeta(p)
    <3>1. proc'[p].pc = "idle"
      BY <1>1, <2>3 DEF IngestWriteMeta, Answer, Become, Idle, TypeInv, ProcsOK
    <3> QED
      BY <3>1 DEF Writers, Behind, IngestLabels
  <2> QED
    BY <2>1, <2>2, <2>3
<1>7. \A r \in Proc \ {p} : /\ proc[r].q \in Quarantine \cup {NoFile}
                            /\ proc[r].pc \in IngestLabels \cup PromoteLabels => proc[r].q \in Quarantine
  BY DEF TypeInv, ProcsOK, CallOK, ProcState
<1>8. {"i_copy", "i_meta", "i_write"} \cup {"p_mkdir"} \cup Writers \cup Behind
          \subseteq IngestLabels \cup PromoteLabels
  BY DEF IngestLabels, PromoteLabels, Writers, Behind
<1> HIDE DEF q
<1>9. (\A u \in Quarantine : ~quar[u].used => quar[u].blob = NoFile /\ quar[u].meta = NoFile)'
  BY <1>3, <1>5 DEF QuarInv
<1>10. (\A r \in Proc : proc[r].q # NoFile => quar[proc[r].q].used)'
  BY <1>2, <1>3, <1>4, <1>5, <1>7 DEF QuarInv
<1>11. (\A r, t \in Proc : proc[r].pc \in IngestLabels /\ r # t => proc[t].q # proc[r].q)'
  BY <1>2, <1>4, <1>5 DEF QuarInv
<1>12. (\A r \in Proc : proc[r].pc \in IngestLabels => quar[proc[r].q].meta \notin Content)'
  BY <1>2, <1>3, <1>4, <1>5, <1>6, <1>7 DEF QuarInv
<1>13. (\A r \in Proc : proc[r].pc \in {"i_meta", "i_write"} => quar[proc[r].q].blob = proc[r].want)'
  BY <1>2, <1>3, <1>4, <1>5, <1>6, <1>7, <1>8 DEF QuarInv
<1>14. (\A r \in Proc : proc[r].pc \in {"p_mkdir"} \cup Writers \cup Behind
                          => quar[proc[r].q].blob \in {proc[r].want, NoFile})'
  BY <1>2, <1>3, <1>4, <1>5, <1>6, <1>7, <1>8 DEF QuarInv
<1>15. (\A r \in Proc : proc[r].pc = "i_copy" => quar[proc[r].q].blob = NoFile)'
  BY <1>2, <1>3, <1>4, <1>5, <1>6, <1>7, <1>8 DEF QuarInv
<1> QED
  BY <1>9, <1>10, <1>11, <1>12, <1>13, <1>14, <1>15 DEF QuarInv

\* rmtree(qdir) takes files away from a directory nobody is ingesting into.
LEMMA CleanQuar ==
  ASSUME TypeInv, QuarInv, NEW p \in Proc, PromoteClean(p)
  PROVE  QuarInv'
<1> DEFINE q == proc[p].q
<1>1. q \in Quarantine /\ quar[q] \in QuarState /\ proc[p].pc \notin IngestLabels
  BY AtLabel DEF PromoteClean, TypeInv, DiskOK, IngestLabels
<1>2. CASE Answer(p, proc[p].want) /\ UNCHANGED quar
  BY <1>2, QuarIdle DEF Answer
<1>3. CASE UNCHANGED proc
  <2>1. \A u \in Quarantine \ {q} : quar'[u] = quar[u]
    BY <1>1, <1>3 DEF PromoteClean, TypeInv, DiskOK
  <2>2. /\ quar'[q].used = quar[q].used
        /\ quar'[q].blob \in {quar[q].blob, NoFile}
        /\ quar'[q].meta \in {quar[q].meta, NoFile}
    BY <1>1, <1>3 DEF PromoteClean, TypeInv, DiskOK, QuarState
  <2>3. \A r \in Proc : proc[r].pc \in IngestLabels => proc[r].q # q
    BY <1>1 DEF QuarInv
  <2>4. \A r \in Proc : /\ proc[r].q \in Quarantine \cup {NoFile}
                        /\ proc[r].pc \in IngestLabels \cup PromoteLabels => proc[r].q \in Quarantine
    BY DEF TypeInv, ProcsOK, CallOK, ProcState
  <2>5. {"i_copy", "i_meta", "i_write"} \subseteq IngestLabels
        /\ {"p_mkdir"} \cup Writers \cup Behind \subseteq PromoteLabels
    BY DEF IngestLabels, PromoteLabels, Writers, Behind
  <2>6. \A r \in Proc : proc'[r] = proc[r]
    BY <1>3
  <2> HIDE DEF q
  <2>7. (\A u \in Quarantine : ~quar[u].used => quar[u].blob = NoFile /\ quar[u].meta = NoFile)'
    BY <1>1, <2>1, <2>2 DEF QuarInv
  <2>8. (\A r \in Proc : proc[r].q # NoFile => quar[proc[r].q].used)'
    BY <2>1, <2>2, <2>4, <2>6 DEF QuarInv
  <2>9. (\A r, t \in Proc : proc[r].pc \in IngestLabels /\ r # t => proc[t].q # proc[r].q)'
    BY <2>6 DEF QuarInv
  <2>10. /\ (\A r \in Proc : proc[r].pc \in IngestLabels => quar[proc[r].q].meta \notin Content)'
         /\ (\A r \in Proc : proc[r].pc = "i_copy" => quar[proc[r].q].blob = NoFile)'
         /\ (\A r \in Proc : proc[r].pc \in {"i_meta", "i_write"}
                               => quar[proc[r].q].blob = proc[r].want)'
    BY <2>1, <2>3, <2>4, <2>5, <2>6 DEF QuarInv
  <2>11. (\A r \in Proc : proc[r].pc \in {"p_mkdir"} \cup Writers \cup Behind
                            => quar[proc[r].q].blob \in {proc[r].want, NoFile})'
    BY <2>1, <2>2, <2>4, <2>5, <2>6 DEF QuarInv
  <2> QED
    BY <2>7, <2>8, <2>9, <2>10, <2>11 DEF QuarInv
<1> QED
  BY <1>2, <1>3 DEF PromoteClean

LEMMA StepQuar ==
  ASSUME TypeInv, NoDeleter, QuarInv, NEW p \in Proc, Step(p)
  PROVE  QuarInv'
<1> DEFINE Staged == {"p_mkdir"} \cup Writers \cup Behind
<1>0. Staged \cap IngestLabels = {} /\ proc[p] \in ProcState
  BY AtLabel DEF Writers, Behind, IngestLabels
<1>1. CASE IngestCopy(p) \/ IngestOpenMeta(p) \/ IngestWriteMeta(p)
  BY <1>1, IngestQuar
<1>2. CASE PromoteClean(p)
  BY <1>2, CleanQuar
<1>r. ASSUME NEW code, Raise(p, code), UNCHANGED quar PROVE QuarInv'
  BY <1>r, QuarIdle DEF Raise
<1>a. ASSUME NEW sha, Answer(p, sha), UNCHANGED quar PROVE QuarInv'
  BY <1>a, QuarIdle DEF Answer
<1>3. ASSUME NEW here, NEW found \in {"p_verify", "p_reverify"}, NEW missing,
             LookForManifest(p, here, found, missing), missing => QuarInv'
      PROVE  QuarInv'
  <2> DEFINE s == [proc[p] EXCEPT !.pc = found, !.seen = obj[proc[p].ev].manifest]
  <2>1. s.q = proc[p].q /\ s.want = proc[p].want /\ s.pc = found
    BY <1>0 DEF ProcState
  <2>2. s.pc \notin Staged \cup IngestLabels
    BY <2>1 DEF Writers, Behind, IngestLabels
  <2> HIDE DEF s
  <2>3. Become(p, s) /\ UNCHANGED quar => QuarInv'
    BY <2>1, <2>2, QuarMove
  <2> QED
    BY <1>3, <1>r, <2>3 DEF LookForManifest, s
<1>4. CASE PromoteCheck(p)
  <2>1. Goto(p, "p_quar") => QuarInv'
    BY <1>4, QuarGoto DEF PromoteCheck, LookForManifest, IngestLabels, Writers, Behind
  <2> QED
    BY <1>3, <1>4, <2>1 DEF PromoteCheck
<1>5. CASE PromoteExists(p)
  <2>1. Raise(p, "EVIDENCE_EXISTS") => QuarInv'
    BY <1>5, <1>r DEF PromoteExists, LookForManifest
  <2> QED
    BY <1>3, <1>5, <2>1 DEF PromoteExists
<1>6. CASE PromoteVerify(p) \/ PromoteReverify(p)
  BY <1>6, <1>r, <1>a DEF PromoteVerify, PromoteReverify, VerifyExisting
<1>7. CASE PromoteQuarantine(p)
  <2>1. CASE Goto(p, "p_mkdir") /\ {quar[proc[p].q].blob, quar[proc[p].q].meta} = {proc[p].want}
    <3> DEFINE s == [proc[p] EXCEPT !.pc = "p_mkdir"]
    <3>1. s.q = proc[p].q /\ s.want = proc[p].want /\ s.pc = "p_mkdir" /\ Become(p, s)
      BY <1>0, <2>1 DEF ProcState, Goto, Become, TypeInv, ProcsOK
    <3>2. quar[s.q].blob = s.want /\ s.pc \notin IngestLabels
      BY <2>1, <3>1 DEF IngestLabels
    <3>3. UNCHANGED quar
      BY <1>7 DEF PromoteQuarantine
    <3> HIDE DEF s
    <3> QED
      BY <3>1, <3>2, <3>3, QuarQuiet
  <2> QED
    BY <1>7, <1>r, <2>1 DEF PromoteQuarantine
<1>g. ASSUME NEW l \in Staged \cup {"p_exists"}, Goto(p, l), proc[p].pc \in Staged, UNCHANGED quar
      PROVE  QuarInv'
  BY <1>0, <1>g, QuarGoto DEF IngestLabels
<1>8. CASE PromoteMkdir(p) \/ PromoteCopied(p) \/ PromoteWrite(p) \/ PromoteLock(p)
  BY <1>8, <1>g, <1>r DEF PromoteMkdir, PromoteCopied, PromoteWrite, PromoteLock, WriteManifest, Try,
     Writers, Behind
<1>9. CASE PromoteOpenCopy(p)
  <2> DEFINE b == quar[proc[p].q].blob
             s == [proc[p] EXCEPT !.pc = "p_copying", !.want = b, !.linked = TRUE]
  <2>1. s.q = proc[p].q /\ s.want = b /\ s.pc = "p_copying"
    BY <1>0 DEF ProcState
  <2>2. quar[s.q].blob = s.want /\ s.pc \notin IngestLabels
    BY <2>1 DEF IngestLabels
  <2>3. UNCHANGED quar
    BY <1>9 DEF PromoteOpenCopy
  <2> HIDE DEF s
  <2>4. Become(p, s) => QuarInv'
    BY <2>1, <2>2, <2>3, QuarQuiet
  <2> QED
    BY <1>9, <1>r, <2>3, <2>4 DEF PromoteOpenCopy, s
<1>m. ASSUME NEW l \in Staged \cup HoldLabels, NEW s, Become(p, s), UNCHANGED quar, s.pc = l,
             s.q = proc[p].q, s.want = proc[p].want, proc[p].pc \in Staged \/ l \in HoldLabels
      PROVE  QuarInv'
  <2>1. l \notin IngestLabels /\ (l \in HoldLabels => l \notin Staged)
    BY <1>0, <1>m DEF IngestLabels, HoldLabels, Writers, Behind
  <2> QED
    BY <1>m, <2>1, QuarMove
<1>10. CASE PromoteSeal(p)
  <2> DEFINE m == [sha256 |-> proc[p].want, until |-> RetentionUntil(p), hold |-> FALSE]
             s == [proc[p] EXCEPT !.pc = AfterSeal, !.seen = m]
  <2>1. s.q = proc[p].q /\ s.want = proc[p].want /\ s.pc = "p_publish"
    BY <1>0 DEF ProcState, AfterSeal
  <2>2. UNCHANGED quar /\ proc[p].pc = "p_seal"
    BY <1>10 DEF PromoteSeal
  <2> HIDE DEF s
  <2>3. Become(p, s) => QuarInv'
    BY <1>m, <2>1, <2>2 DEF Writers
  <2> QED
    BY <1>10, <1>r, <2>2, <2>3 DEF PromoteSeal, s
<1>11. CASE PromotePublish(p) \/ HoldOpen(p)
  <2> DEFINE s == [proc[p] EXCEPT !.pc = "p_writing", !.linked = TRUE]
             t == [proc[p] EXCEPT !.pc = "h_write", !.linked = TRUE]
  <2>1. /\ s.q = proc[p].q /\ s.want = proc[p].want /\ s.pc = "p_writing"
        /\ t.q = proc[p].q /\ t.want = proc[p].want /\ t.pc = "h_write"
    BY <1>0 DEF ProcState
  <2>2. UNCHANGED quar
    BY <1>11 DEF PromotePublish, HoldOpen, OpenManifest
  <2> HIDE DEF s, t
  <2>3. (PromotePublish(p) /\ Become(p, s)) \/ Become(p, t) => QuarInv'
    BY <1>m, <2>1, <2>2 DEF Writers, Behind, HoldLabels, PromotePublish, OpenManifest
  <2> QED
    BY <1>11, <1>r, <2>2, <2>3 DEF PromotePublish, HoldOpen, OpenManifest, s, t
<1>12. CASE HoldChmod(p) \/ HoldWrite(p) \/ HoldLock(p)
  <2>1. ASSUME NEW l \in HoldLabels, Goto(p, l), UNCHANGED quar PROVE QuarInv'
    BY <2>1, QuarGoto DEF HoldLabels, IngestLabels, Writers, Behind
  <2> QED
    BY <1>12, <1>r, <1>a, <2>1 DEF HoldChmod, HoldWrite, HoldLock, WriteManifest, Try, HoldLabels
<1>13. ~(DeleteChmod(p) \/ DeleteUnlink(p) \/ DeleteRmdir(p) \/ DeleteManifest(p))
  BY DEF NoDeleter, DeleteLabels, DeleteChmod, DeleteUnlink, DeleteRmdir, DeleteManifest
<1> QED
  BY <1>1, <1>2, <1>4, <1>5, <1>6, <1>7, <1>8, <1>9, <1>10, <1>11, <1>12, <1>13 DEF Step

-----------------------------------------------------------------------------
(* Nothing received is lost.                                                *)

\* Steps that leave every staged blob in place and receive nothing.
LEMMA LossQuiet ==
  ASSUME TypeInv, NoEvidenceLoss, \A j \in Evidence : Harmless(obj[j], obj'[j]),
         NEW c \in received, \A q \in Quarantine : quar[q].blob = c => quar'[q].blob = c
  PROVE  \/ \E q \in Quarantine : quar'[q].blob = c
         \/ \E i \in Evidence : obj'[i].original = c /\ obj'[i].manifest # NoFile
<1>1. c \in Content
  BY DEF TypeInv, DiskOK
<1>2. CASE \E q \in Quarantine : quar[q].blob = c
  BY <1>2
<1>3. CASE \E i \in Evidence : obj[i].original = c /\ obj[i].manifest # NoFile
  BY <1>1, <1>3 DEF Harmless
<1> QED
  BY <1>2, <1>3 DEF NoEvidenceLoss

LEMMA NextLoss ==
  ASSUME WormInv, "delete" \notin Ops, [Next]_vars
  PROVE  NoEvidenceLoss'
<1> USE DEF WormInv
<1>m. \A j \in Evidence : Harmless(obj[j], obj'[j])
  BY Monotone
<1>q. ASSUME received' = received,
             \A q \in Quarantine : quar'[q].blob = quar[q].blob \/ quar[q].blob = NoFile
      PROVE  NoEvidenceLoss'
  <2>1. NoFile \notin received
    BY StoreAssumption DEF TypeInv, DiskOK
  <2> QED
    BY <1>m, <1>q, <2>1, LossQuiet DEF NoEvidenceLoss
<1>1. CASE UNCHANGED <<quar, received>>
  BY <1>1, <1>q
<1>2. ASSUME NEW p \in Proc, NEW c \in Content, NEW q \in Quarantine, StartIngest(p, c, q)
      PROVE  NoEvidenceLoss'
  <2>1. \A u \in Quarantine : quar'[u].blob = quar[u].blob
    BY <1>2 DEF StartIngest, TypeInv, DiskOK, QuarState
  <2> QED
    BY <1>2, <1>q, <2>1 DEF StartIngest
<1>3. ASSUME NEW p \in Proc, IngestCopy(p) PROVE NoEvidenceLoss'
  <2>1. quar[proc[p].q].blob = NoFile /\ proc[p].q \in Quarantine
    BY <1>3, AtLabel DEF IngestCopy, QuarInv
  <2>2. \A u \in Quarantine : quar'[u].blob = quar[u].blob \/ quar[u].blob = NoFile
    BY <1>3, <2>1 DEF IngestCopy, TypeInv, DiskOK, QuarState
  <2> QED
    BY <1>3, <1>q, <2>2 DEF IngestCopy
<1>4. ASSUME NEW p \in Proc, IngestOpenMeta(p) PROVE NoEvidenceLoss'
  <2>1. \A u \in Quarantine : quar'[u].blob = quar[u].blob
    BY <1>4 DEF IngestOpenMeta, TypeInv, DiskOK, QuarState
  <2> QED
    BY <1>4, <1>q, <2>1 DEF IngestOpenMeta
<1>5. ASSUME NEW p \in Proc, IngestWriteMeta(p) PROVE NoEvidenceLoss'
  <2>1. proc[p].q \in Quarantine /\ quar[proc[p].q].blob = proc[p].want
    BY <1>5, AtLabel DEF IngestWriteMeta, QuarInv
  <2>2. \A u \in Quarantine : quar'[u].blob = quar[u].blob
    BY <1>5 DEF IngestWriteMeta, TypeInv, DiskOK, QuarState
  <2>3. received' = received \cup {proc[p].want}
    BY <1>5 DEF IngestWriteMeta
  <2>4. ASSUME NEW c \in received
        PROVE  \/ \E q \in Quarantine : quar'[q].blob = c
               \/ \E i \in Evidence : obj'[i].original = c /\ obj'[i].manifest # NoFile
    BY <1>m, <2>2, LossQuiet
  <2>5. \E q \in Quarantine : quar'[q].blob = proc[p].want
    BY <2>1, <2>2
  <2> QED
    BY <2>3, <2>4, <2>5 DEF NoEvidenceLoss
<1>6. ASSUME NEW p \in Proc, PromoteClean(p) PROVE NoEvidenceLoss'
  <2> DEFINE q == proc[p].q
             i == proc[p].ev
  <2>1. q \in Quarantine /\ i \in Evidence /\ proc[p].pc = "p_clean"
    BY <1>6, AtLabel DEF PromoteClean
  <2>2. quar[q].blob \in {proc[p].want, NoFile}
    BY <2>1 DEF QuarInv, Behind
  <2>3. obj[i].original = proc[p].want /\ obj[i].manifest # NoFile
    BY <2>1 DEF SafeInv, StepInv, StepOK, Behind
  <2>4. UNCHANGED <<obj, received>>
    BY <1>6 DEF PromoteClean
  <2>5. \A u \in Quarantine : quar'[u].blob = quar[u].blob \/ u = q
    BY <1>6 DEF PromoteClean, TypeInv, DiskOK, QuarState
  <2>6. ASSUME NEW c \in received
        PROVE  \/ \E u \in Quarantine : quar'[u].blob = c
               \/ \E j \in Evidence : obj'[j].original = c /\ obj'[j].manifest # NoFile
    <3>1. CASE c = proc[p].want
      BY <2>1, <2>3, <2>4, <3>1
    <3>2. CASE c # proc[p].want
      <4>1. c # NoFile
        BY StoreAssumption DEF TypeInv, DiskOK
      <4>2. \A u \in Quarantine : quar[u].blob = c => quar'[u].blob = c
        BY <2>2, <2>5, <3>2, <4>1
      <4> QED
        BY <1>m, <4>2, LossQuiet
    <3> QED
      BY <3>1, <3>2
  <2> QED
    BY <2>4, <2>6 DEF NoEvidenceLoss
<1>7. ASSUME NEW p \in Proc, Step(p),
             ~(IngestCopy(p) \/ IngestOpenMeta(p) \/ IngestWriteMeta(p) \/ PromoteClean(p))
      PROVE  UNCHANGED <<quar, received>>
  BY <1>7 DEF Step, PromoteCheck, PromoteVerify, PromoteQuarantine, PromoteMkdir, PromoteExists,
     PromoteReverify, PromoteOpenCopy, PromoteCopied, PromoteSeal, PromotePublish, PromoteWrite,
     PromoteLock, HoldChmod, HoldOpen, HoldWrite, HoldLock, DeleteChmod, DeleteUnlink, DeleteRmdir,
     DeleteManifest, LookForManifest, VerifyExisting, OpenManifest, WriteManifest
<1>8. ASSUME NEW p \in Proc, Call(p) PROVE NoEvidenceLoss'
  BY <1>1, <1>2, <1>8 DEF Call, FindQuarantine, StartPromote, StartHold, StartDelete
<1>9. CASE UNCHANGED vars \/ Tick \/ \E p \in Proc : Crash(p)
  BY <1>1, <1>9 DEF vars, Tick, Crash
<1> QED
  BY <1>1, <1>3, <1>4, <1>5, <1>6, <1>7, <1>8, <1>9 DEF Next

-----------------------------------------------------------------------------
(* The invariant, and the theorems.                                         *)

LEMMA InitWorm == Init => WormInv
<1> SUFFICES ASSUME Init PROVE WormInv
  OBVIOUS
<1>1. TypeInv
  BY InitType
<1>2. \A p \in Proc : proc[p].pc = "idle" /\ proc[p].q = NoFile /\ proc[p].sha = NoFile
  BY DEF Init, Fresh, Idle
<1>3. NoDeleter /\ OneWriter /\ RepliesHold
  BY <1>2 DEF NoDeleter, OneWriter, RepliesHold, DeleteLabels, Writers
<1>4. ObjInv
  BY StoreAssumption DEF Init, ObjInv, ObjOK
<1>5. StepInv
  BY <1>2 DEF StepInv, StepOK, Writers, Behind, Readers, HoldLabels
<1>6. QuarInv
  BY <1>2 DEF Init, QuarInv, IngestLabels, Writers, Behind
<1>7. NoEvidenceLoss
  BY DEF Init, NoEvidenceLoss
<1> QED
  BY <1>1, <1>3, <1>4, <1>5, <1>6, <1>7 DEF WormInv, SafeInv

LEMMA NextWorm ==
  ASSUME "delete" \notin Ops
  PROVE  WormInv /\ [Next]_vars => WormInv'
<1> SUFFICES ASSUME WormInv, [Next]_vars PROVE WormInv'
  OBVIOUS
<1>1. TypeInv /\ NoDeleter /\ SafeInv /\ QuarInv
  BY DEF WormInv
<1>2. TypeInv'
  BY <1>1, NextType
<1>3. NoEvidenceLoss'
  BY NextLoss
<1>4. CASE UNCHANGED vars \/ Tick
  <2>1. UNCHANGED <<quar, obj, proc>>
    BY <1>4 DEF vars, Tick
  <2>2. NoDeleter' /\ SafeInv' /\ QuarInv'
    BY <1>1, <2>1 DEF NoDeleter, SafeInv, ObjInv, StepInv, OneWriter, RepliesHold, QuarInv
  <2> QED
    BY <1>2, <1>3, <2>2 DEF WormInv
<1>5. ASSUME NEW p \in Proc, Call(p) PROVE WormInv'
  BY <1>2, <1>3, <1>5, CallSafe, CallQuar DEF WormInv
<1>6. ASSUME NEW p \in Proc, Step(p) PROVE WormInv'
  <2>1. QuarInv'
    BY <1>1, <1>6, StepQuar
  <2>2. NoDeleter' /\ SafeInv'
    <3>1. ~(DeleteChmod(p) \/ DeleteUnlink(p) \/ DeleteRmdir(p) \/ DeleteManifest(p))
      BY <1>1 DEF NoDeleter, DeleteLabels, DeleteChmod, DeleteUnlink, DeleteRmdir, DeleteManifest
    <3> QED
      BY <1>2, <1>6, <3>1, ReadStepSafe, WriteStepSafe DEF Step
  <2> QED
    BY <1>2, <1>3, <2>1, <2>2 DEF WormInv
<1>7. ASSUME NEW p \in Proc, Crash(p) PROVE WormInv'
  <2>1. CallOK(Fresh(NoFile)) /\ UNCHANGED obj /\ UNCHANGED quar
    BY <1>7, FreshOK DEF Crash
  <2>2. NoDeleter' /\ SafeInv'
    BY <1>1, <1>7, <2>1, IdleQuiet DEF Crash, Fresh
  <2>3. QuarInv'
    BY <1>1, <1>7, <2>1, QuarIdle DEF Crash, Fresh
  <2> QED
    BY <1>2, <1>3, <2>2, <2>3 DEF WormInv
<1> QED
  BY <1>4, <1>5, <1>6, <1>7 DEF Next

LEMMA AlwaysWorm ==
  ASSUME "delete" \notin Ops
  PROVE  Spec => []WormInv
  BY InitWorm, NextWorm, PTL DEF Spec

\* While nothing is deleted, a manifest that can be read names the bytes beside
\* it, for any number of racing and crashing promoters and holders.
THEOREM PublishedEvidenceIntact ==
  ASSUME "delete" \notin Ops
  PROVE  Spec => []PublishedIntact
<1>1. WormInv => PublishedIntact
  BY DEF WormInv, SafeInv, ObjInv, ObjOK, PublishedIntact, Readable
<1> QED
  BY <1>1, AlwaysWorm, PTL

\* A digest a caller was told by promote_to_evidence or set_legal_hold stays the
\* digest of that object.
THEOREM AnswersHold ==
  ASSUME "delete" \notin Ops
  PROVE  Spec => []RepliesHold
<1>1. WormInv => RepliesHold
  BY DEF WormInv, SafeInv
<1> QED
  BY <1>1, AlwaysWorm, PTL

\* Content whose ingest returned is staged or published for ever after, although
\* promote_to_evidence removes the staged copy.
THEOREM ReceivedIsKept ==
  ASSUME "delete" \notin Ops
  PROVE  Spec => []NoEvidenceLoss
<1>1. WormInv => NoEvidenceLoss
  BY DEF WormInv
<1> QED
  BY <1>1, AlwaysWorm, PTL

-----------------------------------------------------------------------------
(* The refinement of WriteOnceStore.                                        *)

\* A step of p that completes no original tells p something or makes it forget.
LEMMA TellStep ==
  ASSUME WormInv', NEW p \in Proc, \A r \in Proc \ {p} : proc'[r] = proc[r], Bytes' = Bytes
  PROVE  WriteOnce!Next
<1> USE DEF WormInv
<1>1. Told' = [Told EXCEPT ![p] = Told'[p]]
  BY DEF Told
<1>2. CASE proc'[p].sha = NoFile
  <2>1. Told'[p] = <<NoFile, NoFile>>
    BY <1>2 DEF Told
  <2> QED
    BY <1>1, <2>1 DEF WriteOnce!Next, WriteOnce!Forget
<1>3. CASE proc'[p].sha # NoFile
  <2> DEFINE i == proc'[p].id
  <2>1. i \in Evidence /\ proc'[p].sha \in Content /\ obj'[i].original = proc'[p].sha
    BY <1>3 DEF TypeInv, ProcsOK, CallOK, ProcState, SafeInv, RepliesHold
  <2>2. Bytes'[i] = proc'[p].sha
    BY <2>1 DEF Bytes
  <2>3. Told'[p] = <<i, Bytes[i]>> /\ Bytes[i] # NoFile
    BY <1>3, <2>2 DEF Told
  <2> QED
    BY <1>1, <2>1, <2>3 DEF WriteOnce!Next, WriteOnce!Tell
<1> QED
  BY <1>2, <1>3

\* Only PromoteCopied completes an original.
LEMMA BytesKept ==
  ASSUME WormInv, "delete" \notin Ops, [Next]_vars, ~(\E p \in Proc : PromoteCopied(p))
  PROVE  Bytes' = Bytes
<1> USE DEF WormInv
<1>1. ASSUME NEW j \in Evidence PROVE obj'[j].original \in Content => obj[j].original \in Content
  <2>u. UNCHANGED obj => (obj'[j].original \in Content => obj[j].original \in Content)
    OBVIOUS
  <2>1. CASE UNCHANGED vars \/ Tick \/ \E p \in Proc : Call(p) \/ Crash(p)
    BY <2>u, <2>1 DEF vars, Tick, Call, Crash, StartIngest, FindQuarantine, StartPromote,
       StartHold, StartDelete
  <2>2. ASSUME NEW p \in Proc, Step(p)
        PROVE  obj'[j].original \in Content => obj[j].original \in Content
    <3> DEFINE i == proc[p].ev
    <3>0. obj[j] \in ObjState /\ (i \in Evidence => obj[i] \in ObjState)
      BY DEF TypeInv, DiskOK
    <3>c. ASSUME NEW ok, NEW o, Change(i, ok, o), i \in Evidence,
                 o.original \in Content => o.original = obj[i].original
          PROVE  obj'[j].original \in Content => obj[j].original \in Content
      BY <3>c DEF Change, TypeInv, DiskOK
    <3>1. CASE \/ IngestCopy(p) \/ IngestOpenMeta(p) \/ IngestWriteMeta(p)
               \/ PromoteCheck(p) \/ PromoteVerify(p) \/ PromoteQuarantine(p)
               \/ PromoteExists(p) \/ PromoteReverify(p) \/ PromoteClean(p)
      BY <2>u, <3>1 DEF IngestCopy, IngestOpenMeta, IngestWriteMeta, PromoteCheck, PromoteVerify,
         PromoteQuarantine, PromoteExists, PromoteReverify, PromoteClean, LookForManifest,
         VerifyExisting
    <3>2. CASE PromoteOpenCopy(p)
      <4>1. i \in Evidence /\ [obj[i] EXCEPT !.original = Torn].original \notin Content
        BY <3>0, <3>2, AtLabel, StoreAssumption DEF PromoteOpenCopy, ObjState
      <4> QED
        BY <3>2, <3>c, <4>1 DEF PromoteOpenCopy
    <3>3. CASE PromoteMkdir(p) \/ PromoteSeal(p) \/ PromoteLock(p)
      <4>1. i \in Evidence
        BY <3>3, AtLabel DEF PromoteMkdir, PromoteSeal, PromoteLock
      <4>2. /\ [obj[i] EXCEPT !.dir = "rw"].original = obj[i].original
            /\ [obj[i] EXCEPT !.sealed = TRUE, !.dir = "rw"].original = obj[i].original
            /\ [obj[i] EXCEPT !.mode = "ro", !.dir = IF @ = "none" THEN @ ELSE "ro"].original
                 = obj[i].original
        BY <3>0, <4>1 DEF ObjState
      <4> QED
        BY <3>3, <3>c, <4>1, <4>2 DEF PromoteMkdir, PromoteSeal, PromoteLock
    <3>4. CASE PromotePublish(p) \/ HoldOpen(p) \/ HoldChmod(p) \/ HoldLock(p)
      <4>1. i \in Evidence
        BY <3>4, AtLabel DEF PromotePublish, HoldOpen, HoldChmod, HoldLock, OpenManifest
      <4>2. /\ [obj[i] EXCEPT !.manifest = Torn, !.mode = "rw"].original = obj[i].original
            /\ \A m : [obj[i] EXCEPT !.mode = m].original = obj[i].original
        BY <3>0, <4>1 DEF ObjState
      <4> QED
        BY <3>4, <3>c, <4>1, <4>2 DEF PromotePublish, HoldOpen, HoldChmod, HoldLock, OpenManifest,
           ChmodManifest
    <3>5. CASE PromoteWrite(p) \/ HoldWrite(p)
      <4>1. i \in Evidence
        BY <3>5, AtLabel DEF PromoteWrite, HoldWrite, WriteManifest
      <4>2. [obj[i] EXCEPT !.manifest = Overwritten(@, proc[p].seen)].original = obj[i].original
        BY <3>0, <4>1 DEF ObjState
      <4> QED
        BY <3>5, <3>c, <4>1, <4>2 DEF PromoteWrite, HoldWrite, WriteManifest
    <3>6. ~(DeleteChmod(p) \/ DeleteUnlink(p) \/ DeleteRmdir(p) \/ DeleteManifest(p))
      BY DEF NoDeleter, DeleteLabels, DeleteChmod, DeleteUnlink, DeleteRmdir, DeleteManifest
    <3> QED
      BY <2>2, <3>1, <3>2, <3>3, <3>4, <3>5, <3>6 DEF Step
  <2> QED
    BY <2>1, <2>2 DEF Next
<1>2. \A j \in Evidence : Harmless(obj[j], obj'[j])
  BY Monotone
<1> QED
  BY <1>1, <1>2 DEF Bytes, Harmless

\* Completing the copy is the one write of an object.
LEMMA WriteStep ==
  ASSUME WormInv, NEW p \in Proc, PromoteCopied(p)
  PROVE  WriteOnce!Next
<1> USE DEF WormInv
<1> DEFINE i == proc[p].ev
<1>1. i \in Evidence /\ proc[p].want \in Content /\ proc[p].pc = "p_copying" /\ obj[i] \in ObjState
  BY AtLabel DEF PromoteCopied, TypeInv, DiskOK
<1>2. obj[i].original = Torn /\ proc[p].linked
  BY <1>1 DEF SafeInv, StepInv, StepOK
<1>3. /\ obj'[i].original = proc[p].want
      /\ \A j \in Evidence \ {i} : obj'[j] = obj[j]
  BY <1>1, <1>2 DEF PromoteCopied, Change, TypeInv, DiskOK, ObjState
<1>4. Bytes[i] = NoFile /\ Bytes' = [Bytes EXCEPT ![i] = proc[p].want]
  BY <1>1, <1>2, <1>3, StoreAssumption DEF Bytes
<1>5. \A r \in Proc : proc'[r].sha = proc[r].sha /\ proc'[r].id = proc[r].id
  BY DEF PromoteCopied, Goto, TypeInv, ProcsOK, ProcState
<1>6. Told' = Told
  BY <1>5 DEF Told
<1> QED
  BY <1>1, <1>4, <1>6 DEF WriteOnce!Next, WriteOnce!Write

LEMMA MapStep ==
  ASSUME WormInv, WormInv', "delete" \notin Ops, [Next]_vars
  PROVE  [WriteOnce!Next]_(WriteOnce!vars)
<1> USE DEF WormInv
<1>1. CASE \E p \in Proc : PromoteCopied(p)
  BY <1>1, WriteStep
<1>2. CASE ~(\E p \in Proc : PromoteCopied(p))
  <2>1. Bytes' = Bytes
    BY <1>2, BytesKept
  <2>2. CASE UNCHANGED vars \/ Tick
    <3>1. Told' = Told
      BY <2>2 DEF vars, Tick, Told
    <3> QED
      BY <2>1, <3>1 DEF WriteOnce!vars
  <2>3. ASSUME NEW p \in Proc, Call(p) \/ Step(p) \/ Crash(p)
        PROVE  \A r \in Proc \ {p} : proc'[r] = proc[r]
    <3>0. \A s : Become(p, s) \/ (\E l : Goto(p, l)) => \A r \in Proc \ {p} : proc'[r] = proc[r]
      BY DEF Become, Goto, TypeInv, ProcsOK
    <3>1. CASE Call(p) \/ Crash(p)
      BY <3>0, <3>1 DEF Call, Crash, StartIngest, FindQuarantine, StartPromote, StartHold,
         StartDelete, Raise
    <3>2. ~(DeleteChmod(p) \/ DeleteUnlink(p) \/ DeleteRmdir(p) \/ DeleteManifest(p))
      BY DEF NoDeleter, DeleteLabels, DeleteChmod, DeleteUnlink, DeleteRmdir, DeleteManifest
    <3>3. CASE Step(p)
      BY <3>0, <3>2, <3>3 DEF Step, IngestCopy, IngestOpenMeta, IngestWriteMeta, PromoteCheck,
         PromoteVerify, PromoteQuarantine, PromoteMkdir, PromoteExists, PromoteReverify,
         PromoteOpenCopy, PromoteCopied, PromoteSeal, PromotePublish, PromoteWrite, PromoteLock,
         PromoteClean, HoldChmod, HoldOpen, HoldWrite, HoldLock, LookForManifest, VerifyExisting,
         OpenManifest, WriteManifest, Try, Raise, Answer
    <3> QED
      BY <2>3, <3>1, <3>3
  <2> QED
    BY <2>1, <2>2, <2>3, TellStep DEF Next
<1> QED
  BY <1>1, <1>2

\* While nothing is deleted, the store implements a write-once store: an object
\* gets its bytes once, at the end of copyfile in promote_to_evidence, and every
\* answer names the bytes that are there.
THEOREM RefinesWriteOnce ==
  ASSUME "delete" \notin Ops
  PROVE  Spec => ImplementsWriteOnce
<1>1. Init => WriteOnce!Init
  BY StoreAssumption DEF Init, Fresh, Idle, Bytes, Told, WriteOnce!Init
<1>2. WormInv /\ WormInv' /\ [Next]_vars => [WriteOnce!Next]_(WriteOnce!vars)
  BY MapStep
<1> QED
  BY <1>1, <1>2, AlwaysWorm, PTL DEF Spec, ImplementsWriteOnce, WriteOnce!Spec

-----------------------------------------------------------------------------
(* Deletion, by one process at a time.                                      *)

Alone == \A p, r \in Proc : p = r

\* No hold and no retention forbids the removal of the original of i.
Removable(i) == Readable(i) /\ ~obj[i].manifest.hold /\ obj[i].manifest.until <= now

\* What the checks of delete_evidence found is so until the original is gone.
VerdictStands == \A p \in Proc : proc[p].pc \in {"d_chmod", "d_unlink"} => Removable(proc[p].ev)

\* Only delete_evidence goes on at the labels of a deletion.
LEMMA StepStaysOut ==
  ASSUME TypeInv, NEW p \in Proc, Step(p), proc[p].pc \notin DeleteLabels
  PROVE  proc'[p].pc \notin DeleteLabels
<1> DEFINE Out == {"idle", "i_meta", "i_write", "p_verify", "p_quar", "p_mkdir", "p_exists", "p_reverify",
                   "p_copy", "p_copying", "p_seal", "p_publish", "p_writing", "p_lock", "p_clean",
                   "h_open", "h_write", "h_lock"}
<1>1. proc \in [Proc -> ProcState]
  BY DEF TypeInv, ProcsOK
<1>2. ASSUME NEW l, Goto(p, l) PROVE proc'[p].pc = l
  BY <1>1, <1>2 DEF Goto, ProcState
<1>3. ASSUME NEW code, Raise(p, code) PROVE proc'[p].pc = "idle"
  BY <1>1, <1>3 DEF Raise, Become, Idle
<1>4. ASSUME NEW sha, Answer(p, sha) PROVE proc'[p].pc = "idle"
  BY <1>1, <1>4 DEF Answer, Become, Idle
<1>5. ASSUME NEW l, NEW x, NEW y, NEW z,
             \/ Become(p, [proc[p] EXCEPT !.pc = l, !.seen = x])
             \/ Become(p, [proc[p] EXCEPT !.pc = l, !.linked = y])
             \/ Become(p, [proc[p] EXCEPT !.pc = l, !.want = z, !.linked = y])
      PROVE  proc'[p].pc = l
  <2>1. PICK s : Become(p, s) /\ s.pc = l
    <3>1. proc[p] \in ProcState
      BY <1>1
    <3>2. /\ [proc[p] EXCEPT !.pc = l, !.seen = x].pc = l
          /\ [proc[p] EXCEPT !.pc = l, !.linked = y].pc = l
          /\ [proc[p] EXCEPT !.pc = l, !.want = z, !.linked = y].pc = l
      BY <3>1 DEF ProcState
    <3> QED
      BY <1>5, <3>2
  <2> QED
    BY <1>1, <2>1 DEF Become
<1>6. CASE IngestCopy(p) \/ IngestOpenMeta(p) \/ IngestWriteMeta(p)
  BY <1>2, <1>4, <1>6 DEF IngestCopy, IngestOpenMeta, IngestWriteMeta, DeleteLabels
<1>7. CASE PromoteCheck(p) \/ PromoteVerify(p) \/ PromoteQuarantine(p) \/ PromoteExists(p) \/ PromoteReverify(p)
  BY <1>2, <1>3, <1>4, <1>5, <1>7 DEF PromoteCheck, PromoteVerify, PromoteQuarantine, PromoteExists,
     PromoteReverify, LookForManifest, VerifyExisting, DeleteLabels
<1>8. CASE PromoteMkdir(p) \/ PromoteOpenCopy(p) \/ PromoteCopied(p) \/ PromoteSeal(p)
  BY <1>2, <1>3, <1>5, <1>8 DEF PromoteMkdir, PromoteOpenCopy, PromoteCopied, PromoteSeal, AfterSeal, DeleteLabels
<1>9. CASE PromotePublish(p) \/ PromoteWrite(p) \/ HoldOpen(p) \/ HoldWrite(p)
  BY <1>2, <1>3, <1>5, <1>9 DEF PromotePublish, PromoteWrite, HoldOpen, HoldWrite, OpenManifest, WriteManifest,
     DeleteLabels
<1>10. CASE PromoteLock(p) \/ PromoteClean(p) \/ HoldChmod(p) \/ HoldLock(p)
  <2>1. UNCHANGED proc => proc'[p].pc = proc[p].pc
    OBVIOUS
  <2> QED
    BY <1>2, <1>3, <1>4, <1>10, <2>1 DEF PromoteLock, PromoteClean, HoldChmod, HoldLock, Try, DeleteLabels
<1>11. ~(DeleteChmod(p) \/ DeleteUnlink(p) \/ DeleteRmdir(p) \/ DeleteManifest(p))
  BY DEF DeleteLabels, DeleteChmod, DeleteUnlink, DeleteRmdir, DeleteManifest
<1> QED
  BY <1>6, <1>7, <1>8, <1>9, <1>10, <1>11 DEF Step

\* Only rmtree takes an original away.
LEMMA OriginalStays ==
  ASSUME TypeInv, NEW p \in Proc, Step(p), proc[p].pc # "d_unlink", NEW i \in Evidence, obj[i].original # NoFile
  PROVE  obj'[i].original # NoFile
<1> DEFINE e == proc[p].ev
<1>1. obj \in [Evidence -> ObjState] /\ obj[i] \in ObjState
  BY DEF TypeInv, DiskOK
<1>2. ASSUME NEW ok, NEW o, Change(e, ok, o), o.original # NoFile \/ (e = i => ~ok)
      PROVE  obj'[i].original # NoFile
  BY <1>1, <1>2 DEF Change
<1>3. UNCHANGED obj => obj'[i].original # NoFile
  OBVIOUS
<1>4. e = i => obj[e].original # NoFile
  OBVIOUS
<1>5. e = i => obj[e] \in ObjState
  BY <1>1
<1>6. CASE PromoteOpenCopy(p)
  <2>1. \E ok : Change(e, ok, [obj[e] EXCEPT !.original = Torn])
    BY <1>6 DEF PromoteOpenCopy
  <2>2. CASE e = i
    <3>1. [obj[e] EXCEPT !.original = Torn].original = Torn
      BY <1>1, <2>2 DEF ObjState
    <3> QED
      BY <1>2, <2>1, <3>1, StoreAssumption
  <2>3. CASE e # i
    BY <1>1, <2>1, <2>3 DEF Change
  <2> QED
    BY <2>2, <2>3
<1>7. CASE PromoteCopied(p)
  <2>1. \E ok : Change(e, ok, [obj[e] EXCEPT !.original = proc[p].want])
    BY <1>7 DEF PromoteCopied
  <2>2. proc[p].want # NoFile
    BY <1>7, AtLabel, StoreAssumption DEF PromoteCopied
  <2>3. CASE e = i
    <3>1. [obj[e] EXCEPT !.original = proc[p].want].original = proc[p].want
      BY <1>1, <2>3 DEF ObjState
    <3> QED
      BY <1>2, <2>1, <2>2, <3>1
  <2>4. CASE e # i
    BY <1>1, <2>1, <2>4 DEF Change
  <2> QED
    BY <2>3, <2>4
<1>8. ASSUME NEW ok, NEW o, Change(e, ok, o), e = i => o.original = obj[e].original
      PROVE  obj'[i].original # NoFile
  BY <1>1, <1>8 DEF Change
<1>9. CASE PromoteMkdir(p) \/ PromoteSeal(p) \/ PromoteLock(p) \/ DeleteChmod(p) \/ DeleteRmdir(p)
  BY <1>5, <1>8, <1>9 DEF PromoteMkdir, PromoteSeal, PromoteLock, DeleteChmod, DeleteRmdir, ObjState
<1>10. CASE PromotePublish(p) \/ PromoteWrite(p) \/ HoldOpen(p) \/ HoldWrite(p)
  BY <1>5, <1>8, <1>10 DEF PromotePublish, PromoteWrite, HoldOpen, HoldWrite, OpenManifest, WriteManifest, ObjState
<1>11. CASE HoldChmod(p) \/ HoldLock(p) \/ DeleteManifest(p)
  BY <1>5, <1>8, <1>11 DEF HoldChmod, HoldLock, DeleteManifest, ChmodManifest, ObjState
<1>12. CASE \/ IngestCopy(p) \/ IngestOpenMeta(p) \/ IngestWriteMeta(p) \/ PromoteCheck(p) \/ PromoteVerify(p)
            \/ PromoteQuarantine(p) \/ PromoteExists(p) \/ PromoteReverify(p) \/ PromoteClean(p)
  BY <1>3, <1>12 DEF IngestCopy, IngestOpenMeta, IngestWriteMeta, PromoteCheck, PromoteVerify,
     PromoteQuarantine, PromoteExists, PromoteReverify, PromoteClean, LookForManifest, VerifyExisting
<1>13. ~DeleteUnlink(p)
  BY DEF DeleteUnlink
<1> QED
  BY <1>6, <1>7, <1>9, <1>10, <1>11, <1>12, <1>13 DEF Step

LEMMA VerdictNext ==
  ASSUME Alone
  PROVE  TypeInv /\ VerdictStands /\ [Next]_vars => VerdictStands'
<1> SUFFICES ASSUME TypeInv, VerdictStands, [Next]_vars PROVE VerdictStands'
  OBVIOUS
<1> USE DEF VerdictStands
<1>1. proc \in [Proc -> ProcState] /\ obj \in [Evidence -> ObjState] /\ now \in Nat
  BY DEF TypeInv, ProcsOK, DiskOK
<1>2. CASE UNCHANGED vars
  BY <1>2 DEF vars, Removable, Readable
<1>3. CASE Tick
  <2> SUFFICES ASSUME NEW p \in Proc, proc[p].pc \in {"d_chmod", "d_unlink"} PROVE Removable(proc[p].ev)'
    BY <1>3 DEF Tick
  <2>1. Removable(proc[p].ev)
    OBVIOUS
  <2>2. obj[proc[p].ev].manifest.until \in Nat
    BY <2>1 DEF Removable, Readable, Manifest
  <2> QED
    BY <1>1, <1>3, <2>1, <2>2 DEF Tick, Removable, Readable
<1>4. ASSUME NEW p \in Proc, proc'[p].pc \notin {"d_chmod", "d_unlink"} PROVE VerdictStands'
  BY <1>4 DEF Alone
<1>5. ASSUME NEW p \in Proc, Crash(p) PROVE VerdictStands'
  <2>1. proc'[p].pc = "idle"
    BY <1>1, <1>5 DEF Crash, Become, Fresh, Idle
  <2> QED
    BY <1>4, <2>1
<1>6. ASSUME NEW p \in Proc, Call(p) PROVE VerdictStands'
  <2>1. ASSUME NEW i \in Evidence, NEW force \in BOOLEAN, StartDelete(p, i, force) PROVE VerdictStands'
    <3>1. CASE Readable(i) /\ DeleteVerdict(obj[i].manifest, force) = "OK"
      <4>1. ~obj[i].manifest.hold /\ ~(now < obj[i].manifest.until)
        BY <3>1 DEF DeleteVerdict
      <4>2. obj[i].manifest.until \in Nat
        BY <3>1 DEF Readable, Manifest
      <4>3. Removable(i)
        BY <1>1, <3>1, <4>1, <4>2 DEF Removable
      <4>4. Become(p, InCall("d_chmod", proc[p].q, i, NoFile, 0, NoFile)) /\ obj' = obj /\ now' = now
        BY <2>1, <3>1 DEF StartDelete, Raise, Become
      <4>5. proc'[p].ev = i
        BY <1>1, <4>4 DEF Become, InCall
      <4>6. Removable(i)'
        BY <4>3, <4>4 DEF Removable, Readable
      <4> QED
        BY <4>5, <4>6 DEF Alone
    <3>2. CASE ~(Readable(i) /\ DeleteVerdict(obj[i].manifest, force) = "OK")
      <4>1. \E code : Raise(p, code)
        BY <2>1, <3>2 DEF StartDelete, ReadError
      <4>2. proc'[p].pc = "idle"
        BY <1>1, <4>1 DEF Raise, Become, Idle
      <4> QED
        BY <1>4, <4>2
    <3> QED
      BY <3>1, <3>2
  <2>2. ASSUME ~\E i \in Evidence, force \in BOOLEAN : StartDelete(p, i, force) PROVE VerdictStands'
    <3>1. \/ \E s : Become(p, s) /\ s.pc \notin {"d_chmod", "d_unlink"}
          \/ \E code : Raise(p, code)
      <4>1. \A q, c, l, i, r, m : InCall(l, q, i, c, r, m).pc = l
        BY DEF InCall
      <4>2. \A q : Fresh(q).pc = "idle"
        BY DEF Fresh, Idle
      <4>3. ASSUME NEW c \in Content, NEW q \in Quarantine, StartIngest(p, c, q)
            PROVE  Become(p, InCall("i_copy", q, NoFile, c, 0, NoFile))
        BY <4>3 DEF StartIngest
      <4>4. ASSUME NEW c \in Content, FindQuarantine(p, c) PROVE \E q : Become(p, Fresh(q))
        BY <4>4 DEF FindQuarantine
      <4>5. ASSUME NEW i \in Evidence, NEW c \in Content, NEW r \in Retention, StartPromote(p, i, c, r)
            PROVE  Become(p, InCall("p_check", proc[p].q, i, c, r, NoFile))
        BY <4>5 DEF StartPromote
      <4>6. ASSUME NEW i \in Evidence, NEW h \in BOOLEAN, StartHold(p, i, h)
            PROVE  \/ \E m : Become(p, InCall("h_chmod", proc[p].q, i, NoFile, 0, m))
                   \/ \E code : Raise(p, code)
        BY <4>6 DEF StartHold
      <4> QED
        BY <1>6, <2>2, <4>1, <4>2, <4>3, <4>4, <4>5, <4>6 DEF Call
    <3>2. proc'[p].pc \notin {"d_chmod", "d_unlink"}
      BY <1>1, <3>1 DEF Raise, Become, Idle
    <3> QED
      BY <1>4, <3>2
  <2> QED
    BY <2>1, <2>2
<1>7. ASSUME NEW p \in Proc, Step(p) PROVE VerdictStands'
  <2>1. CASE proc[p].pc \notin DeleteLabels
    BY <1>4, <1>7, <2>1, StepStaysOut DEF DeleteLabels
  <2>2. CASE DeleteChmod(p)
    <3>1. Removable(proc[p].ev) /\ proc[p].ev \in Evidence
      BY <2>2, AtLabel DEF DeleteChmod
    <3>2. obj'[proc[p].ev].manifest = obj[proc[p].ev].manifest /\ now' = now
      BY <1>1, <2>2, <3>1 DEF DeleteChmod, Change, ObjState
    <3>3. Removable(proc[p].ev)'  \/ proc'[p].pc = "idle"
      <4>1. CASE Goto(p, "d_unlink")
        <5>1. proc'[p].ev = proc[p].ev
          BY <1>1, <4>1 DEF Goto, ProcState
        <5> QED
          BY <3>1, <3>2, <5>1 DEF Removable, Readable
      <4>2. CASE Raise(p, "OS_ERROR")
        BY <1>1, <4>2 DEF Raise, Become, Idle
      <4> QED
        BY <2>2, <4>1, <4>2 DEF DeleteChmod, Try
    <3> QED
      BY <3>3 DEF Alone
  <2>3. CASE DeleteUnlink(p) \/ DeleteRmdir(p) \/ DeleteManifest(p)
    <3>1. \/ \E i, w : BecomeUnlinking(p, [proc[p] EXCEPT !.pc = "d_rmdir"], i, w)
          \/ \E i, w : BecomeUnlinking(p, Idle(proc[p].q, "OK", i, NoFile), i, w)
          \/ \E l \in {"d_rmdir", "d_manifest"} : Goto(p, l)
          \/ \E code : Raise(p, code)
      BY <2>3 DEF DeleteUnlink, DeleteRmdir, DeleteManifest, Try
    <3>2. proc'[p].pc \in {"d_rmdir", "d_manifest", "idle"}
      BY <1>1, <3>1 DEF BecomeUnlinking, Idle, Goto, Raise, Become, ProcState
    <3> QED
      BY <1>4, <3>2
  <2>4. proc[p].pc \in DeleteLabels => DeleteChmod(p) \/ DeleteUnlink(p) \/ DeleteRmdir(p) \/ DeleteManifest(p)
    BY <1>7 DEF DeleteLabels, Step, IngestCopy, IngestOpenMeta, IngestWriteMeta, PromoteCheck,
       PromoteVerify, PromoteQuarantine, PromoteMkdir, PromoteExists, PromoteReverify,
       PromoteOpenCopy, PromoteCopied, PromoteSeal, PromotePublish, PromoteWrite, PromoteLock,
       PromoteClean, HoldChmod, HoldOpen, HoldWrite, HoldLock, LookForManifest, VerifyExisting,
       OpenManifest, WriteManifest
  <2> QED
    BY <2>1, <2>2, <2>3, <2>4
<1> QED
  BY <1>2, <1>3, <1>5, <1>6, <1>7 DEF Next

LEMMA RemovedLawfully ==
  ASSUME TypeInv, VerdictStands, [Next]_vars
  PROVE  [\A i \in Evidence : obj[i].original # NoFile /\ obj'[i].original = NoFile
            => Readable(i) /\ ~obj[i].manifest.hold /\ obj[i].manifest.until <= now]_vars
<1> SUFFICES ASSUME NEW i \in Evidence, obj[i].original # NoFile, obj'[i].original = NoFile
             PROVE  Removable(i)
  BY DEF Removable
<1>1. obj' # obj
  OBVIOUS
<1>2. PICK p \in Proc : Step(p)
  BY <1>1 DEF Next, vars, Tick, Crash, Call, StartIngest, FindQuarantine, StartPromote, StartHold, StartDelete
<1>3. proc[p].pc = "d_unlink"
  BY <1>2, OriginalStays
<1>4. DeleteUnlink(p)
  BY <1>2, <1>3 DEF Step, IngestCopy, IngestOpenMeta, IngestWriteMeta, PromoteCheck,
     PromoteVerify, PromoteQuarantine, PromoteMkdir, PromoteExists, PromoteReverify,
     PromoteOpenCopy, PromoteCopied, PromoteSeal, PromotePublish, PromoteWrite, PromoteLock,
     PromoteClean, HoldChmod, HoldOpen, HoldWrite, HoldLock, LookForManifest, VerifyExisting,
     OpenManifest, WriteManifest, DeleteChmod, DeleteRmdir, DeleteManifest
<1>5. proc[p].ev = i
  BY <1>4 DEF DeleteUnlink, Change, TypeInv, DiskOK
<1> QED
  BY <1>3, <1>5 DEF VerdictStands

\* With one process at the store, what delete_evidence checked still holds when
\* rmtree removes the original: no hold, and the retention is over.
THEOREM DeletesLawfully ==
  ASSUME Alone
  PROVE  Spec => DeletionLawful
<1>1. Init => VerdictStands
  BY DEF Init, VerdictStands, Fresh, Idle
<1>2. TypeInv /\ VerdictStands /\ [Next]_vars => TypeInv' /\ VerdictStands'
  BY NextType, VerdictNext
<1>3. TypeInv /\ VerdictStands /\ [Next]_vars
        => [\A i \in Evidence : obj[i].original # NoFile /\ obj'[i].original = NoFile
              => Readable(i) /\ ~obj[i].manifest.hold /\ obj[i].manifest.until <= now]_vars
  BY RemovedLawfully
<1> QED
  BY <1>1, <1>2, <1>3, InitType, PTL DEF Spec, DeletionLawful
=============================================================================
