------------------------------ MODULE Extraction -----------------------------
(***************************************************************************)
(* Allowlisted extraction by the three forensic adapters (uac_adapter.py,  *)
(* velociraptor_adapter.py, disk_memory_adapter.py) below one analysis     *)
(* root, and the stager's look into archives before (staging.py).          *)
(*                                                                         *)
(* A member has a normalized path and a size in blocks (the code reads 1   *)
(* MiB at a time); a digest stands for the version of a member.  Bytes go  *)
(* to a temporary file, block by block, and os.replace publishes it.  The  *)
(* source is whatever file the adapter was given, the stager's copy or the *)
(* caller's own: it may change, a read may fail, and the process may die   *)
(* at any point; a later call then extracts into the same root.            *)
(***************************************************************************)
EXTENDS Naturals, Sequences, FiniteSets

CONSTANTS
  Path,       \* normalized relative paths, numbers: sorted() is their order
  Scenario,   \* an adapter, the form of its source, the members, the requests
  Size,       \* sizes a member may change to
  MaxFile, MaxTotal, MaxMembers,  \* the limits, in blocks and members
  MaxCalls    \* bound: calls of extract

\* safe: _safe_member accepts the name.  exact: the name is spelt in its normal
\* form (no backslash).  sealed: the encryption flag of a ZIP member.  linked: a
\* regular file reached through a symlink to a directory.
Member == [path : Path, safe : BOOLEAN, exact : BOOLEAN, sealed : BOOLEAN,
           kind : {"file", "linked", "directory", "symlink"}, size : Nat, ver : {"old"}]

IsScenario(s) ==
  /\ <<s.adapter, s.form>> \in ({"uac", "velociraptor"} \X {"directory", "zip"})
                                \cup {<<"uac", "tar">>, <<"disk", "file">>}
  /\ s.members \in Seq(Member)
  /\ s.wanted \in Seq([path : Path, safe : BOOLEAN]) \ {<<>>}
  /\ s.valid \in BOOLEAN  \* the archive passes its integrity test
  \* What is found under a safe path has a safe name.
  /\ s.form \in {"directory", "file"} /\ s.adapter # "velociraptor"
       => \A i \in DOMAIN s.members : s.members[i].safe
  /\ s.form # "directory" => \A i \in DOMAIN s.members : s.members[i].kind # "linked"
  /\ s.adapter = "disk" => Len(s.members) = 1 /\ s.members[1].kind = "file"

ASSUME ExtractionAssumption ==
  /\ Path \subseteq Nat /\ Size \subseteq Nat
  /\ {MaxFile, MaxTotal, MaxMembers, MaxCalls} \subseteq Nat
  /\ \A s \in Scenario : IsScenario(s)

VARIABLES
  sc,     \* the scenario
  src,    \* the members as they are now
  inv,    \* the inventory extract works from (Velociraptor)
  pc,     \* idle, loop, copy, or how the call ended: returned, raised, dead
  todo,   \* what is left to look at
  cur,    \* the copy under way
  out,    \* published files, by path
  temps,  \* temporary files left in the root
  total,  \* bytes the call counts against max_total_bytes
  tally,  \* extracted and rejected counts, number of errors
  status, \* the status the call reports
  calls,
  limited \* history: a size limit stopped something

vars == <<sc, src, inv, pc, todo, cur, out, temps, total, tally, status, calls, limited>>

NoCopy == [at |-> 0, path |-> 0, ver |-> "old", size |-> 0, n |-> 0]
NoTally == [extracted |-> 0, rejected |-> 0, errors |-> 0]

-----------------------------------------------------------------------------
(* What is looked at, and what becomes of it before any byte is read.       *)

\* The sum of w over a finite set.
SumOver(w, set) ==
  LET sum[s \in SUBSET set] ==
        IF s = {} THEN 0 ELSE LET x == CHOOSE x \in s : TRUE IN w[x] + sum[s \ {x}]
  IN  sum[set]

FileSizes(ms) == [i \in DOMAIN ms |-> IF ms[i].kind = "file" THEN ms[i].size ELSE 0]

\* EvidenceStager._validate_archive: declared sizes, one after the other; the
\* test of a ZIP cannot read encrypted members.
StagerAcceptsTotal(ms) ==
  /\ Len(ms) <= MaxMembers
  /\ \A i \in DOMAIN ms : ms[i].safe /\ ms[i].kind # "symlink" /\ ~ms[i].sealed
  /\ SumOver(FileSizes(ms), DOMAIN ms) <= MaxTotal
StagerAccepts(ms) ==
  /\ Len(ms) <= MaxMembers
  /\ \A i \in DOMAIN ms : ms[i].safe /\ ms[i].kind # "symlink" /\ ~ms[i].sealed
                          /\ (ms[i].kind = "file" => ms[i].size <= MaxFile)
  /\ SumOver(FileSizes(ms), DOMAIN ms) <= MaxTotal

Archive == sc.form \in {"zip", "tar"}
Last(p) == LET at == {i \in DOMAIN src : src[i].path = p}
           IN  IF at = {} THEN 0 ELSE CHOOSE i \in at : \A j \in at : j <= i

\* The paths the allowlist of UAC comes to.
Wanted == {sc.wanted[i].path : i \in {i \in DOMAIN sc.wanted : sc.wanted[i].safe}}

\* UAC walks a directory by the sorted allowlist and an archive by its members;
\* the others go by the requests, a ZIP's last member of a name standing for it.
AllowlistQueue ==
  LET place(p) == Cardinality({q \in Wanted : q <= p})
      nth(i)   == CHOOSE p \in Wanted : place(p) = i
  IN  [i \in 1..Cardinality(Wanted) |-> [path |-> nth(i), safe |-> TRUE, at |-> Last(nth(i))]]
MemberQueue == [i \in DOMAIN src |-> [path |-> src[i].path, safe |-> src[i].safe, at |-> i]]
RequestQueue ==
  [i \in DOMAIN sc.wanted |->
     [path |-> sc.wanted[i].path, safe |-> sc.wanted[i].safe, at |-> Last(sc.wanted[i].path)]]
Queue == IF sc.adapter # "uac" THEN RequestQueue ELSE IF Archive THEN MemberQueue ELSE AllowlistQueue

\* UACAdapter.extract: copied, skipped without a word (a member not asked for, a
\* directory of a ZIP), an error, or an error that counts as a rejection too.  In a
\* directory only the last name of a path is looked at for a symlink; in a ZIP
\* nothing is, and a symlink is copied as the file of its target's name.
UacMember(m) ==
  CASE sc.form = "zip" /\ m.kind = "directory" -> "skip"
    [] sc.form = "zip" /\ m.kind # "directory" -> IF m.sealed THEN "reject" ELSE "copy"
    [] sc.form # "zip" -> IF m.kind \in {"file", "linked"} THEN "copy" ELSE "reject"
UacVerdict(it) ==
  IF ~it.safe THEN "reject"
  ELSE IF Archive /\ it.path \notin Wanted THEN "skip"
  ELSE IF it.at = 0 THEN "error" ELSE UacMember(src[it.at])

\* VelociraptorAdapter.extract: against the inventory, whose walk of a directory
\* does not enter symlinks.
VelociraptorVerdict(it) ==
  CASE ~it.safe \/ it.at = 0 -> "error"
    [] it.safe /\ it.at # 0 -> LET e == inv[it.at] IN
         IF e.kind # "file" THEN "error"
         ELSE IF e.size > MaxFile \/ total + e.size > MaxTotal THEN "limit" ELSE "copy"

\* DiskMemoryAdapter.extract: only the source itself, never over another file.
DiskVerdict(it) ==
  IF ~it.safe \/ it.at = 0 THEN "error"
  ELSE IF src[1].size > MaxFile \/ total + src[1].size > MaxTotal THEN "limit"
  ELSE IF it.path \in DOMAIN out THEN "error" ELSE "copy"

Verdict(it) ==
  CASE sc.adapter = "uac"          -> UacVerdict(it)
    [] sc.adapter = "velociraptor" -> VelociraptorVerdict(it)
    [] sc.adapter = "disk"         -> DiskVerdict(it)

\* _inventory_zip, _inventory_directory: they refuse the whole source for one
\* unsafe name, one large file or one encrypted member.
InventoryFails ==
  /\ sc.adapter = "velociraptor"
  /\ \E i \in DOMAIN src : ~src[i].safe \/ (src[i].kind = "file" /\ (src[i].size > MaxFile \/ src[i].sealed))

-----------------------------------------------------------------------------
Init ==
  /\ sc \in Scenario
  /\ src = sc.members /\ inv = sc.members
  /\ pc = "idle" /\ todo = <<>> /\ cur = NoCopy
  /\ out = [p \in {} |-> 0] /\ temps = {}
  /\ total = 0 /\ tally = NoTally /\ status = "none" /\ calls = 0 /\ limited = FALSE

\* extract is called: validation and inventory, then the requests that are no
\* safe path (UAC counts them at once).
Extract ==
  /\ pc \in {"idle", "returned", "raised", "dead"} /\ calls < MaxCalls
  /\ calls' = calls + 1
  /\ total' = 0 /\ status' = "none" /\ cur' = NoCopy /\ limited' = FALSE
  /\ inv' = src
  /\ LET bad == Cardinality({i \in DOMAIN sc.wanted : ~sc.wanted[i].safe}) IN
     tally' = IF sc.adapter = "uac" THEN [NoTally EXCEPT !.rejected = bad, !.errors = bad] ELSE NoTally
  /\ IF (Archive /\ ~sc.valid) \/ InventoryFails
     THEN pc' = "raised" /\ todo' = <<>>
     ELSE pc' = "loop" /\ todo' = Queue
  /\ UNCHANGED <<sc, src, out, temps>>

RefuseUnlisted(counted) ==
  tally' = [tally EXCEPT !.rejected = IF counted THEN @ + 1 ELSE @]
Refuse(counted) ==
  tally' = [tally EXCEPT !.errors = @ + 1, !.rejected = IF counted THEN @ + 1 ELSE @]

\* An item that is not copied.
Pass == LET v == Verdict(Head(todo)) IN
  /\ pc = "loop" /\ todo # <<>> /\ v # "copy"
  /\ todo' = Tail(todo)
  /\ IF v = "skip" THEN UNCHANGED tally ELSE Refuse(v = "reject")
  /\ limited' = (limited \/ v = "limit")
  /\ UNCHANGED <<sc, src, inv, pc, cur, out, temps, total, status, calls>>

\* The temporary file is made.  UAC raises, out of the whole call, when the
\* destination exists; Velociraptor when the ZIP has no member of that spelling.
Open == LET it == Head(todo) IN
  /\ pc = "loop" /\ todo # <<>> /\ Verdict(it) = "copy"
  /\ \/ /\ \/ sc.adapter = "uac" /\ it.path \in DOMAIN out
           \/ sc.adapter = "velociraptor" /\ sc.form = "zip" /\ ~src[it.at].exact
        /\ pc' = "raised" /\ UNCHANGED cur
     \/ /\ ~(sc.adapter = "uac" /\ it.path \in DOMAIN out)
        /\ ~(sc.adapter = "velociraptor" /\ sc.form = "zip" /\ ~src[it.at].exact)
        /\ pc' = "copy"
        /\ cur' = [at |-> it.at, path |-> it.path, ver |-> src[it.at].ver, size |-> src[it.at].size, n |-> 0]
  /\ UNCHANGED <<sc, src, inv, todo, out, temps, total, tally, status, calls, limited>>

OverLimit(n) == n > MaxFile \/ total + n > MaxTotal

\* _copy_stream: one block more.  shutil.copyfile (disk) does not look at limits.
BlockUncounted ==
  /\ pc = "copy" /\ cur.n < cur.size
  /\ IF sc.adapter # "disk" /\ cur.n + 1 > MaxFile
     THEN /\ pc' = "loop" /\ todo' = Tail(todo) /\ cur' = NoCopy
          /\ Refuse(sc.adapter = "uac") /\ limited' = TRUE
     ELSE cur' = [cur EXCEPT !.n = @ + 1] /\ UNCHANGED <<pc, todo, tally, limited>>
  /\ UNCHANGED <<sc, src, inv, out, temps, total, status, calls>>
Block ==
  /\ pc = "copy" /\ cur.n < cur.size
  /\ IF sc.adapter # "disk" /\ OverLimit(cur.n + 1)
     THEN /\ pc' = "loop" /\ todo' = Tail(todo) /\ cur' = NoCopy
          /\ Refuse(sc.adapter = "uac") /\ limited' = TRUE
     ELSE cur' = [cur EXCEPT !.n = @ + 1] /\ UNCHANGED <<pc, todo, tally, limited>>
  /\ UNCHANGED <<sc, src, inv, out, temps, total, status, calls>>

\* Reading fails (a damaged member, an I/O error): the exception leaves extract.
\* UAC removes its temporary file only for its own errors.
ReadError ==
  /\ pc = "copy" /\ cur.n < cur.size
  /\ pc' = "raised" /\ cur' = NoCopy
  /\ temps' = IF sc.adapter = "uac" THEN temps \cup {cur.path} ELSE temps
  /\ UNCHANGED <<sc, src, inv, todo, out, total, tally, status, calls, limited>>

\* Everything read.  Velociraptor compares with the inventory, then the file is
\* renamed into place.
SameAsInventory == cur.ver = inv[cur.at].ver /\ cur.n = inv[cur.at].size
PublishUnchecked ==
  /\ pc = "copy" /\ cur.n >= cur.size
  /\ pc' = "loop" /\ todo' = Tail(todo) /\ cur' = NoCopy
  /\ out' = [p \in DOMAIN out \cup {cur.path} |-> IF p = cur.path THEN [cur |-> cur, call |-> calls, listed |-> inv[cur.at].ver] ELSE out[p]]
  /\ total' = total + cur.n
  /\ tally' = [tally EXCEPT !.extracted = @ + 1]
  /\ UNCHANGED <<sc, src, inv, temps, status, calls, limited>>
Publish ==
  /\ pc = "copy" /\ cur.n >= cur.size
  /\ pc' = "loop" /\ todo' = Tail(todo) /\ cur' = NoCopy
  /\ \/ /\ sc.adapter = "velociraptor" /\ ~SameAsInventory
        /\ Refuse(FALSE) /\ UNCHANGED <<out, total>>
     \/ /\ sc.adapter = "velociraptor" => SameAsInventory
        /\ out' = [p \in DOMAIN out \cup {cur.path} |->
                     IF p = cur.path THEN [cur |-> cur, call |-> calls, listed |-> inv[cur.at].ver] ELSE out[p]]
        /\ total' = total + cur.n
        /\ tally' = [tally EXCEPT !.extracted = @ + 1]
  /\ UNCHANGED <<sc, src, inv, temps, status, calls, limited>>

ReturnLenient ==
  /\ pc = "loop" /\ todo = <<>> /\ pc' = "returned"
  /\ status' = IF tally.extracted > 0 THEN "completed" ELSE "failed"
  /\ UNCHANGED <<sc, src, inv, todo, cur, out, temps, total, tally, calls, limited>>
Return ==
  /\ pc = "loop" /\ todo = <<>> /\ pc' = "returned"
  /\ status' = IF tally.errors = 0 THEN "completed"
               ELSE IF tally.extracted > 0 THEN "partial"
               ELSE IF sc.adapter = "velociraptor" THEN "failed" ELSE "rejected"
  /\ UNCHANGED <<sc, src, inv, todo, cur, out, temps, total, tally, calls, limited>>

-----------------------------------------------------------------------------
(* The surroundings.                                                        *)

\* What a change leaves of the copy under way: of a file written in place it may
\* become a mix of both versions.
CopyAfterChange(i, size) ==
  IF pc # "copy" \/ cur.at # i \/ sc.form = "zip" THEN cur
  ELSE IF cur.n = 0 THEN [cur EXCEPT !.ver = "new", !.size = size]
  ELSE IF cur.n >= cur.size /\ cur.n >= size THEN cur
  ELSE [cur EXCEPT !.ver = "torn", !.size = size]

\* Files of a directory and images are written in place, under an open copy too.  A
\* ZIP is replaced, as its checksums notice what is written into it (ReadError): who
\* has it open reads on in the old one, UAC for all of its call, Velociraptor for
\* the member.  Of a tar that UAC has open, the bytes may change; where its members
\* lie was read before.
Change(i, size) ==
  /\ src[i].kind \in {"file", "linked"} /\ src[i].ver = "old"
  /\ sc.adapter = "uac" /\ pc \in {"loop", "copy"} =>
       /\ sc.form # "zip"
       /\ sc.form = "tar" => size = src[i].size
  /\ src' = [src EXCEPT ![i].ver = "new", ![i].size = size]
  /\ cur' = CopyAfterChange(i, size)
  /\ UNCHANGED <<sc, inv, pc, todo, out, temps, total, tally, status, calls, limited>>

Die ==
  /\ pc \in {"loop", "copy"}
  /\ pc' = "dead" /\ cur' = NoCopy
  /\ temps' = IF pc = "copy" THEN temps \cup {cur.path} ELSE temps
  /\ UNCHANGED <<sc, src, inv, todo, out, total, tally, status, calls, limited>>

Next ==
  \/ Extract \/ Pass \/ Open \/ Block \/ Publish \/ Return \/ ReadError \/ Die
  \/ \E i \in DOMAIN src, size \in Size : Change(i, size)

Spec == Init /\ [][Next]_vars

-----------------------------------------------------------------------------
(* Properties.                                                              *)

\* cur.n may pass cur.size: a file can shrink under the reader.
TypeOK ==
  /\ IsScenario(sc) /\ DOMAIN src = DOMAIN sc.members /\ DOMAIN inv = DOMAIN src
  /\ pc \in {"idle", "loop", "copy", "returned", "raised", "dead"}
  /\ DOMAIN out \subseteq Path /\ temps \subseteq Path
  /\ status \in {"none", "completed", "partial", "failed", "rejected"}
  /\ tally \in [extracted : Nat, rejected : Nat, errors : Nat] /\ tally.rejected <= tally.errors
  /\ total \in Nat /\ calls \in 0..MaxCalls /\ limited \in BOOLEAN

ThisCall == {p \in DOMAIN out : out[p].call = calls}
Bytes(ps) == SumOver([p \in ps |-> out[p].cur.n], ps)

\* What one call has written, published or not, stays within the limits at every
\* moment, by the bytes read and not by declared sizes.
LimitsKept ==
  /\ \A p \in ThisCall : out[p].cur.n <= MaxFile
  /\ cur.n <= MaxFile
  /\ Bytes(ThisCall) + cur.n <= MaxTotal

\* UAC and Velociraptor keep the limits also for a file that grows under the reader
\* (_copy_stream and the loop of Velociraptor); the disk adapter, whose copyfile
\* looks at no limit, keeps them for an image that does not change.
WithinLimits == (sc.adapter = "disk" => src = sc.members) => LimitsKept

\* Whatever failed or died, a file appears under its name only when the reader has
\* come to the end of a safely named member.  With Velociraptor it is a regular file
\* with the bytes of the inventory; what UAC and the disk adapter copied from a file
\* being written may be a mix of its versions.  Of a tar and an image only regular
\* files are published; from a ZIP UAC publishes symlink members too, and from a
\* directory what lies behind a linked one, for it does not look.
PublishedToEnd ==
  \A p \in DOMAIN out : LET c == out[p].cur IN
    /\ c.n >= c.size /\ src[c.at].safe /\ src[c.at].path = p
    /\ sc.adapter # "uac" \/ sc.form = "tar" => src[c.at].kind = "file"
    /\ sc.adapter = "velociraptor" => c.ver = out[p].listed

\* A call that reports completed has put every requested path there (UAC on an
\* archive: every one that a regular member has; it says nothing of others),
\* and no path was rejected or missing.
CompletedMeansAll ==
  pc = "returned" /\ status = "completed" =>
    \A i \in DOMAIN sc.wanted : LET p == sc.wanted[i].path IN
      /\ sc.wanted[i].safe
      /\ \/ p \in DOMAIN out
         \/ sc.adapter = "uac" /\ Archive
            /\ \A k \in DOMAIN src : src[k].path = p => ~src[k].safe \/ src[k].kind = "directory"

\* An archive the stager let through, and that is still the one it looked at, meets
\* no size limit in the adapters, which keep limits of their own (paths requested
\* once each).
StagedFits ==
  Archive /\ limited /\ src = sc.members /\ (\A i, j \in DOMAIN sc.wanted : sc.wanted[i].path = sc.wanted[j].path => i = j)
    => ~StagerAccepts(sc.members)
=============================================================================
