-------------------------- MODULE ExtractionProofs ---------------------------
(***************************************************************************)
(* Proofs about Extraction, for any sources, requests, limits and failures. *)
(***************************************************************************)
EXTENDS Extraction, FiniteSetTheorems, WellFoundedInduction, TLAPS

-----------------------------------------------------------------------------
(* Sums over finite sets.                                                   *)

Some(s) == CHOOSE x \in s : TRUE

\* f is the table of sums of w over the sets of a family.
Sums(f, w, family) ==
  f = [s \in family |-> IF s = {} THEN 0 ELSE w[Some(s)] + f[s \ {Some(s)}]]
Table(f, w, set) == Sums(f, w, SUBSET set)

\* The weights agree on a set.
Agree(v, w, S) == \A x \in S : v[x] = w[x]

Upto(set, n) == {s \in SUBSET set : Cardinality(s) <= n}

\* A non-empty set of numbers has a least one.
LEMMA Least == ASSUME NEW T, T \subseteq Nat, T # {} PROVE \E n \in T : \A m \in T : n <= m
<1>1. PICK n \in T : \A m \in T : ~(<<m, n>> \in OpToRel(<, Nat))
  BY WFMin, NatLessThanWellFounded
<1>2. \A m \in T : ~(m < n)
  BY <1>1 DEF OpToRel
<1> QED
  BY <1>2

LEMMA Parts ==
  ASSUME NEW set, IsFiniteSet(set), NEW s, s \subseteq set
  PROVE  /\ IsFiniteSet(s) /\ Cardinality(s) \in Nat /\ (Cardinality(s) = 0 <=> s = {})
         /\ \A x \in s : IsFiniteSet(s \ {x}) /\ s \ {x} \subseteq set /\ Cardinality(s \ {x}) = Cardinality(s) - 1
         /\ s # {} => Some(s) \in s
<1>1. IsFiniteSet(s)
  BY FS_Subset
<1>2. Cardinality(s) \in Nat /\ (Cardinality(s) = 0 <=> s = {})
  BY <1>1, FS_CardinalityType, FS_EmptySet
<1>3. \A x \in s : IsFiniteSet(s \ {x}) /\ Cardinality(s \ {x}) = Cardinality(s) - 1
  BY <1>1, FS_RemoveElement
<1> QED
  BY <1>1, <1>2, <1>3 DEF Some

\* The tables exist: by the number of elements.
LEMMA SumsExist ==
  ASSUME NEW w, NEW set, IsFiniteSet(set)
  PROVE  \E f : Sums(f, w, SUBSET set)
<1> DEFINE Missing == {n \in Nat : ~\E f : Sums(f, w, Upto(set, n))}
<1>1. Missing = {}
  <2> SUFFICES ASSUME Missing # {} PROVE FALSE
    OBVIOUS
  <2>1. PICK n \in Missing : \A m \in Missing : n <= m
    BY Least
  <2>2. n \in Nat /\ ~\E f : Sums(f, w, Upto(set, n))
    BY <2>1
  <2>3. CASE n = 0
    <3>1. \A s \in Upto(set, 0) : s = {}
      BY Parts DEF Upto
    <3> DEFINE f == [s \in Upto(set, 0) |-> 0]
    <3>2. f = [s \in Upto(set, 0) |-> IF s = {} THEN 0 ELSE w[Some(s)] + f[s \ {Some(s)}]]
      BY <3>1
    <3> QED
      BY <2>2, <2>3, <3>2 DEF Sums
  <2>4. CASE n # 0
    <3>1. n - 1 \in Nat /\ n - 1 \notin Missing
      BY <2>1, <2>2, <2>4
    <3>2. PICK g : Sums(g, w, Upto(set, n - 1))
      BY <3>1
    <3> DEFINE f == [s \in Upto(set, n) |-> IF s = {} THEN 0 ELSE w[Some(s)] + g[s \ {Some(s)}]]
    <3>3. \A s \in Upto(set, n - 1) : s \in Upto(set, n) /\ f[s] = g[s]
      <4> TAKE s \in Upto(set, n - 1)
      <4>1. s \in Upto(set, n)
        BY <2>2, <3>1, Parts DEF Upto
      <4>2. g[s] = IF s = {} THEN 0 ELSE w[Some(s)] + g[s \ {Some(s)}]
        BY <3>2 DEF Sums
      <4> QED
        BY <4>1, <4>2
    <3>4. \A s \in Upto(set, n) : s # {} => s \ {Some(s)} \in Upto(set, n - 1)
      <4> TAKE s \in Upto(set, n)
      <4>1. s \subseteq set /\ Cardinality(s) <= n
        BY DEF Upto
      <4> QED
        BY <2>2, <4>1, Parts DEF Upto
    <3>5. f = [s \in Upto(set, n) |-> IF s = {} THEN 0 ELSE w[Some(s)] + f[s \ {Some(s)}]]
      BY <3>3, <3>4
    <3>6. \E h : Sums(h, w, Upto(set, n))
      BY <3>5 DEF Sums
    <3> QED
      BY <2>2, <3>6
  <2> QED
    BY <2>3, <2>4
<1>2. Cardinality(set) \in Nat /\ \A s \in SUBSET set : Cardinality(s) <= Cardinality(set)
  BY FS_CardinalityType, FS_Subset
<1>3. Upto(set, Cardinality(set)) = SUBSET set
  BY <1>2 DEF Upto
<1>4. \E f : Sums(f, w, Upto(set, Cardinality(set)))
  BY <1>1, <1>2
<1> QED
  BY <1>3, <1>4

LEMMA SumTable ==
  ASSUME NEW w, NEW set, IsFiniteSet(set)
  PROVE  \E f : Table(f, w, set) /\ SumOver(w, set) = f[set]
<1> DEFINE sum == CHOOSE f : Table(f, w, set)
<1>1. Table(sum, w, set)
  BY SumsExist DEF Table
<1>2. SumOver(w, set) = sum[set]
  BY DEF SumOver, Table, Sums, Some
<1> QED
  BY <1>1, <1>2

\* Tables of weights that agree have the same sums.
LEMMA SumsAgree ==
  ASSUME NEW v, NEW w, NEW S, NEW T, IsFiniteSet(S), T \in SUBSET S, Agree(v, w, T),
         NEW f, Table(f, v, S), NEW g, Table(g, w, T)
  PROVE  \A s \in SUBSET T : f[s] = g[s]
<1> DEFINE Bad == {n \in Nat : \E s \in SUBSET T : Cardinality(s) = n /\ f[s] # g[s]}
<1>1. Bad = {}
  <2> SUFFICES ASSUME Bad # {} PROVE FALSE
    OBVIOUS
  <2>1. PICK n \in Bad : \A m \in Bad : n <= m
    BY Least
  <2>2. PICK s \in SUBSET T : Cardinality(s) = n /\ f[s] # g[s]
    BY <2>1
  <2>3. /\ f[s] = IF s = {} THEN 0 ELSE v[Some(s)] + f[s \ {Some(s)}]
        /\ g[s] = IF s = {} THEN 0 ELSE w[Some(s)] + g[s \ {Some(s)}]
    BY DEF Table, Sums
  <2>4. s # {}
    BY <2>2, <2>3
  <2>5. /\ Some(s) \in s /\ Cardinality(s \ {Some(s)}) = n - 1 /\ n \in Nat /\ n # 0
        /\ Cardinality(s \ {Some(s)}) \in Nat
    BY <2>1, <2>2, <2>4, Parts
  <2>6. n - 1 \notin Bad
    BY <2>1, <2>5
  <2>7. f[s \ {Some(s)}] = g[s \ {Some(s)}]
    BY <2>5, <2>6
  <2> QED
    BY <2>2, <2>3, <2>4, <2>5, <2>7 DEF Agree
<1>2. \A s \in SUBSET T : Cardinality(s) \in Nat
  BY Parts
<1> QED
  BY <1>1, <1>2

LEMMA SumSame ==
  ASSUME NEW v, NEW w, NEW S, IsFiniteSet(S), Agree(v, w, S)
  PROVE  SumOver(v, S) = SumOver(w, S)
<1>1. PICK f : Table(f, v, S) /\ SumOver(v, S) = f[S]
  BY SumTable
<1>2. PICK g : Table(g, w, S) /\ SumOver(w, S) = g[S]
  BY SumTable
<1>3. S \in SUBSET S
  OBVIOUS
<1>4. \A s \in SUBSET S : f[s] = g[s]
  BY <1>1, <1>2, <1>3, SumsAgree
<1> QED
  BY <1>1, <1>2, <1>3, <1>4

LEMMA SumStep ==
  ASSUME NEW w, NEW S, IsFiniteSet(S)
  PROVE  /\ S = {} => SumOver(w, S) = 0
         /\ S # {} => SumOver(w, S) = w[Some(S)] + SumOver(w, S \ {Some(S)})
<1>1. PICK f : Table(f, w, S) /\ SumOver(w, S) = f[S]
  BY SumTable
<1>2. f[S] = IF S = {} THEN 0 ELSE w[Some(S)] + f[S \ {Some(S)}]
  BY <1>1 DEF Table, Sums
<1>3. ASSUME S # {} PROVE SumOver(w, S \ {Some(S)}) = f[S \ {Some(S)}]
  <2>1. PICK T : T = S \ {Some(S)}
    OBVIOUS
  <2>2. T \subseteq S /\ IsFiniteSet(T)
    BY <2>1, FS_Subset
  <2>3. PICK g : Table(g, w, T) /\ SumOver(w, T) = g[T]
    BY <2>2, SumTable
  <2>4. Agree(w, w, T) /\ T \in SUBSET S
    BY <2>2 DEF Agree
  <2>5. \A s \in SUBSET T : f[s] = g[s]
    BY <1>1, <2>2, <2>3, <2>4, SumsAgree
  <2> QED
    BY <2>1, <2>3, <2>5
<1> QED
  BY <1>1, <1>2, <1>3

Weights(w, S) == \A x \in S : w[x] \in Nat

LEMMA SumNat ==
  ASSUME NEW w, NEW S, IsFiniteSet(S), Weights(w, S)
  PROVE  SumOver(w, S) \in Nat
<1> DEFINE Bad == {n \in Nat : \E s \in SUBSET S : Cardinality(s) = n /\ SumOver(w, s) \notin Nat}
<1>1. Bad = {}
  <2> SUFFICES ASSUME Bad # {} PROVE FALSE
    OBVIOUS
  <2>1. PICK n \in Bad : \A m \in Bad : n <= m
    BY Least
  <2>2. PICK s \in SUBSET S : Cardinality(s) = n /\ SumOver(w, s) \notin Nat
    BY <2>1
  <2>3. IsFiniteSet(s)
    BY Parts
  <2>4. s # {}
    <3>1. s = {} => SumOver(w, s) = 0
      BY <2>3, SumStep
    <3> QED
      BY <2>2, <3>1
  <2>5. PICK x : x = Some(s)
    OBVIOUS
  <2>6. PICK t : t = s \ {x}
    OBVIOUS
  <2>7. /\ x \in s /\ t \in SUBSET S /\ Cardinality(t) = n - 1 /\ n \in Nat /\ n # 0
        /\ Cardinality(t) \in Nat
    BY <2>1, <2>2, <2>4, <2>5, <2>6, Parts
  <2>8. n - 1 \notin Bad
    BY <2>1, <2>7
  <2>9. SumOver(w, t) \in Nat /\ w[x] \in Nat
    BY <2>7, <2>8 DEF Weights
  <2>10. SumOver(w, s) = w[x] + SumOver(w, t)
    BY <2>3, <2>4, <2>5, <2>6, SumStep
  <2> QED
    BY <2>2, <2>9, <2>10
<1>2. S \in SUBSET S /\ Cardinality(S) \in Nat
  BY FS_CardinalityType
<1> QED
  BY <1>1, <1>2

\* The order does not matter: a sum is any element's weight and the sum of the others.
LEMMA SumAdd ==
  ASSUME NEW w, NEW S, IsFiniteSet(S), Weights(w, S), NEW x \in S
  PROVE  SumOver(w, S) = w[x] + SumOver(w, S \ {x})
<1> DEFINE Splits(s, y) == SumOver(w, s) = w[y] + SumOver(w, s \ {y})
           Bad == {n \in Nat : \E s \in SUBSET S : Cardinality(s) = n /\ \E y \in s : ~Splits(s, y)}
<1>1. Bad = {}
  <2> SUFFICES ASSUME Bad # {} PROVE FALSE
    OBVIOUS
  <2>1. PICK n \in Bad : \A m \in Bad : n <= m
    BY Least
  <2>2. PICK s \in SUBSET S : Cardinality(s) = n /\ \E y \in s : ~Splits(s, y)
    BY <2>1
  <2>3. PICK y \in s : ~Splits(s, y)
    BY <2>2
  <2>4. PICK c : c = Some(s)
    OBVIOUS
  <2>5. /\ IsFiniteSet(s) /\ c \in s /\ n \in Nat
        /\ \A z \in s : s \ {z} \in SUBSET S /\ Cardinality(s \ {z}) = n - 1 /\ Cardinality(s \ {z}) \in Nat
    BY <2>2, <2>3, <2>4, Parts
  <2>6. Splits(s, c)
    BY <2>4, <2>5, SumStep
  <2>7. y # c
    BY <2>3, <2>6
  <2>8. n - 1 \notin Bad
    BY <2>1, <2>5
  <2>9. \A z \in s : \A u \in s \ {z} : Splits(s \ {z}, u)
    BY <2>5, <2>8
  <2>10. PICK rest : rest = (s \ {c}) \ {y}
    OBVIOUS
  <2>11. rest = (s \ {y}) \ {c}
    BY <2>10
  <2>12. SumOver(w, s \ {c}) = w[y] + SumOver(w, rest) /\ SumOver(w, s \ {y}) = w[c] + SumOver(w, rest)
    BY <2>5, <2>7, <2>9, <2>10, <2>11
  <2>13. IsFiniteSet(rest) /\ Weights(w, rest)
    BY <2>5, <2>10, FS_Subset DEF Weights
  <2>14. w[y] \in Nat /\ w[c] \in Nat /\ SumOver(w, rest) \in Nat
    BY <2>3, <2>5, <2>13, SumNat DEF Weights
  <2>15. PICK a \in Nat, b \in Nat, d \in Nat : a = w[y] /\ b = w[c] /\ d = SumOver(w, rest)
    BY <2>14
  <2>16. SumOver(w, s) = b + (a + d)
    BY <2>6, <2>12, <2>15
  <2>17. SumOver(w, s \ {y}) = b + d
    BY <2>12, <2>15
  <2> QED
    BY <2>3, <2>15, <2>16, <2>17
<1>2. S \in SUBSET S /\ Cardinality(S) \in Nat
  BY FS_CardinalityType
<1> QED
  BY <1>1, <1>2

LEMMA SumMono ==
  ASSUME NEW w, NEW S, IsFiniteSet(S), Weights(w, S), NEW T \in SUBSET S
  PROVE  SumOver(w, T) <= SumOver(w, S)
<1> DEFINE Bad == {n \in Nat : \E s \in SUBSET S : Cardinality(s) = n /\ T \subseteq s /\ ~(SumOver(w, T) <= SumOver(w, s))}
<1>1. \A s \in SUBSET S : IsFiniteSet(s) /\ Weights(w, s) /\ Cardinality(s) \in Nat
  BY Parts DEF Weights
<1>2. \A s \in SUBSET S : SumOver(w, s) \in Nat
  BY <1>1, SumNat
<1>3. Bad = {}
  <2> SUFFICES ASSUME Bad # {} PROVE FALSE
    OBVIOUS
  <2>1. PICK n \in Bad : \A m \in Bad : n <= m
    BY Least
  <2>2. PICK s \in SUBSET S : Cardinality(s) = n /\ T \subseteq s /\ ~(SumOver(w, T) <= SumOver(w, s))
    BY <2>1
  <2>3. s # T
    BY <1>2, <2>2
  <2>4. PICK x \in s : x \notin T
    BY <2>2, <2>3
  <2>5. PICK t : t = s \ {x}
    OBVIOUS
  <2>6. t \in SUBSET S /\ T \subseteq t /\ Cardinality(t) = n - 1 /\ n \in Nat /\ Cardinality(t) \in Nat
    BY <1>1, <2>1, <2>2, <2>4, <2>5, Parts
  <2>7. n - 1 \notin Bad
    BY <2>1, <2>6
  <2>8. SumOver(w, T) <= SumOver(w, t)
    BY <2>6, <2>7
  <2>9. SumOver(w, s) = w[x] + SumOver(w, t)
    BY <1>1, <2>5, SumAdd
  <2>10. w[x] \in Nat /\ SumOver(w, t) \in Nat /\ SumOver(w, T) \in Nat
    BY <1>2, <2>6 DEF Weights
  <2> QED
    BY <2>2, <2>8, <2>9, <2>10
<1>4. S \in SUBSET S
  OBVIOUS
<1> QED
  BY <1>1, <1>3, <1>4

-----------------------------------------------------------------------------
(* The invariant.                                                           *)

Piece == [path : Path, safe : BOOLEAN, exact : BOOLEAN, sealed : BOOLEAN,
          kind : {"file", "linked", "directory", "symlink"}, size : Nat, ver : {"old", "new"}]

\* The source as it may have become: its files change in size and version.
Like(ms) ==
  /\ ms \in [DOMAIN sc.members -> Piece]
  /\ \A i \in DOMAIN sc.members :
       /\ ms[i].path = sc.members[i].path /\ ms[i].safe = sc.members[i].safe
       /\ ms[i].kind = sc.members[i].kind

\* Nothing has changed so far.
Stable == src = sc.members

SourceOK == sc \in Scenario /\ Like(src) /\ Like(inv) /\ (Stable => inv = sc.members)

Item == [path : Path, safe : BOOLEAN, at : {0} \cup DOMAIN sc.members]

\* An item points at a member of its path, if there is one.
ItemOK(it) ==
  /\ it \in Item
  /\ it.at # 0 => /\ sc.members[it.at].path = it.path
                  /\ sc.adapter = "uac" => it.safe = sc.members[it.at].safe

Items(q) == q \in Seq(Item) /\ \A n \in DOMAIN q : ItemOK(q[n])

Running == pc \in {"loop", "copy"}

ItemsOK ==
  /\ Items(todo)
  /\ Running /\ sc.adapter = "velociraptor" => \A i \in DOMAIN sc.members : sc.members[i].safe

\* A member whose bytes may be published.
Fit(i) ==
  /\ i \in DOMAIN sc.members /\ sc.members[i].safe /\ sc.members[i].kind # "directory"
  /\ sc.adapter # "uac" \/ sc.form = "tar" => sc.members[i].kind = "file"

Copy == [at : Nat, path : Nat, ver : {"old", "new", "torn"}, size : Nat, n : Nat]

\* The copy under way is of the first item, whose place in the queue it keeps.
CopyOK ==
  /\ cur \in Copy
  /\ pc # "copy" => cur = NoCopy
  /\ pc = "copy" =>
       /\ todo # <<>> /\ cur.at = Head(todo).at /\ cur.path = Head(todo).path /\ Head(todo).safe /\ Fit(cur.at)
       /\ sc.members[cur.at].path = cur.path
       /\ Stable => cur.size = sc.members[cur.at].size /\ cur.n <= cur.size
       /\ Stable /\ sc.adapter = "disk" => cur.size <= MaxFile /\ total + cur.size <= MaxTotal

File == [cur : Copy, call : Nat, listed : {"old", "new"}]

\* A published file was copied whole, by a call up to now.
FileOK(f) ==
  /\ f.call <= calls /\ f.cur.n >= f.cur.size /\ Fit(f.cur.at)
  /\ sc.adapter = "velociraptor" => f.cur.ver = f.listed

OutOK ==
  /\ IsFiniteSet(DOMAIN out) /\ out \in [DOMAIN out -> File]
  /\ \A p \in DOMAIN out : FileOK(out[p]) /\ sc.members[out[p].cur.at].path = p

\* The disk adapter keeps its limits on an image that stays as it is.
Bounded == sc.adapter = "disk" => Stable

\* The code's total is at least what the call has published.
LimitsOK ==
  Bounded => /\ cur.n <= MaxFile /\ total + cur.n <= MaxTotal
             /\ \A p \in ThisCall : out[p].cur.n <= MaxFile
             /\ Bytes(ThisCall) <= total

UacArchive == sc.adapter = "uac" /\ Archive

\* Without an error so far, what was asked for is published or still in the queue.
DoneOK ==
  /\ pc = "returned" => todo = <<>> /\ (status = "completed" => tally.errors = 0)
  /\ pc \in {"loop", "copy", "returned"} /\ tally.errors = 0 =>
       /\ \A i \in DOMAIN sc.wanted : sc.wanted[i].safe \/ \E n \in DOMAIN todo : ~todo[n].safe
       /\ ~UacArchive => \A p \in Wanted : p \in DOMAIN out \/ \E n \in DOMAIN todo : todo[n].path = p
       /\ UacArchive => \A i \in DOMAIN sc.members :
            sc.members[i].safe /\ sc.members[i].path \in Wanted /\ sc.members[i].kind # "directory"
              => sc.members[i].path \in DOMAIN out \/ \E n \in DOMAIN todo : todo[n].at = i

\* An archive the stager let through, the same to this day, each path asked for once.
Staged ==
  /\ Archive /\ Stable /\ StagerAccepts(sc.members)
  /\ \A i, j \in DOMAIN sc.wanted : sc.wanted[i].path = sc.wanted[j].path => i = j

Ahead(q) == {q[n].at : n \in DOMAIN q} \ {0}
Distinct(q) == \A m, n \in DOMAIN q : q[m].at = q[n].at /\ q[m].at # 0 => m = n

\* For such an archive the bytes counted and those ahead never exceed the declared ones.
StagedOK ==
  Staged => /\ ~limited
            /\ Running => /\ Distinct(todo)
                          /\ total + SumOver(FileSizes(sc.members), Ahead(todo))
                               <= SumOver(FileSizes(sc.members), DOMAIN sc.members)

ExtractInv ==
  TypeOK /\ SourceOK /\ ItemsOK /\ CopyOK /\ OutOK /\ LimitsOK /\ DoneOK /\ StagedOK

-----------------------------------------------------------------------------
(* Scenarios, items and verdicts.                                           *)

LEMMA Numbers ==
  /\ Path \subseteq Nat /\ Size \subseteq Nat
  /\ MaxFile \in Nat /\ MaxTotal \in Nat /\ MaxMembers \in Nat /\ MaxCalls \in Nat
BY ExtractionAssumption

LEMMA Scenarios ==
  ASSUME sc \in Scenario
  PROVE  /\ IsScenario(sc)
         /\ sc.members \in [DOMAIN sc.members -> Piece] /\ DOMAIN sc.members = 1..Len(sc.members)
         /\ Len(sc.members) \in Nat /\ IsFiniteSet(DOMAIN sc.members)
         /\ DOMAIN sc.wanted = 1..Len(sc.wanted) /\ Len(sc.wanted) \in Nat /\ IsFiniteSet(DOMAIN sc.wanted)
         /\ \A i \in DOMAIN sc.wanted : sc.wanted[i] \in [path : Path, safe : BOOLEAN]
         /\ \A i \in DOMAIN sc.members : sc.members[i] \in Member
<1>1. IsScenario(sc)
  BY ExtractionAssumption
<1>2. sc.members \in Seq(Member) /\ sc.wanted \in Seq([path : Path, safe : BOOLEAN])
  BY <1>1 DEF IsScenario
<1>3. /\ DOMAIN sc.members = 1..Len(sc.members) /\ Len(sc.members) \in Nat
      /\ \A i \in DOMAIN sc.members : sc.members[i] \in Member
      /\ sc.members = [i \in 1..Len(sc.members) |-> sc.members[i]]
  BY <1>2
<1>4. /\ DOMAIN sc.wanted = 1..Len(sc.wanted) /\ Len(sc.wanted) \in Nat
      /\ \A i \in DOMAIN sc.wanted : sc.wanted[i] \in [path : Path, safe : BOOLEAN]
  <2>1. PICK W : W = [path : Path, safe : BOOLEAN]
    OBVIOUS
  <2>2. sc.wanted \in Seq(W)
    BY <1>2, <2>1
  <2>3. \A i \in DOMAIN sc.wanted : sc.wanted[i] \in W
    BY <2>2
  <2> QED
    BY <2>1, <2>2, <2>3
<1>5. Member \subseteq Piece
  BY DEF Member, Piece
<1>6. sc.members \in [DOMAIN sc.members -> Piece]
  BY <1>3, <1>5
<1>7. IsFiniteSet(DOMAIN sc.members) /\ IsFiniteSet(DOMAIN sc.wanted)
  BY <1>3, <1>4, FS_Interval
<1> QED
  BY <1>1, <1>3, <1>4, <1>6, <1>7

\* The four ways a call can be set up.
LEMMA Setups ==
  ASSUME sc \in Scenario
  PROVE  /\ sc.adapter \in {"uac", "velociraptor", "disk"}
         /\ sc.adapter = "disk" => /\ sc.form = "file" /\ DOMAIN sc.members = {1} /\ sc.members[1].kind = "file"
         /\ sc.adapter = "uac" => sc.form \in {"directory", "zip", "tar"}
         /\ sc.adapter = "velociraptor" => sc.form \in {"directory", "zip"}
         /\ ~Archive /\ sc.adapter # "velociraptor" => \A i \in DOMAIN sc.members : sc.members[i].safe
         /\ sc.form # "directory" => \A i \in DOMAIN sc.members : sc.members[i].kind # "linked"
<1>1. IsScenario(sc)
  BY Scenarios
<1>2. <<sc.adapter, sc.form>> \in ({"uac", "velociraptor"} \X {"directory", "zip"}) \cup {<<"uac", "tar">>, <<"disk", "file">>}
  BY <1>1 DEF IsScenario
<1>3. /\ sc.adapter \in {"uac", "velociraptor", "disk"}
      /\ sc.adapter = "disk" => sc.form = "file"
      /\ sc.adapter = "uac" => sc.form \in {"directory", "zip", "tar"}
      /\ sc.adapter = "velociraptor" => sc.form \in {"directory", "zip"}
  BY <1>2
<1>4. sc.adapter = "disk" => DOMAIN sc.members = {1} /\ sc.members[1].kind = "file"
  BY <1>1, Scenarios DEF IsScenario
<1>5. ~Archive /\ sc.adapter # "velociraptor" => \A i \in DOMAIN sc.members : sc.members[i].safe
  BY <1>1, <1>3 DEF IsScenario, Archive
<1>6. sc.form # "directory" => \A i \in DOMAIN sc.members : sc.members[i].kind # "linked"
  BY <1>1 DEF IsScenario
<1> QED
  BY <1>3, <1>4, <1>5, <1>6

LEMMA WantedFacts ==
  ASSUME sc \in Scenario
  PROVE  Wanted \subseteq Path /\ IsFiniteSet(Wanted)
<1>1. Wanted \subseteq Path
  BY Scenarios DEF Wanted
<1> DEFINE Safe == {i \in DOMAIN sc.wanted : sc.wanted[i].safe}
           f == [i \in Safe |-> sc.wanted[i].path]
<1>2. IsFiniteSet(Safe)
  BY Scenarios, FS_Subset
<1>3. f \in Surjection(Safe, Wanted)
  BY DEF Wanted, Surjection
<1> QED
  BY <1>1, <1>2, <1>3, FS_Surjection

\* The last member of a path, as the source is.
LEMMA LastFacts ==
  ASSUME sc \in Scenario, Like(src), NEW p
  PROVE  /\ Last(p) \in {0} \cup DOMAIN sc.members
         /\ Last(p) # 0 => sc.members[Last(p)].path = p
<1> DEFINE At == {i \in DOMAIN src : src[i].path = p}
<1>1. DOMAIN src = DOMAIN sc.members /\ DOMAIN src = 1..Len(sc.members) /\ Len(sc.members) \in Nat
      /\ \A i \in DOMAIN src : src[i].path = sc.members[i].path
  BY Scenarios DEF Like
<1>2. CASE At = {}
  BY <1>2 DEF Last
<1>3. CASE At # {}
  <2> DEFINE Down == {n \in Nat : \E i \in At : n = Len(sc.members) - i}
  <2>1. PICK i \in At : TRUE
    BY <1>3
  <2>2. Len(sc.members) - i \in Down
    BY <1>1
  <2>3. Down \subseteq Nat /\ Down # {}
    BY <2>2
  <2>4. PICK n \in Down : \A m \in Down : n <= m
    BY <2>3, Least
  <2>5. PICK k \in At : n = Len(sc.members) - k
    BY <2>4
  <2>6. \A j \in At : j <= k
    <3> TAKE j \in At
    <3>1. Len(sc.members) - j \in Down
      BY <1>1
    <3>2. n <= Len(sc.members) - j
      BY <2>4, <3>1
    <3>3. j \in Int /\ k \in Int /\ Len(sc.members) \in Int
      BY <1>1
    <3> HIDE DEF At, Down
    <3> QED
      BY <2>5, <3>2, <3>3
  <2>7. Last(p) \in At
    BY <1>3, <2>6 DEF Last
  <2> QED
    BY <1>1, <2>7
<1> QED
  BY <1>2, <1>3

IsRank(rank, W) == rank = [p \in W |-> Cardinality({q \in W : q <= p})]

Numbering(rank, W) ==
  /\ \A p \in W : rank[p] \in 1..Cardinality(W)
  /\ \A p, q \in W : rank[p] = rank[q] => p = q
  /\ \A i \in 1..Cardinality(W) : \E p \in W : rank[p] = i

\* Counting the elements up to each one numbers a finite set of numbers.
LEMMA Ranks ==
  ASSUME NEW W, W \subseteq Nat, IsFiniteSet(W), NEW rank, IsRank(rank, W)
  PROVE  Numbering(rank, W)
<1> DEFINE Below(p) == {q \in W : q <= p}
<1>1. \A p \in W : /\ Below(p) \subseteq W /\ IsFiniteSet(Below(p)) /\ p \in Below(p)
                   /\ Cardinality(Below(p)) \in Nat /\ Cardinality(Below(p)) # 0
  <2> TAKE p \in W
  <2>1. Below(p) \in SUBSET W /\ p \in Below(p)
    OBVIOUS
  <2>2. IsFiniteSet(Below(p))
    BY <2>1, FS_Subset
  <2> QED
    BY <2>1, <2>2, FS_CardinalityType, FS_EmptySet
<1>2. \A p \in W : Cardinality(Below(p)) <= Cardinality(W) /\ Cardinality(W) \in Nat
  BY <1>1, FS_Subset, FS_CardinalityType
<1>3. \A p \in W : rank[p] = Cardinality(Below(p)) /\ rank[p] \in 1..Cardinality(W)
  BY <1>1, <1>2 DEF IsRank
<1> HIDE DEF Below
<1>4. \A p, q \in W : p < q => Cardinality(Below(p)) # Cardinality(Below(q))
  <2> SUFFICES ASSUME NEW p \in W, NEW q \in W, p < q PROVE Cardinality(Below(p)) # Cardinality(Below(q))
    OBVIOUS
  <2>1. Below(p) \in SUBSET Below(q)
    <3> SUFFICES ASSUME NEW x \in W, x <= p PROVE x <= q
      BY DEF Below
    <3>1. x \in Nat /\ p \in Nat /\ q \in Nat
      OBVIOUS
    <3> QED
      BY <3>1
  <2>2. q \in Below(q) /\ q \notin Below(p)
    BY DEF Below
  <2>3. IsFiniteSet(Below(q))
    BY <1>1
  <2>4. Below(p) # Below(q)
    BY <2>2
  <2> QED
    BY <2>1, <2>3, <2>4, FS_Subset
<1>5. \A p, q \in W : rank[p] = rank[q] => p = q
  <2> SUFFICES ASSUME NEW p \in W, NEW q \in W, rank[p] = rank[q] PROVE p = q
    OBVIOUS
  <2>1. Cardinality(Below(p)) = Cardinality(Below(q))
    BY <1>3
  <2>2. ~(p < q) /\ ~(q < p)
    BY <1>4, <2>1
  <2>3. p \in Nat /\ q \in Nat
    OBVIOUS
  <2> QED
    BY <2>2, <2>3
<1>6. rank \in Injection(W, 1..Cardinality(W))
  <2>1. rank \in [W -> 1..Cardinality(W)]
    BY <1>3 DEF IsRank
  <2> QED
    BY <1>5, <2>1 DEF Injection, IsInjective
<1>7. Cardinality(W) \in Nat /\ IsFiniteSet(1..Cardinality(W)) /\ Cardinality(1..Cardinality(W)) = Cardinality(W)
  BY FS_CardinalityType, FS_Interval
<1>8. rank \in Surjection(W, 1..Cardinality(W))
  BY <1>6, <1>7, FS_Injection
<1>9. \A i \in 1..Cardinality(W) : \E p \in W : rank[p] = i
  BY <1>8 DEF Surjection
<1> QED
  BY <1>3, <1>5, <1>9 DEF Numbering

\* What the queue of a call is good for: it points at members, and covers what was
\* asked for.
Covers(q) ==
  /\ Items(q)
  /\ ~UacArchive => \A p \in Wanted : \E n \in DOMAIN q : q[n].path = p
  /\ UacArchive => \A i \in DOMAIN sc.members : \E n \in DOMAIN q : q[n].at = i
  /\ sc.adapter # "uac" => \A i \in DOMAIN sc.wanted : sc.wanted[i].safe \/ \E n \in DOMAIN q : ~q[n].safe
  /\ Staged => Distinct(q)

LEMMA SortedQueue ==
  ASSUME SourceOK, sc.adapter = "uac", ~Archive
  PROVE  Covers(Queue)
<1>1. PICK W : W = Wanted
  OBVIOUS
<1>2. W \subseteq Nat /\ IsFiniteSet(W) /\ W \subseteq Path
  BY <1>1, WantedFacts, Numbers DEF SourceOK
<1>3. PICK rank : IsRank(rank, W)
  BY DEF IsRank
<1>4. Numbering(rank, W)
  BY <1>2, <1>3, Ranks
<1> DEFINE At(i) == CHOOSE p \in Wanted : Cardinality({q \in Wanted : q <= p}) = i
<1>5. Queue = [i \in 1..Cardinality(W) |-> [path |-> At(i), safe |-> TRUE, at |-> Last(At(i))]]
  <2>1. Queue = AllowlistQueue
    BY DEF Queue
  <2>2. AllowlistQueue = [i \in 1..Cardinality(Wanted) |-> [path |-> At(i), safe |-> TRUE, at |-> Last(At(i))]]
    BY DEF AllowlistQueue
  <2> QED
    BY <1>1, <2>1, <2>2
<1>6. \A i \in 1..Cardinality(W) : At(i) \in W /\ rank[At(i)] = i
  <2>1. TAKE i \in 1..Cardinality(W)
  <2>2. PICK p \in W : rank[p] = i
    BY <1>4 DEF Numbering
  <2>3. p \in Wanted /\ Cardinality({q \in Wanted : q <= p}) = i
    BY <1>1, <1>3, <2>2 DEF IsRank
  <2>4. At(i) \in Wanted /\ Cardinality({q \in Wanted : q <= At(i)}) = i
    BY <2>3
  <2> QED
    BY <1>1, <1>3, <2>4 DEF IsRank
<1> HIDE DEF At
<1>7. \A p \in W : At(rank[p]) = p
  BY <1>4, <1>6 DEF Numbering
<1>8. Cardinality(W) \in Nat
  BY <1>2, FS_CardinalityType
<1>9. DOMAIN Queue = 1..Cardinality(W)
  BY <1>5
<1>10. \A n \in DOMAIN Queue : ItemOK(Queue[n])
  <2> SUFFICES ASSUME NEW n \in 1..Cardinality(W) PROVE ItemOK(Queue[n])
    BY <1>9
  <2>1. PICK p \in W : p = At(n)
    BY <1>6
  <2>2. Queue[n] = [path |-> p, safe |-> TRUE, at |-> Last(p)] /\ p \in Path
    BY <1>2, <1>5, <2>1
  <2>3. Last(p) \in {0} \cup DOMAIN sc.members /\ (Last(p) # 0 => sc.members[Last(p)].path = p)
    BY LastFacts DEF SourceOK
  <2>4. Last(p) # 0 => sc.members[Last(p)].safe = TRUE
    <3>1. \A i \in DOMAIN sc.members : sc.members[i].safe /\ sc.members[i].safe \in BOOLEAN
      BY Setups, Scenarios DEF SourceOK, Piece
    <3> QED
      BY <2>3, <3>1
  <2>5. PICK at : at = Last(p)
    OBVIOUS
  <2>6. Queue[n] \in Item /\ Queue[n].at = at /\ Queue[n].path = p /\ Queue[n].safe = TRUE
    BY <2>2, <2>3, <2>5 DEF Item
  <2> QED
    BY <2>3, <2>4, <2>5, <2>6 DEF ItemOK
<1>11. \A p \in W : \E n \in DOMAIN Queue : Queue[n].path = p
  BY <1>4, <1>5, <1>7, <1>9 DEF Numbering
<1>12. Queue \in Seq(Item)
  <2>1. \A n \in DOMAIN Queue : Queue[n] \in Item
    BY <1>10 DEF ItemOK
  <2>2. Queue = [n \in 1..Cardinality(W) |-> Queue[n]]
    BY <1>5
  <2> QED
    BY <1>8, <1>9, <2>1, <2>2
<1> QED
  BY <1>1, <1>10, <1>11, <1>12 DEF Covers, Items, UacArchive, Staged

LEMMA ArchiveQueue ==
  ASSUME SourceOK, sc.adapter = "uac", Archive
  PROVE  Covers(Queue)
<1>1. Queue = [i \in DOMAIN src |-> [path |-> src[i].path, safe |-> src[i].safe, at |-> i]]
  BY DEF Queue, MemberQueue
<1>2. /\ DOMAIN src = DOMAIN sc.members /\ DOMAIN src = 1..Len(sc.members) /\ Len(sc.members) \in Nat
      /\ \A i \in DOMAIN src : /\ src[i].path = sc.members[i].path /\ src[i].safe = sc.members[i].safe
                              /\ src[i].path \in Path /\ src[i].safe \in BOOLEAN /\ i # 0
  BY Scenarios DEF SourceOK, Like, Piece
<1>3. DOMAIN Queue = DOMAIN sc.members
  BY <1>1, <1>2
<1>4. \A n \in DOMAIN sc.members : Queue[n] \in Item /\ ItemOK(Queue[n]) /\ Queue[n].at = n
  <2> TAKE n \in DOMAIN sc.members
  <2>1. Queue[n] = [path |-> sc.members[n].path, safe |-> sc.members[n].safe, at |-> n]
    BY <1>1, <1>2
  <2>2. sc.members[n].path \in Path /\ sc.members[n].safe \in BOOLEAN
    BY <1>2
  <2>3. Queue[n] \in Item
    BY <2>1, <2>2 DEF Item
  <2> QED
    BY <2>1, <2>3 DEF ItemOK
<1>5. Queue \in Seq(Item)
  <2>1. PICK k \in Nat : k = Len(sc.members)
    BY <1>2
  <2>2. Queue = [n \in 1..k |-> Queue[n]] /\ \A n \in 1..k : Queue[n] \in Item
    BY <1>1, <1>2, <1>4, <2>1
  <2> QED
    BY <2>2
<1> QED
  BY <1>3, <1>4, <1>5 DEF Covers, Items, UacArchive, Distinct

LEMMA OtherQueue ==
  ASSUME SourceOK, sc.adapter # "uac"
  PROVE  Covers(Queue)
<1>1. Queue = [i \in DOMAIN sc.wanted |->
                 [path |-> sc.wanted[i].path, safe |-> sc.wanted[i].safe, at |-> Last(sc.wanted[i].path)]]
  BY DEF Queue, RequestQueue
<1>2. /\ DOMAIN sc.wanted = 1..Len(sc.wanted) /\ Len(sc.wanted) \in Nat
      /\ \A i \in DOMAIN sc.wanted : sc.wanted[i].path \in Path /\ sc.wanted[i].safe \in BOOLEAN
  BY Scenarios DEF SourceOK
<1>3. DOMAIN Queue = DOMAIN sc.wanted
  BY <1>1
<1>4. \A n \in DOMAIN sc.wanted :
        /\ Queue[n] \in Item /\ ItemOK(Queue[n])
        /\ Queue[n].path = sc.wanted[n].path /\ Queue[n].safe = sc.wanted[n].safe
        /\ Queue[n].at # 0 => sc.members[Queue[n].at].path = sc.wanted[n].path
  <2> TAKE n \in DOMAIN sc.wanted
  <2>1. PICK at : at = Last(sc.wanted[n].path)
    OBVIOUS
  <2>2. at \in {0} \cup DOMAIN sc.members /\ (at # 0 => sc.members[at].path = sc.wanted[n].path)
    BY <2>1, LastFacts DEF SourceOK
  <2>3. Queue[n] = [path |-> sc.wanted[n].path, safe |-> sc.wanted[n].safe, at |-> at]
    BY <1>1, <2>1
  <2>4. Queue[n] \in Item
    BY <1>2, <2>2, <2>3 DEF Item
  <2> QED
    BY <2>2, <2>3, <2>4 DEF ItemOK
<1>5. Queue \in Seq(Item)
  <2>1. PICK k \in Nat : k = Len(sc.wanted)
    BY <1>2
  <2>2. Queue = [n \in 1..k |-> Queue[n]] /\ \A n \in 1..k : Queue[n] \in Item
    BY <1>1, <1>2, <1>4, <2>1
  <2> QED
    BY <2>2
<1>6. \A p \in Wanted : \E n \in DOMAIN Queue : Queue[n].path = p
  BY <1>3, <1>4 DEF Wanted
<1>7. Staged => Distinct(Queue)
  <2> SUFFICES ASSUME Staged, NEW m \in DOMAIN Queue, NEW n \in DOMAIN Queue,
                      Queue[m].at = Queue[n].at, Queue[m].at # 0
               PROVE  m = n
    BY DEF Distinct
  <2>1. sc.wanted[m].path = sc.wanted[n].path
    BY <1>3, <1>4
  <2> QED
    BY <1>3, <2>1 DEF Staged
<1>8. \A i \in DOMAIN sc.wanted : sc.wanted[i].safe \/ \E n \in DOMAIN Queue : ~Queue[n].safe
  BY <1>3, <1>4
<1> QED
  BY <1>3, <1>4, <1>5, <1>6, <1>7, <1>8 DEF Covers, Items, UacArchive

LEMMA QueueCovers ==
  ASSUME SourceOK
  PROVE  Covers(Queue)
  BY SortedQueue, ArchiveQueue, OtherQueue

-----------------------------------------------------------------------------
(* The head of the queue, and what is decided of it.                        *)

LEMMA HeadFacts ==
  ASSUME NEW q, Items(q), q # <<>>
  PROVE  /\ 1 \in DOMAIN q /\ Head(q) = q[1] /\ ItemOK(Head(q)) /\ Items(Tail(q))
         /\ \A n \in DOMAIN q : n # 1 => \E m \in DOMAIN Tail(q) : Tail(q)[m] = q[n]
         /\ \A m \in DOMAIN Tail(q) : m + 1 \in DOMAIN q /\ Tail(q)[m] = q[m + 1] /\ m \in Nat /\ m # 0
<1>1. q \in Seq(Item) /\ \A n \in DOMAIN q : ItemOK(q[n])
  BY DEF Items
<1>2. PICK k \in Nat : k = Len(q) /\ DOMAIN q = 1..k /\ k # 0
  BY <1>1
<1>3. /\ Head(q) = q[1] /\ Tail(q) \in Seq(Item) /\ DOMAIN Tail(q) = 1..(k - 1)
      /\ \A m \in 1..(k - 1) : Tail(q)[m] = q[m + 1]
  BY <1>1, <1>2
<1>4. \A m \in DOMAIN Tail(q) : m + 1 \in DOMAIN q /\ Tail(q)[m] = q[m + 1] /\ m \in Nat /\ m # 0
  BY <1>2, <1>3
<1>5. \A n \in DOMAIN q : n # 1 => n - 1 \in DOMAIN Tail(q) /\ Tail(q)[n - 1] = q[n]
  BY <1>2, <1>3
<1>6. 1 \in DOMAIN q
  BY <1>2
<1> QED
  BY <1>1, <1>3, <1>4, <1>5, <1>6 DEF Items

LEMMA AheadFacts ==
  ASSUME NEW q, Items(q), q # <<>>
  PROVE  /\ Ahead(Tail(q)) \subseteq Ahead(q)
         /\ Head(q).at # 0 => Head(q).at \in Ahead(q)
         /\ Distinct(q) => Distinct(Tail(q)) /\ Ahead(Tail(q)) \subseteq Ahead(q) \ {Head(q).at}
<1>1. Ahead(Tail(q)) \subseteq Ahead(q)
  BY HeadFacts DEF Ahead
<1>2. Head(q).at # 0 => Head(q).at \in Ahead(q)
  BY HeadFacts DEF Ahead
<1>3. ASSUME Distinct(q) PROVE Distinct(Tail(q)) /\ Ahead(Tail(q)) \subseteq Ahead(q) \ {Head(q).at}
  <2>1. Distinct(Tail(q))
    <3> SUFFICES ASSUME NEW m \in DOMAIN Tail(q), NEW n \in DOMAIN Tail(q),
                        Tail(q)[m].at = Tail(q)[n].at, Tail(q)[m].at # 0
                 PROVE  m = n
      BY DEF Distinct
    <3>1. m + 1 = n + 1
      BY <1>3, HeadFacts DEF Distinct
    <3> QED
      BY <3>1, HeadFacts
  <2>2. \A m \in DOMAIN Tail(q) : Tail(q)[m].at # 0 => Tail(q)[m].at # Head(q).at
    <3> SUFFICES ASSUME NEW m \in DOMAIN Tail(q), Tail(q)[m].at # 0, Tail(q)[m].at = Head(q).at
                 PROVE  FALSE
      OBVIOUS
    <3>1. m + 1 = 1
      BY <1>3, HeadFacts DEF Distinct
    <3> QED
      BY <3>1, HeadFacts
  <2> QED
    BY <1>1, <2>1, <2>2 DEF Ahead
<1> QED
  BY <1>1, <1>2, <1>3

LEMMA SourceFacts ==
  ASSUME SourceOK
  PROVE  \A i \in DOMAIN sc.members :
           /\ sc.members[i] \in Piece /\ src[i] \in Piece /\ inv[i] \in Piece
           /\ src[i].kind = sc.members[i].kind /\ src[i].path = sc.members[i].path /\ src[i].safe = sc.members[i].safe
           /\ inv[i].kind = sc.members[i].kind
           /\ Stable => src[i].size = sc.members[i].size /\ inv[i].size = sc.members[i].size
<1> TAKE i \in DOMAIN sc.members
<1>1. src \in [DOMAIN sc.members -> Piece] /\ inv \in [DOMAIN sc.members -> Piece]
      /\ (Stable => src = sc.members /\ inv = sc.members)
  BY DEF SourceOK, Like, Stable
<1>2. sc.members[i] \in Piece
  BY Scenarios DEF SourceOK
<1>3. /\ src[i].kind = sc.members[i].kind /\ src[i].path = sc.members[i].path /\ src[i].safe = sc.members[i].safe
      /\ inv[i].kind = sc.members[i].kind
  BY DEF SourceOK, Like
<1> QED
  BY <1>1, <1>2, <1>3

\* What is copied may be published under its name, and the disk adapter has
\* compared its size with the limits.
LEMMA CopyFits ==
  ASSUME SourceOK, ItemsOK, total \in Nat, pc = "loop", todo # <<>>, Verdict(Head(todo)) = "copy"
  PROVE  /\ Fit(Head(todo).at) /\ Head(todo).safe
         /\ sc.adapter = "disk" => LET size == src[Head(todo).at].size IN size <= MaxFile /\ total + size <= MaxTotal
<1>1. PICK it : it = Head(todo)
  OBVIOUS
<1>2. ItemOK(it) /\ it \in Item /\ it.at \in {0} \cup DOMAIN sc.members /\ it.safe \in BOOLEAN /\ Verdict(it) = "copy"
  BY <1>1, HeadFacts DEF ItemsOK, ItemOK, Item
<1>3. CASE sc.adapter = "uac"
  <2>1. UacVerdict(it) = "copy"
    BY <1>2, <1>3 DEF Verdict
  <2>2. it.safe /\ it.at # 0 /\ UacMember(src[it.at]) = "copy"
    BY <2>1 DEF UacVerdict
  <2>3. src[it.at].kind = sc.members[it.at].kind /\ sc.members[it.at].safe
    BY <1>2, <1>3, <2>2, SourceFacts DEF ItemOK
  <2>4. /\ sc.members[it.at].kind # "directory"
        /\ sc.form = "tar" => sc.members[it.at].kind = "file"
    <3>1. sc.form = "tar" => sc.members[it.at].kind # "linked"
      BY <1>2, <2>2, Setups DEF SourceOK
    <3> QED
      BY <2>2, <2>3, <3>1 DEF UacMember
  <2> QED
    BY <1>1, <1>2, <1>3, <2>2, <2>3, <2>4 DEF Fit
<1>4. CASE sc.adapter = "velociraptor"
  <2>1. VelociraptorVerdict(it) = "copy"
    BY <1>2, <1>4 DEF Verdict
  <2>2. it.safe /\ it.at # 0 /\ inv[it.at].kind = "file"
    BY <1>2, <2>1 DEF VelociraptorVerdict
  <2>3. sc.members[it.at].kind = "file" /\ sc.members[it.at].safe
    BY <1>2, <1>4, <2>2, SourceFacts DEF ItemsOK, Running
  <2> QED
    BY <1>1, <1>2, <1>4, <2>2, <2>3 DEF Fit
<1>5. CASE sc.adapter = "disk"
  <2>1. DiskVerdict(it) = "copy"
    BY <1>2, <1>5 DEF Verdict
  <2>2. it.safe /\ it.at # 0 /\ ~(src[1].size > MaxFile \/ total + src[1].size > MaxTotal)
    BY <2>1 DEF DiskVerdict
  <2>3. it.at = 1 /\ sc.members[1].kind = "file" /\ sc.members[1].safe /\ src[1].size \in Nat
    BY <1>2, <1>5, <2>2, Setups, SourceFacts DEF SourceOK, Archive, Piece
  <2>4. Fit(it.at)
    BY <1>2, <2>2, <2>3 DEF Fit
  <2>5. src[it.at].size <= MaxFile /\ total + src[it.at].size <= MaxTotal
    BY <2>2, <2>3, Numbers
  <2> QED
    BY <1>1, <2>2, <2>4, <2>5
<1> QED
  BY <1>3, <1>4, <1>5, Setups DEF SourceOK

\* Only UAC passes over a member of an archive in silence: one that nobody asked
\* for, or a directory.
LEMMA SkipFacts ==
  ASSUME SourceOK, ItemsOK, todo # <<>>, Verdict(Head(todo)) = "skip"
  PROVE  /\ UacArchive /\ Head(todo).safe
         /\ \/ Head(todo).path \notin Wanted
            \/ Head(todo).at # 0 /\ sc.members[Head(todo).at].kind = "directory"
<1>1. PICK it : it = Head(todo)
  OBVIOUS
<1>2. ItemOK(it) /\ it.at \in {0} \cup DOMAIN sc.members /\ it.safe \in BOOLEAN /\ Verdict(it) = "skip"
  BY <1>1, HeadFacts DEF ItemsOK, ItemOK, Item
<1>3. sc.adapter = "uac"
  <2>1. sc.adapter # "velociraptor"
    BY <1>2 DEF Verdict, VelociraptorVerdict
  <2>2. sc.adapter # "disk"
    BY <1>2 DEF Verdict, DiskVerdict
  <2> QED
    BY <2>1, <2>2, Setups DEF SourceOK
<1>4. UacVerdict(it) = "skip"
  BY <1>2, <1>3 DEF Verdict
<1>5. CASE Archive /\ it.path \notin Wanted
  BY <1>1, <1>3, <1>4, <1>5 DEF UacArchive, UacVerdict
<1>6. CASE ~(Archive /\ it.path \notin Wanted)
  <2>1. it.safe /\ it.at # 0 /\ UacMember(src[it.at]) = "skip"
    BY <1>4, <1>6 DEF UacVerdict
  <2>2. src[it.at].kind = sc.members[it.at].kind
    BY <1>2, <2>1, SourceFacts
  <2>3. sc.form = "zip" /\ sc.members[it.at].kind = "directory"
    BY <2>1, <2>2 DEF UacMember
  <2> QED
    BY <1>1, <1>3, <2>1, <2>3 DEF UacArchive, Archive
<1> QED
  BY <1>5, <1>6

LEMMA LimitFacts ==
  ASSUME SourceOK, ItemsOK, todo # <<>>, Archive, Stable, Verdict(Head(todo)) = "limit"
  PROVE  /\ Head(todo).at \in DOMAIN sc.members /\ Head(todo).at # 0
         /\ LET m == sc.members[Head(todo).at] IN m.kind = "file" /\ (m.size > MaxFile \/ total + m.size > MaxTotal)
<1>1. PICK it : it = Head(todo)
  OBVIOUS
<1>2. ItemOK(it) /\ it.at \in {0} \cup DOMAIN sc.members /\ it.safe \in BOOLEAN /\ Verdict(it) = "limit"
  BY <1>1, HeadFacts DEF ItemsOK, ItemOK, Item
<1>3. sc.adapter # "uac"
  <2> SUFFICES ASSUME sc.adapter = "uac" PROVE FALSE
    OBVIOUS
  <2>1. UacVerdict(it) = "limit"
    BY <1>2 DEF Verdict
  <2>2. UacMember(src[it.at]) = "limit"
    BY <2>1 DEF UacVerdict
  <2> QED
    BY <2>2 DEF UacMember
<1>4. sc.adapter = "velociraptor"
  BY <1>3, Setups DEF SourceOK, Archive
<1>5. VelociraptorVerdict(it) = "limit"
  BY <1>2, <1>4 DEF Verdict
<1>6. it.at # 0 /\ inv[it.at].kind = "file" /\ (inv[it.at].size > MaxFile \/ total + inv[it.at].size > MaxTotal)
  BY <1>2, <1>5 DEF VelociraptorVerdict
<1> QED
  BY <1>1, <1>2, <1>4, <1>6, SourceFacts

-----------------------------------------------------------------------------
(* Sizes and sums.                                                          *)

LEMMA StagedFacts ==
  ASSUME SourceOK, Staged, NEW w, w = FileSizes(sc.members), NEW all, all = DOMAIN sc.members
  PROVE  /\ IsFiniteSet(all) /\ Weights(w, all)
         /\ \A i \in all : /\ sc.members[i].kind # "directory" => sc.members[i].kind = "file"
                        /\ sc.members[i].kind = "file" => w[i] = sc.members[i].size /\ sc.members[i].size <= MaxFile
         /\ SumOver(w, all) <= MaxTotal
         /\ \A S \in SUBSET all : SumOver(w, S) \in Nat /\ SumOver(w, S) <= SumOver(w, all) /\ IsFiniteSet(S) /\ Weights(w, S)
<1>1. IsFiniteSet(all) /\ \A i \in all : sc.members[i] \in Piece
  BY Scenarios DEF SourceOK
<1>2. w = [i \in all |-> IF sc.members[i].kind = "file" THEN sc.members[i].size ELSE 0]
  BY DEF FileSizes
<1>3. Weights(w, all)
  BY <1>1, <1>2 DEF Weights, Piece
<1>4. /\ \A i \in all : sc.members[i].kind # "symlink" /\ (sc.members[i].kind = "file" => sc.members[i].size <= MaxFile)
      /\ SumOver(w, all) <= MaxTotal
  BY DEF Staged, StagerAccepts
<1>5. \A i \in all : sc.members[i].kind # "directory" => sc.members[i].kind = "file"
  <2>1. \A i \in all : sc.members[i].kind # "linked"
    BY Setups DEF SourceOK, Staged, Archive
  <2> QED
    BY <1>1, <1>4, <2>1 DEF Piece
<1>6. \A S \in SUBSET all : SumOver(w, S) \in Nat /\ SumOver(w, S) <= SumOver(w, all) /\ IsFiniteSet(S) /\ Weights(w, S)
  <2> TAKE S \in SUBSET all
  <2>1. IsFiniteSet(S) /\ Weights(w, S)
    BY <1>1, <1>3, FS_Subset DEF Weights
  <2>2. SumOver(w, S) \in Nat
    BY <2>1, SumNat
  <2>3. SumOver(w, S) <= SumOver(w, all)
    BY <1>1, <1>3, SumMono
  <2> QED
    BY <2>1, <2>2, <2>3
<1> QED
  BY <1>1, <1>2, <1>3, <1>4, <1>5, <1>6

\* Below a staged archive there is room for the file at the head and for all after it.
LEMMA StagedRoom ==
  ASSUME SourceOK, ItemsOK, StagedOK, total \in Nat, Staged, Running, todo # <<>>,
         NEW w, w = FileSizes(sc.members), NEW all, all = DOMAIN sc.members
  PROVE  /\ total + SumOver(w, Ahead(Tail(todo))) <= SumOver(w, all)
         /\ Head(todo).at # 0 /\ sc.members[Head(todo).at].kind = "file" =>
              LET m == sc.members[Head(todo).at] IN
              /\ m.size <= MaxFile /\ total + m.size <= MaxTotal /\ m.size \in Nat
              /\ (total + m.size) + SumOver(w, Ahead(Tail(todo))) <= SumOver(w, all)
<1>1. PICK A \in SUBSET all : A = Ahead(todo)
  <2>1. \A n \in DOMAIN todo : todo[n].at \in {0} \cup all
    BY DEF ItemsOK, Items, ItemOK, Item
  <2>2. Ahead(todo) \in SUBSET all
    BY <2>1 DEF Ahead
  <2> QED
    BY <2>2
<1>2. PICK B \in SUBSET A : B = Ahead(Tail(todo)) /\ (Head(todo).at # 0 => Head(todo).at \in A /\ Head(todo).at \notin B)
  BY <1>1, AheadFacts DEF ItemsOK, StagedOK
<1>3. total + SumOver(w, A) <= SumOver(w, all)
  BY <1>1 DEF StagedOK
<1>4. /\ SumOver(w, A) \in Nat /\ SumOver(w, B) \in Nat /\ IsFiniteSet(A) /\ Weights(w, A)
      /\ SumOver(w, all) \in Nat /\ SumOver(w, all) <= MaxTotal
  BY <1>1, <1>2, StagedFacts
<1>5. SumOver(w, B) <= SumOver(w, A)
  BY <1>2, <1>4, SumMono
<1>6. total + SumOver(w, B) <= SumOver(w, all)
  BY <1>3, <1>4, <1>5
<1>7. ASSUME Head(todo).at # 0, sc.members[Head(todo).at].kind = "file"
      PROVE  LET m == sc.members[Head(todo).at] IN
              /\ m.size <= MaxFile /\ total + m.size <= MaxTotal /\ m.size \in Nat
              /\ (total + m.size) + SumOver(w, B) <= SumOver(w, all)
  <2>1. PICK i \in A : i = Head(todo).at /\ i \notin B
    BY <1>2, <1>7
  <2>2. PICK R \in SUBSET A : R = A \ {i}
    OBVIOUS
  <2>3. SumOver(w, A) = w[i] + SumOver(w, R)
    BY <1>4, <2>2, SumAdd
  <2>4. B \in SUBSET R /\ IsFiniteSet(R) /\ Weights(w, R) /\ SumOver(w, R) \in Nat
    BY <1>1, <1>2, <2>1, <2>2, StagedFacts
  <2>5. SumOver(w, B) <= SumOver(w, R)
    BY <2>4, SumMono
  <2>6. PICK n \in Nat : n = sc.members[i].size /\ n = w[i] /\ n <= MaxFile
    BY <1>1, <1>4, <1>7, <2>1, StagedFacts DEF Weights
  <2>7. (total + n) + SumOver(w, B) <= SumOver(w, all)
    BY <1>3, <1>4, <2>3, <2>4, <2>5, <2>6
  <2>8. total + n <= MaxTotal
    BY <1>4, <2>6, <2>7, Numbers
  <2> QED
    BY <2>1, <2>6, <2>7, <2>8
<1> QED
  BY <1>2, <1>6, <1>7

LEMMA Frame ==
  ASSUME sc' = sc
  PROVE  /\ Archive' = Archive /\ UacArchive' = UacArchive /\ Wanted' = Wanted
         /\ src' = src => Stable' = Stable /\ Bounded' = Bounded /\ Staged' = Staged
         /\ \A i : Fit(i)' = Fit(i)
         /\ Item' = Item
         /\ \A it : ItemOK(it)' = ItemOK(it)
<1>1. /\ Archive' = Archive /\ UacArchive' = UacArchive /\ Wanted' = Wanted
      /\ src' = src => Stable' = Stable /\ Bounded' = Bounded /\ Staged' = Staged
  BY DEF Archive, UacArchive, Wanted, Staged, Stable, Bounded
<1>2. \A i : Fit(i)' = Fit(i)
  BY DEF Fit
<1>3. Item' = Item
  BY DEF Item
<1>4. \A it : ItemOK(it)' = ItemOK(it)
  BY <1>3 DEF ItemOK
<1> QED
  BY <1>1, <1>2, <1>3, <1>4

LEMMA SameFiles ==
  ASSUME OutOK, sc' = sc, out' = out, calls' = calls
  PROVE  /\ OutOK' /\ ThisCall' = ThisCall /\ Bytes(ThisCall)' = Bytes(ThisCall)
         /\ src' = src => Bounded' = Bounded
<1>1. ThisCall' = ThisCall
  BY DEF ThisCall
<1>2. Bytes(ThisCall)' = Bytes(ThisCall)
  BY <1>1 DEF Bytes
<1>3. OutOK'
  BY Frame DEF OutOK, FileOK
<1>4. src' = src => Bounded' = Bounded
  BY Frame
<1> QED
  BY <1>1, <1>2, <1>3, <1>4

-----------------------------------------------------------------------------
(* The steps.                                                               *)

LEMMA InitStep == Init => ExtractInv
<1> SUFFICES ASSUME Init PROVE ExtractInv
  OBVIOUS
<1>1. sc \in Scenario /\ IsScenario(sc)
  BY Scenarios DEF Init
<1>2. SourceOK
  <2>1. sc.members \in [DOMAIN sc.members -> Piece]
    BY <1>1, Scenarios
  <2> QED
    BY <1>1, <2>1 DEF Init, SourceOK, Like, Stable
<1>3. TypeOK
  <2>1. tally \in [extracted : Nat, rejected : Nat, errors : Nat] /\ tally.rejected <= tally.errors
    BY DEF Init, NoTally
  <2>2. DOMAIN out = {}
    BY DEF Init
  <2>3. calls \in 0..MaxCalls
    BY Numbers DEF Init
  <2> QED
    BY <1>1, <2>1, <2>2, <2>3 DEF Init, TypeOK
<1>4. ItemsOK
  BY DEF Init, ItemsOK, Items, Running
<1>5. CopyOK
  BY DEF Init, CopyOK, Copy, NoCopy
<1>6. OutOK
  <2>1. DOMAIN out = {} /\ out \in [{} -> File]
    BY DEF Init
  <2> QED
    BY <2>1, FS_EmptySet DEF OutOK
<1>7. LimitsOK
  <2>1. ThisCall = {}
    BY DEF Init, ThisCall
  <2>2. PICK w : w = [p \in ThisCall |-> out[p].cur.n]
    OBVIOUS
  <2>3. Bytes(ThisCall) = SumOver(w, {})
    BY <2>1, <2>2 DEF Bytes
  <2>4. SumOver(w, {}) = 0
    BY FS_EmptySet, SumStep
  <2> QED
    BY <2>1, <2>3, <2>4, Numbers DEF Init, LimitsOK, NoCopy
<1>8. DoneOK
  BY DEF Init, DoneOK
<1>9. StagedOK
  BY DEF Init, StagedOK, Running
<1> QED
  BY <1>2, <1>3, <1>4, <1>5, <1>6, <1>7, <1>8, <1>9 DEF ExtractInv

LEMMA ExtractStep == ExtractInv /\ Extract => ExtractInv'
<1> SUFFICES ASSUME ExtractInv, Extract PROVE ExtractInv'
  OBVIOUS
<1> USE DEF ExtractInv
<1>1. sc' = sc /\ src' = src /\ inv' = src /\ out' = out /\ temps' = temps /\ calls' = calls + 1 /\ calls < MaxCalls
      /\ total' = 0 /\ status' = "none" /\ cur' = NoCopy /\ limited' = FALSE
  BY DEF Extract
<1>2. \/ pc' = "raised" /\ todo' = <<>>
      \/ pc' = "loop" /\ todo' = Queue /\ ~InventoryFails
  BY DEF Extract
<1>3. SourceOK'
  BY <1>1 DEF SourceOK, Like, Stable
<1>4. PICK bad \in Nat :
        /\ bad = 0 => \A i \in DOMAIN sc.wanted : sc.wanted[i].safe
        /\ tally' = IF sc.adapter = "uac" THEN [NoTally EXCEPT !.rejected = bad, !.errors = bad] ELSE NoTally
  <2>1. PICK U \in SUBSET DOMAIN sc.wanted : U = {i \in DOMAIN sc.wanted : ~sc.wanted[i].safe}
    OBVIOUS
  <2>2. IsFiniteSet(U) /\ Cardinality(U) \in Nat /\ (Cardinality(U) = 0 <=> U = {})
    BY Scenarios, FS_Subset, FS_CardinalityType, FS_EmptySet DEF SourceOK
  <2> QED
    BY <2>1, <2>2 DEF Extract
<1>5. tally' \in [extracted : Nat, rejected : Nat, errors : Nat] /\ tally'.rejected <= tally'.errors
      /\ (sc.adapter = "uac" => tally'.errors = bad)
  <2>1. CASE sc.adapter = "uac"
    <3>1. tally' = [extracted |-> 0, rejected |-> bad, errors |-> bad]
      BY <1>4, <2>1 DEF NoTally
    <3> QED
      BY <3>1
  <2>2. CASE sc.adapter # "uac"
    BY <1>4, <2>2 DEF NoTally
  <2> QED
    BY <2>1, <2>2
<1>6. TypeOK'
  <2>1. calls + 1 \in 0..MaxCalls
    BY <1>1, Numbers DEF TypeOK
  <2>2. DOMAIN src = DOMAIN sc.members
    BY DEF TypeOK
  <2> QED
    BY <1>1, <1>2, <1>5, <2>1, <2>2 DEF TypeOK
<1>7. Covers(Queue)
  BY QueueCovers
<1>8. ItemsOK'
  <2>1. Items(todo)'
    <3>1. CASE todo' = <<>>
      BY <3>1 DEF Items
    <3>2. CASE todo' = Queue
      BY <1>1, <1>7, <3>2, Frame DEF Items, Covers
    <3> QED
      BY <1>2, <3>1, <3>2
  <2>2. ASSUME pc' = "loop", sc.adapter = "velociraptor" PROVE \A i \in DOMAIN sc.members : sc.members[i].safe
    <3>1. \A i \in DOMAIN src : src[i].safe
      BY <1>2, <2>2 DEF InventoryFails
    <3> QED
      BY <3>1, SourceFacts DEF SourceOK, Like
  <2> QED
    BY <1>1, <1>2, <2>1, <2>2 DEF ItemsOK, Running
<1>9. CopyOK'
  BY <1>1, <1>2 DEF CopyOK, Copy, NoCopy
<1>10. OutOK'
  <2>1. \A p \in DOMAIN out : out[p].call \in Nat /\ out[p].call <= calls /\ calls \in Nat
    BY DEF OutOK, FileOK, File, TypeOK
  <2>2. \A p \in DOMAIN out : out[p].call <= calls + 1
    BY <2>1
  <2> QED
    BY <1>1, <2>2, Frame DEF OutOK, FileOK
<1>11. LimitsOK'
  <2>1. \A p \in DOMAIN out : out[p].call # calls + 1
    BY DEF OutOK, FileOK, File, TypeOK
  <2>2. ThisCall' = {}
    BY <1>1, <2>1 DEF ThisCall
  <2>3. PICK w : w = [p \in ThisCall' |-> out'[p].cur.n]
    OBVIOUS
  <2>4. Bytes(ThisCall)' = SumOver(w, {})
    BY <2>2, <2>3 DEF Bytes
  <2>5. SumOver(w, {}) = 0
    BY FS_EmptySet, SumStep
  <2> QED
    BY <1>1, <2>2, <2>4, <2>5, Numbers DEF LimitsOK, NoCopy
<1>12. DoneOK'
  <2> SUFFICES ASSUME pc' = "loop", tally'.errors = 0
               PROVE  /\ \A i \in DOMAIN sc.wanted : sc.wanted[i].safe \/ \E n \in DOMAIN Queue : ~Queue[n].safe
                      /\ ~UacArchive => \A p \in Wanted : \E n \in DOMAIN Queue : Queue[n].path = p
                      /\ UacArchive => \A i \in DOMAIN sc.members : \E n \in DOMAIN Queue : Queue[n].at = i
    BY <1>1, <1>2, Frame DEF DoneOK
  <2>1. \A i \in DOMAIN sc.wanted : sc.wanted[i].safe \/ \E n \in DOMAIN Queue : ~Queue[n].safe
    BY <1>4, <1>5, <1>7 DEF Covers
  <2> QED
    BY <1>7, <2>1 DEF Covers
<1>13. StagedOK'
  <2> SUFFICES ASSUME Staged, pc' = "loop"
               PROVE  /\ Distinct(Queue)
                      /\ 0 + SumOver(FileSizes(sc.members), Ahead(Queue))
                           <= SumOver(FileSizes(sc.members), DOMAIN sc.members)
    BY <1>1, <1>2, Frame DEF StagedOK, Running
  <2>1. Distinct(Queue)
    BY <1>7 DEF Covers
  <2>2. PICK w, all : w = FileSizes(sc.members) /\ all = DOMAIN sc.members
    OBVIOUS
  <2>3. PICK A \in SUBSET all : A = Ahead(Queue)
    <3>1. \A n \in DOMAIN Queue : Queue[n].at \in {0} \cup all
      BY <1>7, <2>2 DEF Covers, Items, ItemOK, Item
    <3>2. Ahead(Queue) \in SUBSET all
      BY <3>1 DEF Ahead
    <3> QED
      BY <3>2
  <2>4. SumOver(w, A) \in Nat /\ SumOver(w, A) <= SumOver(w, all)
    BY <2>2, <2>3, StagedFacts
  <2> QED
    BY <2>1, <2>2, <2>3, <2>4
<1> QED
  BY <1>3, <1>6, <1>8, <1>9, <1>10, <1>11, <1>12, <1>13

LEMMA Refusal ==
  ASSUME TypeOK, NEW counted \in BOOLEAN, Refuse(counted)
  PROVE  /\ tally' \in [extracted : Nat, rejected : Nat, errors : Nat] /\ tally'.rejected <= tally'.errors
         /\ tally'.errors # 0
<1>1. PICK e \in Nat, r \in Nat, x \in Nat : tally = [extracted |-> x, rejected |-> r, errors |-> e] /\ r <= e
  BY DEF TypeOK
<1>2. tally' = [extracted |-> x, rejected |-> IF counted THEN r + 1 ELSE r, errors |-> e + 1]
  BY <1>1 DEF Refuse
<1> QED
  BY <1>1, <1>2

\* What the head of the queue leaves behind when it goes without a copy.
LEMMA PassStep == ExtractInv /\ Pass => ExtractInv'
<1> SUFFICES ASSUME ExtractInv, Pass PROVE ExtractInv'
  OBVIOUS
<1> USE DEF ExtractInv
<1>1. PICK v : v = Verdict(Head(todo))
  OBVIOUS
<1>2. /\ pc = "loop" /\ todo # <<>> /\ v # "copy" /\ todo' = Tail(todo)
      /\ IF v = "skip" THEN UNCHANGED tally ELSE Refuse(v = "reject")
      /\ limited' = (limited \/ v = "limit")
      /\ UNCHANGED <<sc, src, inv, pc, cur, out, temps, total, status, calls>>
  BY <1>1 DEF Pass
<1>3. /\ tally' \in [extracted : Nat, rejected : Nat, errors : Nat] /\ tally'.rejected <= tally'.errors
      /\ tally'.errors = 0 => v = "skip" /\ tally.errors = 0
  BY <1>2, Refusal DEF TypeOK
<1>4. TypeOK'
  <2>1. limited' \in BOOLEAN
    BY <1>2 DEF TypeOK
  <2> QED
    BY <1>2, <1>3, <2>1 DEF TypeOK
<1>5. SourceOK'
  BY <1>2 DEF SourceOK, Like, Stable
<1>6. ItemsOK'
  <2>1. Items(Tail(todo))
    BY <1>2, HeadFacts DEF ItemsOK
  <2>2. Items(todo)'
    BY <1>2, <2>1, Frame DEF Items
  <2> QED
    BY <1>2, <2>2 DEF ItemsOK, Running
<1>7. CopyOK'
  BY <1>2 DEF CopyOK, Stable
<1>8. OutOK' /\ LimitsOK'
  <2>1. OutOK' /\ ThisCall' = ThisCall /\ Bytes(ThisCall)' = Bytes(ThisCall) /\ Bounded' = Bounded
    BY <1>2, SameFiles
  <2> QED
    BY <1>2, <2>1 DEF LimitsOK
<1>9. DoneOK'
  <2> SUFFICES ASSUME tally'.errors = 0
               PROVE  /\ \A i \in DOMAIN sc.wanted : sc.wanted[i].safe \/ \E n \in DOMAIN Tail(todo) : ~Tail(todo)[n].safe
                      /\ ~UacArchive => \A p \in Wanted : p \in DOMAIN out \/ \E n \in DOMAIN Tail(todo) : Tail(todo)[n].path = p
                      /\ UacArchive => \A i \in DOMAIN sc.members :
                           sc.members[i].safe /\ sc.members[i].path \in Wanted /\ sc.members[i].kind # "directory"
                             => sc.members[i].path \in DOMAIN out \/ \E n \in DOMAIN Tail(todo) : Tail(todo)[n].at = i
    BY <1>2, Frame DEF DoneOK
  <2>1. v = "skip" /\ tally.errors = 0
    BY <1>3
  <2>2. /\ UacArchive /\ Head(todo).safe
        /\ \/ Head(todo).path \notin Wanted
           \/ Head(todo).at # 0 /\ sc.members[Head(todo).at].kind = "directory"
    BY <1>1, <1>2, <2>1, SkipFacts
  <2>3. Head(todo) = todo[1] /\ ItemOK(Head(todo))
        /\ \A n \in DOMAIN todo : n # 1 => \E m \in DOMAIN Tail(todo) : Tail(todo)[m] = todo[n]
    BY <1>2, HeadFacts DEF ItemsOK
  <2>4. /\ \A i \in DOMAIN sc.wanted : sc.wanted[i].safe \/ \E n \in DOMAIN todo : ~todo[n].safe
        /\ \A i \in DOMAIN sc.members :
             sc.members[i].safe /\ sc.members[i].path \in Wanted /\ sc.members[i].kind # "directory"
               => sc.members[i].path \in DOMAIN out \/ \E n \in DOMAIN todo : todo[n].at = i
    BY <1>2, <2>1, <2>2 DEF DoneOK
  <2>5. \A i \in DOMAIN sc.wanted : sc.wanted[i].safe \/ \E n \in DOMAIN Tail(todo) : ~Tail(todo)[n].safe
    BY <2>2, <2>3, <2>4
  <2>6. ASSUME NEW i \in DOMAIN sc.members,
               sc.members[i].safe, sc.members[i].path \in Wanted, sc.members[i].kind # "directory",
               sc.members[i].path \notin DOMAIN out
        PROVE  \E n \in DOMAIN Tail(todo) : Tail(todo)[n].at = i
    <3>1. PICK n \in DOMAIN todo : todo[n].at = i
      BY <2>4, <2>6
    <3>2. i # 0
      BY Scenarios DEF SourceOK
    <3>3. n # 1
      BY <2>2, <2>3, <2>6, <3>1, <3>2 DEF ItemOK
    <3> QED
      BY <2>3, <3>1, <3>3
  <2> QED
    BY <2>2, <2>5, <2>6
<1>10. StagedOK'
  <2> SUFFICES ASSUME Staged
               PROVE  /\ v # "limit" /\ ~limited /\ Distinct(Tail(todo))
                      /\ total + SumOver(FileSizes(sc.members), Ahead(Tail(todo)))
                           <= SumOver(FileSizes(sc.members), DOMAIN sc.members)
    BY <1>2, Frame DEF StagedOK
  <2>1. PICK w, all : w = FileSizes(sc.members) /\ all = DOMAIN sc.members
    OBVIOUS
  <2>2. Running /\ total \in Nat
    BY <1>2 DEF Running, TypeOK
  <2>3. total + SumOver(w, Ahead(Tail(todo))) <= SumOver(w, all)
    BY <1>2, <2>1, <2>2, StagedRoom
  <2>4. ~limited /\ Distinct(Tail(todo))
    BY <1>2, <2>2, AheadFacts DEF StagedOK, ItemsOK
  <2>5. v # "limit"
    <3> SUFFICES ASSUME v = "limit" PROVE FALSE
      OBVIOUS
    <3>1. Archive /\ Stable
      BY DEF Staged
    <3>2. PICK m : m = sc.members[Head(todo).at]
      OBVIOUS
    <3>3. Head(todo).at # 0 /\ m.kind = "file" /\ (m.size > MaxFile \/ total + m.size > MaxTotal)
      BY <1>1, <1>2, <3>1, <3>2, LimitFacts
    <3>4. m.size <= MaxFile /\ total + m.size <= MaxTotal /\ m.size \in Nat
      BY <1>2, <2>1, <2>2, <3>2, <3>3, StagedRoom
    <3> QED
      BY <2>2, <3>3, <3>4, Numbers
  <2> QED
    BY <2>1, <2>3, <2>4, <2>5
<1> QED
  BY <1>4, <1>5, <1>6, <1>7, <1>8, <1>9, <1>10

\* What is asked for and what was staged depend on the queue and the files only.
LEMMA SameQueue ==
  ASSUME DoneOK, StagedOK, pc \in {"loop", "copy"}, pc' \in {"loop", "copy"},
         sc' = sc, src' = src, todo' = todo, out' = out, total' = total, tally' = tally, limited' = limited
  PROVE  DoneOK' /\ StagedOK'
<1>1. DoneOK'
  BY Frame DEF DoneOK
<1>2. StagedOK'
  BY Frame DEF StagedOK, Running, Distinct, Ahead
<1> QED
  BY <1>1, <1>2

LEMMA OpenStep == ExtractInv /\ Open => ExtractInv'
<1> SUFFICES ASSUME ExtractInv, Open PROVE ExtractInv'
  OBVIOUS
<1> USE DEF ExtractInv
<1>1. /\ pc = "loop" /\ todo # <<>> /\ Verdict(Head(todo)) = "copy"
      /\ UNCHANGED <<sc, src, inv, todo, out, temps, total, tally, status, calls, limited>>
      /\ \/ pc' = "raised" /\ cur' = cur
         \/ /\ pc' = "copy"
            /\ cur' = [at |-> Head(todo).at, path |-> Head(todo).path, ver |-> src[Head(todo).at].ver,
                       size |-> src[Head(todo).at].size, n |-> 0]
  BY DEF Open
<1>2. TypeOK' /\ SourceOK' /\ OutOK'
  <2>1. TypeOK'
    BY <1>1 DEF TypeOK
  <2>2. SourceOK'
    BY <1>1 DEF SourceOK, Like, Stable
  <2> QED
    BY <1>1, <2>1, <2>2, SameFiles
<1>3. ItemsOK'
  <2>1. Items(todo)'
    BY <1>1, Frame DEF Items, ItemsOK
  <2> QED
    BY <1>1, <2>1 DEF ItemsOK, Running
<1>4. cur.n = 0 /\ cur = NoCopy
  BY <1>1 DEF CopyOK, NoCopy
<1>5. CASE pc' = "raised" /\ cur' = cur
  <2>1. CopyOK'
    BY <1>1, <1>4, <1>5 DEF CopyOK
  <2>2. LimitsOK'
    BY <1>1, <1>5, SameFiles DEF LimitsOK
  <2>3. DoneOK' /\ StagedOK'
    BY <1>1, <1>5, Frame DEF DoneOK, StagedOK, Running
  <2> QED
    BY <1>2, <1>3, <2>1, <2>2, <2>3
<1>6. CASE /\ pc' = "copy"
           /\ cur' = [at |-> Head(todo).at, path |-> Head(todo).path, ver |-> src[Head(todo).at].ver,
                      size |-> src[Head(todo).at].size, n |-> 0]
  <2>1. PICK i : i = Head(todo).at
    OBVIOUS
  <2>2. PICK m : m = src[i]
    OBVIOUS
  <2>3. /\ Fit(i) /\ Head(todo).safe /\ i \in DOMAIN sc.members
        /\ sc.adapter = "disk" => m.size <= MaxFile /\ total + m.size <= MaxTotal
    BY <1>1, <2>1, <2>2, CopyFits DEF TypeOK, Fit
  <2>4. i \in Nat /\ Head(todo).path \in Nat
    <3>1. Head(todo) \in Item
      BY <1>1, HeadFacts DEF ItemsOK, ItemOK
    <3>2. i \in Nat
      BY <2>3, Scenarios DEF SourceOK
    <3> QED
      BY <3>1, <3>2, Numbers DEF Item
  <2>5. m \in Piece /\ (Stable => m.size = sc.members[i].size)
    BY <2>2, <2>3, SourceFacts
  <2>6. m.ver \in {"old", "new"} /\ m.size \in Nat
    BY <2>5 DEF Piece
  <2>7. /\ cur' \in Copy /\ cur'.at = i /\ cur'.path = Head(todo).path /\ cur'.n = 0 /\ cur'.size = m.size
    BY <1>6, <2>1, <2>2, <2>4, <2>6 DEF Copy
  <2>8. CopyOK'
    <3>1. sc.members[i].path = Head(todo).path
      BY <1>1, <2>1, <2>4, HeadFacts, Scenarios, <2>3 DEF ItemsOK, ItemOK, SourceOK
    <3> QED
      BY <1>1, <1>6, <2>1, <2>3, <2>5, <2>6, <2>7, <3>1, Frame DEF CopyOK
  <2>9. LimitsOK'
    BY <1>1, <1>4, <2>7, SameFiles DEF LimitsOK
  <2>10. DoneOK' /\ StagedOK'
    BY <1>1, <1>6, SameQueue
  <2> QED
    BY <1>2, <1>3, <2>8, <2>9, <2>10
<1> QED
  BY <1>1, <1>5, <1>6

\* Without a copy under way nothing more counts.
LEMMA NoCopyLimits ==
  ASSUME TypeOK, CopyOK, OutOK, LimitsOK, cur' = NoCopy, UNCHANGED <<sc, src, out, total, calls>>
  PROVE  LimitsOK'
<1> SUFFICES ASSUME Bounded PROVE LimitsOK'
  BY SameFiles DEF LimitsOK
<1>1. cur.n \in Nat /\ total \in Nat /\ total + cur.n <= MaxTotal
  BY DEF CopyOK, Copy, TypeOK, LimitsOK
<1>2. cur'.n = 0 /\ 0 <= MaxFile /\ total' + 0 <= MaxTotal
  BY <1>1, Numbers DEF NoCopy
<1>3. OutOK' /\ ThisCall' = ThisCall /\ Bytes(ThisCall)' = Bytes(ThisCall)
  BY SameFiles
<1>4. /\ \A p \in ThisCall' : out'[p].cur.n <= MaxFile
      /\ Bytes(ThisCall)' <= total'
  BY <1>3 DEF LimitsOK
<1> QED
  BY <1>2, <1>4 DEF LimitsOK

\* A copy is given up.
LEMMA Dropped ==
  ASSUME ExtractInv, pc = "copy", pc' \in {"raised", "dead"}, cur' = NoCopy,
         temps' \in {temps, temps \cup {cur.path}},
         UNCHANGED <<sc, src, inv, todo, out, total, tally, status, calls, limited>>
  PROVE  ExtractInv'
<1> USE DEF ExtractInv
<1>1. TypeOK'
  <2>1. Head(todo) \in Item /\ cur.path = Head(todo).path
    BY HeadFacts DEF CopyOK, ItemsOK, ItemOK
  <2>2. cur.path \in Path
    BY <2>1 DEF Item
  <2> QED
    BY <2>2 DEF TypeOK
<1>2. SourceOK' /\ OutOK'
  BY SameFiles DEF SourceOK, Like, Stable
<1>3. ItemsOK'
  <2>1. Items(todo)'
    BY Frame DEF Items, ItemsOK
  <2> QED
    BY <2>1 DEF ItemsOK, Running
<1>4. CopyOK'
  BY DEF CopyOK, Copy, NoCopy
<1>5. LimitsOK'
  BY NoCopyLimits
<1>6. DoneOK' /\ StagedOK'
  BY Frame DEF DoneOK, StagedOK, Running
<1> QED
  BY <1>1, <1>2, <1>3, <1>4, <1>5, <1>6

LEMMA ReadErrorStep == ExtractInv /\ ReadError => ExtractInv'
<1> SUFFICES ASSUME ExtractInv, ReadError PROVE ExtractInv'
  OBVIOUS
<1>1. /\ pc = "copy" /\ pc' = "raised" /\ cur' = NoCopy /\ temps' \in {temps, temps \cup {cur.path}}
      /\ UNCHANGED <<sc, src, inv, todo, out, total, tally, status, calls, limited>>
  BY DEF ReadError
<1> QED
  BY <1>1, Dropped

LEMMA DieStep == ExtractInv /\ Die => ExtractInv'
<1> SUFFICES ASSUME ExtractInv, Die PROVE ExtractInv'
  OBVIOUS
<1>1. /\ pc' = "dead" /\ cur' = NoCopy /\ temps' \in {temps, temps \cup {cur.path}}
      /\ UNCHANGED <<sc, src, inv, todo, out, total, tally, status, calls, limited>>
  BY DEF Die
<1>2. CASE pc = "copy"
  BY <1>1, <1>2, Dropped
<1>3. CASE pc = "loop"
  <2> USE DEF ExtractInv
  <2>1. temps' = temps /\ cur = NoCopy
    BY <1>3 DEF Die, CopyOK
  <2>2. TypeOK' /\ SourceOK' /\ OutOK'
    BY <1>1, <2>1, SameFiles DEF TypeOK, SourceOK, Like, Stable
  <2>3. ItemsOK'
    <3>1. Items(todo)'
      BY <1>1, Frame DEF Items, ItemsOK
    <3> QED
      BY <1>1, <3>1 DEF ItemsOK, Running
  <2>4. CopyOK'
    BY <1>1, <2>1 DEF CopyOK
  <2>5. LimitsOK'
    BY <1>1, <2>1, SameFiles DEF LimitsOK
  <2>6. DoneOK' /\ StagedOK'
    BY <1>1, Frame DEF DoneOK, StagedOK, Running
  <2> QED
    BY <2>2, <2>3, <2>4, <2>5, <2>6
<1> QED
  BY <1>2, <1>3 DEF Die

LEMMA ReturnStep == ExtractInv /\ Return => ExtractInv'
<1> SUFFICES ASSUME ExtractInv, Return PROVE ExtractInv'
  OBVIOUS
<1> USE DEF ExtractInv
<1>1. /\ pc = "loop" /\ todo = <<>> /\ pc' = "returned"
      /\ UNCHANGED <<sc, src, inv, todo, cur, out, temps, total, tally, calls, limited>>
      /\ status' \in {"completed", "partial", "failed", "rejected"}
      /\ status' = "completed" => tally.errors = 0
  BY DEF Return
<1>2. TypeOK' /\ SourceOK' /\ OutOK'
  BY <1>1, SameFiles DEF TypeOK, SourceOK, Like, Stable
<1>3. ItemsOK'
  <2>1. Items(todo)'
    BY <1>1, Frame DEF Items, ItemsOK
  <2> QED
    BY <1>1, <2>1 DEF ItemsOK, Running
<1>4. CopyOK'
  BY <1>1 DEF CopyOK
<1>5. LimitsOK'
  BY <1>1, SameFiles DEF LimitsOK
<1>6. DoneOK'
  BY <1>1, Frame DEF DoneOK
<1>7. StagedOK'
  BY <1>1, Frame DEF StagedOK, Running
<1> QED
  BY <1>2, <1>3, <1>4, <1>5, <1>6, <1>7

LEMMA ChangeStep == ASSUME NEW i \in DOMAIN src, NEW size \in Size PROVE ExtractInv /\ Change(i, size) => ExtractInv'
<1> SUFFICES ASSUME ExtractInv, Change(i, size) PROVE ExtractInv'
  OBVIOUS
<1> USE DEF ExtractInv
<1>1. /\ size \in Nat /\ src' = [src EXCEPT ![i].ver = "new", ![i].size = size]
      /\ UNCHANGED <<sc, inv, pc, todo, out, temps, total, tally, status, calls, limited>>
  BY Numbers DEF Change
<1>2. PICK e : e = [src[i] EXCEPT !.ver = "new", !.size = size]
  OBVIOUS
<1>3. /\ src \in [DOMAIN sc.members -> Piece] /\ src[i] \in Piece /\ i \in DOMAIN sc.members
      /\ e \in Piece /\ e.path = src[i].path /\ e.safe = src[i].safe /\ e.kind = src[i].kind /\ e.ver = "new"
      /\ src' = [src EXCEPT ![i] = e]
  <2>1. src \in [DOMAIN sc.members -> Piece] /\ src[i] \in Piece /\ i \in DOMAIN sc.members
    BY DEF SourceOK, Like
  <2>2. e \in Piece /\ e.path = src[i].path /\ e.safe = src[i].safe /\ e.kind = src[i].kind /\ e.ver = "new"
    BY <1>1, <1>2, <2>1 DEF Piece
  <2>3. src' = [src EXCEPT ![i] = e]
    BY <1>1, <1>2
  <2> QED
    BY <2>1, <2>2, <2>3
<1>4. ~(Stable') /\ ~(Staged')
  <2>1. sc.members[i] \in Member
    BY <1>3, Scenarios DEF SourceOK
  <2>2. sc.members[i].ver = "old"
    BY <2>1 DEF Member
  <2>3. src'[i].ver = "new"
    BY <1>3
  <2> QED
    BY <1>1, <2>2, <2>3 DEF Stable, Staged
<1>5. SourceOK'
  <2>1. Like(src)'
    BY <1>1, <1>3 DEF SourceOK, Like
  <2> QED
    BY <1>1, <1>4, <2>1 DEF SourceOK, Like
<1>6. TypeOK'
  BY <1>1 DEF TypeOK
<1>7. OutOK'
  BY <1>1, SameFiles
<1>8. ItemsOK'
  <2>1. Items(todo)'
    BY <1>1, Frame DEF Items, ItemsOK
  <2> QED
    BY <1>1, <2>1 DEF ItemsOK, Running
<1>9. /\ cur' \in Copy /\ cur'.at = cur.at /\ cur'.path = cur.path /\ cur'.n = cur.n
      /\ pc # "copy" => cur' = cur
  <2>1. PICK a \in Nat, p \in Nat, v \in {"old", "new", "torn"}, z \in Nat, n \in Nat :
          cur = [at |-> a, path |-> p, ver |-> v, size |-> z, n |-> n]
    BY DEF CopyOK, Copy
  <2>2. \/ cur' = cur
        \/ pc = "copy" /\ cur' = [cur EXCEPT !.ver = "new", !.size = size]
        \/ pc = "copy" /\ cur' = [cur EXCEPT !.ver = "torn", !.size = size]
    BY DEF Change, CopyAfterChange
  <2>3. CASE cur' = cur
    BY <2>3 DEF CopyOK
  <2>4. CASE pc = "copy" /\ cur' # cur
    <3>1. PICK u \in {"new", "torn"} : cur' = [cur EXCEPT !.ver = u, !.size = size]
      BY <2>2, <2>4
    <3>2. cur' = [at |-> a, path |-> p, ver |-> u, size |-> size, n |-> n]
      BY <2>1, <3>1
    <3> QED
      BY <1>1, <2>1, <2>4, <3>2 DEF Copy
  <2> QED
    BY <2>2, <2>3, <2>4
<1>10. CopyOK'
  BY <1>1, <1>4, <1>9, Frame DEF CopyOK
<1>11. LimitsOK'
  BY <1>1, <1>4, <1>9, SameFiles DEF LimitsOK, Bounded
<1>12. DoneOK' /\ StagedOK'
  BY <1>1, <1>4, Frame DEF DoneOK, StagedOK, Running
<1> QED
  BY <1>5, <1>6, <1>7, <1>8, <1>10, <1>11, <1>12

\* A file of a staged archive being copied is within the limits, and so is all after it.
LEMMA CopyRoom ==
  ASSUME ExtractInv, pc = "copy", Staged, NEW w, w = FileSizes(sc.members), NEW all, all = DOMAIN sc.members
  PROVE  /\ cur.size <= MaxFile /\ total + cur.size <= MaxTotal /\ cur.size \in Nat /\ cur.n <= cur.size
         /\ (total + cur.size) + SumOver(w, Ahead(Tail(todo))) <= SumOver(w, all)
         /\ total + SumOver(w, Ahead(Tail(todo))) <= SumOver(w, all)
<1> USE DEF ExtractInv
<1>1. PICK i \in all : i = cur.at /\ i = Head(todo).at /\ todo # <<>> /\ sc.members[i].kind # "directory"
  BY DEF CopyOK, Fit
<1>2. Stable /\ sc.form # "directory"
  BY DEF Staged, Archive
<1>3. cur.size = sc.members[i].size /\ cur.n <= cur.size
  BY <1>1, <1>2 DEF CopyOK
<1>4. i # 0 /\ sc.members[i].kind = "file"
  <2>1. sc.members[i].kind = "file"
    <3>1. sc.members[i].kind # "symlink"
      BY <1>1 DEF Staged, StagerAccepts
    <3>2. sc.members[i].kind \in {"file", "linked", "directory", "symlink"} /\ sc.members[i].kind # "linked"
      BY <1>1, <1>2, SourceFacts, Setups DEF Piece, SourceOK
    <3> QED
      BY <1>1, <3>1, <3>2
  <2>2. i # 0
    BY <1>1, Scenarios DEF SourceOK
  <2> QED
    BY <2>1, <2>2
<1>5. Running /\ total \in Nat
  BY DEF Running, TypeOK
<1>6. PICK m : m = sc.members[i]
  OBVIOUS
<1>7. /\ m.size <= MaxFile /\ total + m.size <= MaxTotal /\ m.size \in Nat
      /\ (total + m.size) + SumOver(w, Ahead(Tail(todo))) <= SumOver(w, all)
      /\ total + SumOver(w, Ahead(Tail(todo))) <= SumOver(w, all)
  BY <1>1, <1>4, <1>5, <1>6, StagedRoom
<1> QED
  BY <1>3, <1>6, <1>7

\* The head of the queue goes after a copy, refused or published.
LEMMA Consumed ==
  ASSUME ExtractInv, pc = "copy", pc' = "loop", todo' = Tail(todo), cur' = NoCopy,
         UNCHANGED <<sc, src, inv, temps, status, calls>>
  PROVE  SourceOK' /\ ItemsOK' /\ CopyOK'
<1> USE DEF ExtractInv
<1>1. SourceOK'
  BY DEF SourceOK, Like, Stable
<1>2. ItemsOK'
  <2>1. Items(Tail(todo))
    BY HeadFacts DEF ItemsOK, CopyOK
  <2>2. Items(todo)'
    BY <2>1, Frame DEF Items
  <2> QED
    BY <2>2 DEF ItemsOK, Running
<1>3. CopyOK'
  BY DEF CopyOK, Copy, NoCopy
<1> QED
  BY <1>1, <1>2, <1>3

\* A copy is refused: for its size, or for not being what the inventory says.
LEMMA RefuseStep ==
  ASSUME ExtractInv, pc = "copy", pc' = "loop", todo' = Tail(todo), cur' = NoCopy,
         NEW counted \in BOOLEAN, Refuse(counted), limited' \in BOOLEAN, Staged => limited' = limited,
         UNCHANGED <<sc, src, inv, temps, status, calls, out, total>>
  PROVE  ExtractInv'
<1>1. SourceOK' /\ ItemsOK' /\ CopyOK'
  BY Consumed
<1> USE DEF ExtractInv
<1>2. /\ tally' \in [extracted : Nat, rejected : Nat, errors : Nat] /\ tally'.rejected <= tally'.errors
      /\ tally'.errors # 0
  BY Refusal
<1>3. TypeOK'
  BY <1>2 DEF TypeOK
<1>4. OutOK'
  BY SameFiles
<1>5. LimitsOK'
  BY NoCopyLimits
<1>6. DoneOK'
  BY <1>2 DEF DoneOK
<1>7. StagedOK'
  <2> SUFFICES ASSUME Staged
               PROVE  /\ ~limited' /\ Distinct(Tail(todo))
                      /\ total + SumOver(FileSizes(sc.members), Ahead(Tail(todo)))
                           <= SumOver(FileSizes(sc.members), DOMAIN sc.members)
    BY Frame DEF StagedOK
  <2>1. PICK w, all : w = FileSizes(sc.members) /\ all = DOMAIN sc.members
    OBVIOUS
  <2>2. total + SumOver(w, Ahead(Tail(todo))) <= SumOver(w, all)
    BY <2>1, CopyRoom
  <2>3. ~limited' /\ Distinct(Tail(todo))
    BY AheadFacts DEF StagedOK, ItemsOK, Running, CopyOK
  <2> QED
    BY <2>1, <2>2, <2>3
<1> QED
  BY <1>1, <1>3, <1>4, <1>5, <1>6, <1>7

LEMMA BlockStep == ExtractInv /\ Block => ExtractInv'
<1> SUFFICES ASSUME ExtractInv, Block PROVE ExtractInv'
  OBVIOUS
<1>1. pc = "copy" /\ cur.n < cur.size /\ UNCHANGED <<sc, src, inv, out, temps, total, status, calls>>
  BY DEF Block
<1>2. CASE sc.adapter # "disk" /\ OverLimit(cur.n + 1)
  <2>1. /\ pc' = "loop" /\ todo' = Tail(todo) /\ cur' = NoCopy
        /\ Refuse(sc.adapter = "uac") /\ limited' = TRUE
    BY <1>2 DEF Block
  <2>2. ~Staged
    <3> SUFFICES ASSUME Staged PROVE FALSE
      OBVIOUS
    <3>1. cur.size <= MaxFile /\ total + cur.size <= MaxTotal /\ cur.size \in Nat
      BY <1>1, CopyRoom
    <3>2. cur.n \in Nat /\ total \in Nat
      BY DEF ExtractInv, CopyOK, Copy, TypeOK
    <3> QED
      BY <1>1, <1>2, <3>1, <3>2, Numbers DEF OverLimit
  <2> QED
    BY <1>1, <2>1, <2>2, RefuseStep
<1>3. CASE ~(sc.adapter # "disk" /\ OverLimit(cur.n + 1))
  <2> USE DEF ExtractInv
  <2>1. cur' = [cur EXCEPT !.n = @ + 1] /\ UNCHANGED <<pc, todo, tally, limited>>
    BY <1>3 DEF Block
  <2>2. PICK a \in Nat, p \in Nat, v \in {"old", "new", "torn"}, z \in Nat, n \in Nat :
          cur = [at |-> a, path |-> p, ver |-> v, size |-> z, n |-> n]
    BY DEF CopyOK, Copy
  <2>3. cur' = [at |-> a, path |-> p, ver |-> v, size |-> z, n |-> n + 1]
    BY <2>1, <2>2
  <2>4. n + 1 <= z
    BY <1>1, <2>2
  <2>5. TypeOK' /\ SourceOK' /\ OutOK'
    BY <1>1, <2>1, SameFiles DEF TypeOK, SourceOK, Like, Stable
  <2>6. ItemsOK'
    <3>1. Items(todo)'
      BY <1>1, <2>1, Frame DEF Items, ItemsOK
    <3> QED
      BY <1>1, <2>1, <3>1 DEF ItemsOK, Running
  <2>7. CopyOK'
    <3>1. cur' \in Copy /\ cur'.at = cur.at /\ cur'.path = cur.path /\ cur'.size = cur.size /\ cur'.n <= cur'.size
      BY <2>2, <2>3, <2>4 DEF Copy
    <3> QED
      BY <1>1, <2>1, <3>1, Frame DEF CopyOK
  <2>8. ASSUME Bounded PROVE n + 1 <= MaxFile /\ total + (n + 1) <= MaxTotal
    <3>1. total \in Nat
      BY DEF TypeOK
    <3>2. CASE sc.adapter # "disk"
      BY <1>3, <2>2, <3>1, <3>2, Numbers DEF OverLimit
    <3>3. CASE sc.adapter = "disk"
      <4>1. z <= MaxFile /\ total + z <= MaxTotal
        BY <1>1, <2>2, <2>8, <3>3 DEF CopyOK, Bounded
      <4> QED
        BY <2>4, <3>1, <4>1, Numbers
    <3> QED
      BY <3>2, <3>3
  <2>9. LimitsOK'
    <3> SUFFICES ASSUME Bounded PROVE LimitsOK'
      BY <1>1, SameFiles DEF LimitsOK
    <3> QED
      BY <1>1, <2>1, <2>3, <2>8, SameFiles DEF LimitsOK
  <2>10. DoneOK' /\ StagedOK'
    BY <1>1, <2>1, SameQueue
  <2> QED
    BY <2>5, <2>6, <2>7, <2>9, <2>10
<1> QED
  BY <1>2, <1>3

\* A copy is published, over a file of an earlier call or request perhaps.
LEMMA PublishedStep ==
  ASSUME ExtractInv, pc = "copy", cur.n >= cur.size, pc' = "loop", todo' = Tail(todo), cur' = NoCopy,
         sc.adapter = "velociraptor" => SameAsInventory,
         out' = [p \in DOMAIN out \cup {cur.path} |->
                   IF p = cur.path THEN [cur |-> cur, call |-> calls, listed |-> inv[cur.at].ver] ELSE out[p]],
         total' = total + cur.n, tally' = [tally EXCEPT !.extracted = @ + 1],
         UNCHANGED <<sc, src, inv, temps, status, calls, limited>>
  PROVE  ExtractInv'
<1>1. SourceOK' /\ ItemsOK' /\ CopyOK'
  BY Consumed
<1> USE DEF ExtractInv
<1>2. PICK path : path = cur.path
  OBVIOUS
<1>3. PICK f : f = [cur |-> cur, call |-> calls, listed |-> inv[cur.at].ver]
  OBVIOUS
<1>4. /\ DOMAIN out' = DOMAIN out \cup {path} /\ out'[path] = f
      /\ \A p \in DOMAIN out : p # path => out'[p] = out[p]
  BY <1>2, <1>3
<1>5. /\ cur \in Copy /\ cur.n \in Nat /\ cur.size \in Nat /\ Fit(cur.at) /\ cur.at \in DOMAIN sc.members
      /\ todo # <<>> /\ cur.at = Head(todo).at /\ path = Head(todo).path /\ Head(todo).safe
  BY <1>2 DEF CopyOK, Copy, Fit
<1>6. path \in Path /\ Items(todo) /\ calls \in Nat /\ total \in Nat
  <2>1. Head(todo) \in Item /\ Items(todo)
    BY <1>5, HeadFacts DEF ItemsOK, ItemOK
  <2> QED
    BY <1>5, <2>1 DEF Item, TypeOK
<1>7. f \in File /\ FileOK(f) /\ f.cur = cur /\ f.call = calls /\ sc.members[f.cur.at].path = path
  <2>1. inv[cur.at].ver \in {"old", "new"}
    BY <1>5, SourceFacts DEF Piece
  <2>2. f \in File
    BY <1>3, <1>5, <1>6, <2>1 DEF File
  <2>3. FileOK(f)
    BY <1>3, <1>5, <1>6 DEF FileOK, SameAsInventory
  <2>4. sc.members[cur.at].path = path
    BY <1>2 DEF CopyOK
  <2> QED
    BY <1>3, <2>2, <2>3, <2>4
<1>8. TypeOK'
  <2>1. PICK e \in Nat, r \in Nat, x \in Nat : tally = [extracted |-> x, rejected |-> r, errors |-> e] /\ r <= e
    BY DEF TypeOK
  <2>2. tally' = [extracted |-> x + 1, rejected |-> r, errors |-> e]
    BY <2>1
  <2>3. tally' \in [extracted : Nat, rejected : Nat, errors : Nat] /\ tally'.rejected <= tally'.errors
    BY <2>1, <2>2
  <2>4. DOMAIN out' \subseteq Path /\ total' \in Nat
    BY <1>4, <1>5, <1>6 DEF TypeOK
  <2> QED
    BY <2>3, <2>4 DEF TypeOK
<1>9. OutOK'
  <2>1. IsFiniteSet(DOMAIN out')
    BY <1>4, FS_AddElement DEF OutOK
  <2>2. \A p \in DOMAIN out' : out'[p] \in File /\ FileOK(out'[p]) /\ sc.members[out'[p].cur.at].path = p
    BY <1>4, <1>7 DEF OutOK
  <2>3. out' \in [DOMAIN out' -> File]
    BY <2>2
  <2>4. \A p \in DOMAIN out' : FileOK(out[p])' /\ sc'.members[out'[p].cur.at].path = p
    BY <2>2, Frame DEF FileOK
  <2> QED
    BY <2>1, <2>3, <2>4 DEF OutOK
<1>10. LimitsOK'
  <2> SUFFICES ASSUME Bounded PROVE LimitsOK'
    BY Frame DEF LimitsOK
  <2>1. PICK T : T = ThisCall /\ T \subseteq DOMAIN out
    BY DEF ThisCall
  <2>2. PICK U : U = ThisCall' /\ U = T \cup {path}
    <3>1. \A p \in DOMAIN out' : out'[p].call = calls <=> p = path \/ (p \in DOMAIN out /\ out[p].call = calls)
      BY <1>4, <1>7
    <3>2. ThisCall' = ThisCall \cup {path}
      BY <1>4, <3>1 DEF ThisCall
    <3> QED
      BY <2>1, <3>2
  <2>3. PICK v : v = [p \in T |-> out[p].cur.n]
    OBVIOUS
  <2>4. PICK w : w = [p \in U |-> out'[p].cur.n]
    OBVIOUS
  <2>5. Bytes(ThisCall) = SumOver(v, T)
    BY <2>1, <2>3 DEF Bytes
  <2>6. Bytes(ThisCall)' = SumOver(w, U)
    BY <2>2, <2>4 DEF Bytes
  <2>7. IsFiniteSet(T) /\ IsFiniteSet(U)
    <3>1. T \subseteq DOMAIN out /\ U \subseteq DOMAIN out' /\ IsFiniteSet(DOMAIN out) /\ IsFiniteSet(DOMAIN out')
      BY <1>4, <1>9, <2>1, <2>2 DEF OutOK
    <3> QED
      BY <3>1, FS_Subset
  <2>8. Weights(v, T) /\ Weights(w, U)
    <3>1. \A p \in DOMAIN out' : out'[p].cur.n \in Nat
      BY <1>9 DEF OutOK, File, Copy
    <3>2. \A p \in DOMAIN out : out[p].cur.n \in Nat
      BY DEF OutOK, File, Copy
    <3> QED
      BY <1>4, <2>1, <2>2, <2>3, <2>4, <3>1, <3>2 DEF Weights
  <2>9. PICK R : R = U \ {path} /\ R \in SUBSET T
    BY <2>2
  <2>10. SumOver(w, U) = w[path] + SumOver(w, R) /\ w[path] = cur.n
    <3>1. path \in U
      BY <2>2
    <3>2. SumOver(w, U) = w[path] + SumOver(w, R)
      BY <2>7, <2>8, <2>9, <3>1, SumAdd
    <3> QED
      BY <1>4, <1>7, <2>4, <3>1, <3>2
  <2>11. SumOver(w, R) = SumOver(v, R)
    <3>1. IsFiniteSet(R)
      BY <2>7, <2>9, FS_Subset
    <3>2. Agree(w, v, R)
      BY <1>4, <2>1, <2>2, <2>3, <2>4, <2>9 DEF Agree
    <3> QED
      BY <3>1, <3>2, SumSame
  <2>12. SumOver(v, R) <= SumOver(v, T) /\ SumOver(v, R) \in Nat /\ SumOver(v, T) \in Nat
    <3>1. SumOver(v, R) <= SumOver(v, T)
      BY <2>7, <2>8, <2>9, SumMono
    <3>2. IsFiniteSet(R) /\ Weights(v, R)
      BY <2>7, <2>8, <2>9, FS_Subset DEF Weights
    <3> QED
      BY <2>7, <2>8, <3>1, <3>2, SumNat
  <2>13. SumOver(v, T) <= total /\ cur.n <= MaxFile /\ total + cur.n <= MaxTotal
    BY <2>5 DEF LimitsOK
  <2>14. Bytes(ThisCall)' <= total'
    BY <1>5, <1>6, <2>6, <2>10, <2>11, <2>12, <2>13
  <2>15. \A p \in U : out'[p].cur.n <= MaxFile
    BY <1>4, <1>7, <2>1, <2>2, <2>13 DEF LimitsOK
  <2>16. cur'.n = 0 /\ 0 <= MaxFile /\ total' + 0 <= MaxTotal
    BY <1>5, <1>6, <2>13, Numbers DEF NoCopy
  <2> QED
    BY <2>2, <2>14, <2>15, <2>16 DEF LimitsOK
<1>11. DoneOK'
  <2> SUFFICES ASSUME tally'.errors = 0
               PROVE  /\ \A i \in DOMAIN sc.wanted : sc.wanted[i].safe \/ \E n \in DOMAIN Tail(todo) : ~Tail(todo)[n].safe
                      /\ ~UacArchive => \A p \in Wanted : p \in DOMAIN out' \/ \E n \in DOMAIN Tail(todo) : Tail(todo)[n].path = p
                      /\ UacArchive => \A i \in DOMAIN sc.members :
                           sc.members[i].safe /\ sc.members[i].path \in Wanted /\ sc.members[i].kind # "directory"
                             => sc.members[i].path \in DOMAIN out' \/ \E n \in DOMAIN Tail(todo) : Tail(todo)[n].at = i
    BY Frame DEF DoneOK
  <2>1. tally.errors = 0
    BY DEF TypeOK
  <2>2. Head(todo) = todo[1] /\ ItemOK(Head(todo))
        /\ \A n \in DOMAIN todo : n # 1 => \E m \in DOMAIN Tail(todo) : Tail(todo)[m] = todo[n]
    BY <1>5, <1>6, HeadFacts
  <2>3. /\ \A i \in DOMAIN sc.wanted : sc.wanted[i].safe \/ \E n \in DOMAIN todo : ~todo[n].safe
        /\ ~UacArchive => \A p \in Wanted : p \in DOMAIN out \/ \E n \in DOMAIN todo : todo[n].path = p
        /\ UacArchive => \A i \in DOMAIN sc.members :
             sc.members[i].safe /\ sc.members[i].path \in Wanted /\ sc.members[i].kind # "directory"
               => sc.members[i].path \in DOMAIN out \/ \E n \in DOMAIN todo : todo[n].at = i
    BY <2>1 DEF DoneOK
  <2>4. \A i \in DOMAIN sc.wanted : sc.wanted[i].safe \/ \E n \in DOMAIN Tail(todo) : ~Tail(todo)[n].safe
    BY <1>5, <2>2, <2>3
  <2>5. ~UacArchive => \A p \in Wanted : p \in DOMAIN out' \/ \E n \in DOMAIN Tail(todo) : Tail(todo)[n].path = p
    BY <1>4, <1>5, <2>2, <2>3
  <2>6. ASSUME UacArchive, NEW i \in DOMAIN sc.members,
               sc.members[i].safe, sc.members[i].path \in Wanted, sc.members[i].kind # "directory",
               sc.members[i].path \notin DOMAIN out'
        PROVE  \E n \in DOMAIN Tail(todo) : Tail(todo)[n].at = i
    <3>1. PICK n \in DOMAIN todo : todo[n].at = i
      BY <1>4, <2>3, <2>6
    <3>2. i # 0
      BY Scenarios DEF SourceOK
    <3>3. n # 1
      BY <1>4, <1>5, <2>2, <2>6, <3>1, <3>2 DEF ItemOK
    <3> QED
      BY <2>2, <3>1, <3>3
  <2> QED
    BY <2>4, <2>5, <2>6
<1>12. StagedOK'
  <2> SUFFICES ASSUME Staged
               PROVE  /\ ~limited /\ Distinct(Tail(todo))
                      /\ (total + cur.n) + SumOver(FileSizes(sc.members), Ahead(Tail(todo)))
                           <= SumOver(FileSizes(sc.members), DOMAIN sc.members)
    BY Frame DEF StagedOK
  <2>1. PICK w, all : w = FileSizes(sc.members) /\ all = DOMAIN sc.members
    OBVIOUS
  <2>2. cur.n <= cur.size /\ (total + cur.size) + SumOver(w, Ahead(Tail(todo))) <= SumOver(w, all)
    BY <2>1, CopyRoom
  <2>3. cur.n = cur.size
    BY <1>5, <2>2
  <2>4. ~limited /\ Distinct(Tail(todo))
    BY <1>5, <1>6, AheadFacts DEF StagedOK, Running
  <2> QED
    BY <2>1, <2>2, <2>3, <2>4
<1> QED
  BY <1>1, <1>8, <1>9, <1>10, <1>11, <1>12

LEMMA PublishStep == ExtractInv /\ Publish => ExtractInv'
<1> SUFFICES ASSUME ExtractInv, Publish PROVE ExtractInv'
  OBVIOUS
<1>1. /\ pc = "copy" /\ cur.n >= cur.size /\ pc' = "loop" /\ todo' = Tail(todo) /\ cur' = NoCopy
      /\ UNCHANGED <<sc, src, inv, temps, status, calls, limited>>
  BY DEF Publish
<1>2. CASE Refuse(FALSE) /\ UNCHANGED <<out, total>>
  <2>1. limited' \in BOOLEAN
    BY <1>1 DEF ExtractInv, TypeOK
  <2> QED
    BY <1>1, <1>2, <2>1, RefuseStep
<1>3. CASE /\ sc.adapter = "velociraptor" => SameAsInventory
           /\ out' = [p \in DOMAIN out \cup {cur.path} |->
                        IF p = cur.path THEN [cur |-> cur, call |-> calls, listed |-> inv[cur.at].ver] ELSE out[p]]
           /\ total' = total + cur.n
           /\ tally' = [tally EXCEPT !.extracted = @ + 1]
  BY <1>1, <1>3, PublishedStep
<1> QED
  BY <1>2, <1>3 DEF Publish

-----------------------------------------------------------------------------
(* The theorems.                                                            *)

LEMMA Invariance == Spec => []ExtractInv
<1>1. ExtractInv /\ [Next]_vars => ExtractInv'
  <2> SUFFICES ASSUME ExtractInv, [Next]_vars PROVE ExtractInv'
    OBVIOUS
  <2>1. CASE UNCHANGED vars
    <3>1. /\ UNCHANGED <<sc, src, inv, pc, todo, cur, out, temps, total, tally, status, calls, limited>>
      BY <2>1 DEF vars
    <3>2. TypeOK' /\ SourceOK' /\ OutOK'
      BY <3>1, SameFiles DEF ExtractInv, TypeOK, SourceOK, Like, Stable
    <3>3. ItemsOK'
      BY <3>1, Frame DEF ExtractInv, Items, ItemsOK, Running
    <3>4. CopyOK' /\ LimitsOK'
      BY <3>1, Frame, SameFiles DEF ExtractInv, CopyOK, LimitsOK
    <3>5. DoneOK' /\ StagedOK'
      BY <3>1, Frame DEF ExtractInv, DoneOK, StagedOK, Running, Distinct, Ahead
    <3> QED
      BY <3>2, <3>3, <3>4, <3>5 DEF ExtractInv
  <2>2. ASSUME NEW i \in DOMAIN src, NEW size \in Size, Change(i, size) PROVE ExtractInv'
    BY <2>2, ChangeStep
  <2> QED
    BY <2>1, <2>2, ExtractStep, PassStep, OpenStep, BlockStep, PublishStep, ReturnStep, ReadErrorStep, DieStep DEF Next
<1> QED
  BY <1>1, InitStep, PTL DEF Spec

\* The variables of the extractors keep their types; a rejection is an error.
THEOREM ExtractTypeCorrect == Spec => []TypeOK
<1>1. ExtractInv => TypeOK
  BY DEF ExtractInv
<1> QED
  BY <1>1, Invariance, PTL

\* _copy_stream and the loop of Velociraptor count bytes as they read: no call writes
\* more than its limits, though the file grows, whatever the declared sizes; the disk
\* adapter keeps them on an image that stays as it is.
THEOREM NeverOverLimit == Spec => []WithinLimits
<1>1. ExtractInv => WithinLimits
  <2> SUFFICES ASSUME ExtractInv, Bounded PROVE LimitsKept
    BY DEF WithinLimits, Bounded, Stable
  <2>1. PICK w : w = [p \in ThisCall |-> out[p].cur.n]
    OBVIOUS
  <2>2. Bytes(ThisCall) = SumOver(w, ThisCall)
    BY <2>1 DEF Bytes
  <2>3. IsFiniteSet(ThisCall)
    BY FS_Subset DEF ExtractInv, OutOK, ThisCall
  <2>4. Weights(w, ThisCall)
    BY <2>1 DEF ExtractInv, OutOK, File, Copy, ThisCall, Weights
  <2>5. Bytes(ThisCall) \in Nat
    BY <2>2, <2>3, <2>4, SumNat
  <2>6. Bytes(ThisCall) + cur.n <= MaxTotal
    <3>1. total \in Nat /\ cur.n \in Nat /\ Bytes(ThisCall) <= total /\ total + cur.n <= MaxTotal
      BY DEF ExtractInv, TypeOK, CopyOK, Copy, LimitsOK
    <3> QED
      BY <2>5, <3>1, Numbers
  <2> QED
    BY <2>6 DEF ExtractInv, LimitsOK, LimitsKept
<1> QED
  BY <1>1, Invariance, PTL

\* os.replace publishes a member only under its own name, when it is safe and was
\* read to its end: with Velociraptor a regular file as the inventory has it.
THEOREM OnlyToTheEnd == Spec => []PublishedToEnd
<1>1. ExtractInv => PublishedToEnd
  <2> SUFFICES ASSUME ExtractInv, NEW p \in DOMAIN out
               PROVE  /\ out[p].cur.n >= out[p].cur.size
                      /\ src[out[p].cur.at].safe /\ src[out[p].cur.at].path = p
                      /\ sc.adapter # "uac" \/ sc.form = "tar" => src[out[p].cur.at].kind = "file"
                      /\ sc.adapter = "velociraptor" => out[p].cur.ver = out[p].listed
    BY DEF PublishedToEnd
  <2>1. FileOK(out[p]) /\ Fit(out[p].cur.at) /\ sc.members[out[p].cur.at].path = p
    BY DEF ExtractInv, OutOK, FileOK
  <2> QED
    BY <2>1, SourceFacts DEF ExtractInv, FileOK, Fit
<1> QED
  BY <1>1, Invariance, PTL

\* completed: every request was a safe path and is there.
THEOREM CompletedIsComplete == Spec => []CompletedMeansAll
<1>1. ExtractInv => CompletedMeansAll
  <2> SUFFICES ASSUME ExtractInv, pc = "returned", status = "completed", NEW i \in DOMAIN sc.wanted
               PROVE  /\ sc.wanted[i].safe
                      /\ \/ sc.wanted[i].path \in DOMAIN out
                         \/ sc.adapter = "uac" /\ Archive
                            /\ \A k \in DOMAIN src : src[k].path = sc.wanted[i].path => ~src[k].safe \/ src[k].kind = "directory"
    BY DEF CompletedMeansAll
  <2>1. todo = <<>> /\ tally.errors = 0
    BY DEF ExtractInv, DoneOK
  <2>2. /\ \A j \in DOMAIN sc.wanted : sc.wanted[j].safe
        /\ ~UacArchive => \A p \in Wanted : p \in DOMAIN out
        /\ UacArchive => \A k \in DOMAIN sc.members :
             sc.members[k].safe /\ sc.members[k].path \in Wanted /\ sc.members[k].kind # "directory"
               => sc.members[k].path \in DOMAIN out
    BY <2>1 DEF ExtractInv, DoneOK
  <2>3. sc.wanted[i].path \in Wanted
    BY <2>2 DEF Wanted
  <2>4. CASE ~UacArchive
    BY <2>2, <2>3, <2>4
  <2>5. CASE UacArchive
    <3>1. ASSUME NEW k \in DOMAIN src, src[k].path = sc.wanted[i].path, src[k].safe, src[k].kind # "directory"
          PROVE  sc.wanted[i].path \in DOMAIN out
      <4>1. k \in DOMAIN sc.members /\ sc.members[k].path = sc.wanted[i].path
            /\ sc.members[k].safe /\ sc.members[k].kind # "directory"
        BY <3>1, SourceFacts DEF ExtractInv, TypeOK
      <4> QED
        BY <2>2, <2>3, <2>5, <4>1
    <3> QED
      BY <2>2, <2>5, <3>1 DEF UacArchive
  <2> QED
    BY <2>4, <2>5
<1> QED
  BY <1>1, Invariance, PTL

\* No size limit of an adapter stops what EvidenceStager has let through, as long as
\* it is what EvidenceStager saw.
THEOREM NoLimitForStaged == Spec => []StagedFits
<1>1. ExtractInv => StagedFits
  BY DEF ExtractInv, StagedOK, StagedFits, Staged, Stable
<1> QED
  BY <1>1, Invariance, PTL
=============================================================================
