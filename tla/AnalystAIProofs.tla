--------------------------- MODULE AnalystAIProofs ---------------------------
(***************************************************************************)
(* Proofs about AnalystAI, for any threads, analysts, limits and bounds.    *)
(***************************************************************************)
EXTENDS AnalystAI, SequenceTheorems, WellFoundedInduction, TLAPS

\* Where the loop's thread is while its question may still become a record.
Asking == {"purge", "list", "delete", "drop", "forget", "begin", "complete", "setdefault"}
Purging == {"list", "delete", "drop", "forget"}

\* A handler runs where its kind of route runs, on objects that exist; only the
\* loop makes records, one at a time.
HandlerOK(t, h) ==
  /\ h.pc = "idle" \/ h.op # "none"
  /\ t \in Workers => h.op # "ask"
  /\ h.pc \in {"begin", "complete", "setdefault", "store"} => h.op = "ask"
  /\ h.pc = "lookup" => h.op # "ask"
  /\ h.op = "ask" => h.analyst \in Analyst
  /\ h.pc \in Purging \cup {"store"} => h.dict \in DOMAIN dicts
  /\ h.op = "ask" /\ h.pc \in Asking => Len(record) < MaxAsks
  /\ h.pc = "store" => /\ h.id = Len(record) /\ Len(record) > 0
                       /\ \A d \in DOMAIN dicts : h.id \notin dicts[d]

CacheOK ==
  /\ Len(record) <= MaxAsks
  /\ \A d \in DOMAIN dicts : dicts[d] \subseteq DOMAIN record
  /\ named \in {0, Len(dicts)}

ThreadsOK == CacheOK /\ \A t \in Thread : HandlerOK(t, thread[t])

\* The deque s is the end of the admissions b, and what was popped has left the
\* window.
DequeOK(b, s, now) ==
  /\ Len(s) <= Len(b)
  /\ \A i \in 1..Len(b) : b[i] <= now
  /\ \A i \in 1..Len(s) : s[i] = b[Len(b) - Len(s) + i]
  /\ \A i \in 1..(Len(b) - Len(s)) : now - b[i] >= Window

RateOK ==
  /\ begun \in [Analyst -> Seq(0..MaxTime)]
  /\ \A a \in Analyst : DequeOK(begun[a], stamps[a], clock)

Reads(h) == h.op \in {"get", "approve"}
Stale(h) == h.now - record[h.id].created > TTL

\* A handler that looks for an expired record does not find it: the dict it has
\* purged does not hold it, and no later dict ever gets it.
LooksOK(h) ==
  /\ h.id \in DOMAIN record
  /\ h.pc # "idle" /\ At(Loop, "store") => h.id # thread[Loop].id
  /\ h.pc \in Purging => \A d \in DOMAIN dicts : d > h.dict => h.id \notin dicts[d]
  /\ h.pc = "delete" /\ Stale(h) /\ h.id \in dicts[h.dict] => h.id \in h.todo
  /\ h.pc \in {"drop", "forget"} /\ Stale(h) => h.id \notin dicts[h.dict]
  /\ h.pc = "lookup" /\ Stale(h) => ~Cached(h.id)
  /\ h.pc = "idle" /\ h.answer = "200" => ~Stale(h)
  /\ h.answer # "none" => h.pc = "idle"

ReadersOK == \A t \in Thread : Reads(thread[t]) => LooksOK(thread[t])

AIInv == TypeOK /\ ThreadsOK /\ RateOK /\ RollingLimit /\ SlotHeldOnlyInFlight /\ ReadersOK

-----------------------------------------------------------------------------
(* Handlers and sequences.                                                  *)

Pcs == {"idle", "purge", "list", "delete", "drop", "forget", "begin", "complete", "setdefault", "store", "lookup"}
Codes == {"none", "200", "400", "404", "429", "500", "503"}

LEMMA Bounds ==
  /\ {Rate, Window, TTL, MaxTokens, MaxAsks, MaxTime} \subseteq Nat /\ Tokens \subseteq Nat
  /\ Loop \notin Workers /\ Loop \in Thread /\ Workers \subseteq Thread
BY AIAssumption DEF Thread

LEMMA NoHandlerTyped == NoHandler \in Handler /\ ~Reads(NoHandler)
BY Bounds DEF NoHandler, Handler, Reads

\* t goes on as h.
Move(t, h) == h \in Handler /\ thread' = [thread EXCEPT ![t] = h]

LEMMA Moves ==
  ASSUME TypeOK, NEW t \in Thread, NEW h, Move(t, h)
  PROVE  thread'[t] = h /\ thread' \in [Thread -> Handler] /\ \A u \in Thread \ {t} : thread'[u] = thread[u]
BY DEF Move, TypeOK

LEMMA GotoMove ==
  ASSUME TypeOK, NEW t \in Thread, NEW w \in Pcs, Goto(t, w)
  PROVE  \E h \in Handler : /\ Move(t, h) /\ h.pc = w
                            /\ h.op = thread[t].op /\ h.analyst = thread[t].analyst /\ h.id = thread[t].id
                            /\ h.now = thread[t].now /\ h.dict = thread[t].dict
                            /\ h.todo = thread[t].todo /\ h.answer = thread[t].answer
<1>1. thread[t] \in Handler
  BY DEF TypeOK
<1> DEFINE h == [thread[t] EXCEPT !.pc = w]
<1>2. h \in Handler
  BY <1>1 DEF Handler, Pcs
<1>3. /\ h.pc = w /\ h.op = thread[t].op /\ h.analyst = thread[t].analyst /\ h.id = thread[t].id
      /\ h.now = thread[t].now /\ h.dict = thread[t].dict
      /\ h.todo = thread[t].todo /\ h.answer = thread[t].answer
  BY <1>1 DEF Handler
<1>4. thread' = [thread EXCEPT ![t] = h]
  BY DEF Goto, TypeOK
<1> QED
  BY <1>2, <1>3, <1>4 DEF Move

LEMMA AnswerMove ==
  ASSUME TypeOK, NEW t \in Thread, NEW code \in Codes, Answer(t, code)
  PROVE  \E h \in Handler : /\ Move(t, h) /\ h.pc = "idle" /\ h.answer = code
                            /\ h.op = thread[t].op /\ h.analyst = thread[t].analyst /\ h.id = thread[t].id
                            /\ h.now = thread[t].now
<1>1. thread[t] \in Handler
  BY DEF TypeOK
<1> DEFINE h == [thread[t] EXCEPT !.pc = "idle", !.answer = code, !.dict = 0, !.todo = {}]
<1>2. h \in Handler
  BY <1>1 DEF Handler, Codes
<1>3. /\ h.pc = "idle" /\ h.answer = code /\ h.op = thread[t].op /\ h.analyst = thread[t].analyst
      /\ h.id = thread[t].id /\ h.now = thread[t].now
  BY <1>1 DEF Handler
<1>4. thread' = [thread EXCEPT ![t] = h]
  BY DEF Answer, TypeOK
<1> QED
  BY <1>2, <1>3, <1>4 DEF Move

LEMMA SeqUpdate ==
  ASSUME NEW S, NEW s \in Seq(S), NEW k \in DOMAIN s, NEW v \in S
  PROVE  /\ [s EXCEPT ![k] = v] \in Seq(S) /\ Len([s EXCEPT ![k] = v]) = Len(s)
         /\ DOMAIN [s EXCEPT ![k] = v] = DOMAIN s
BY ExceptSeq

LEMMA SeqAppend ==
  ASSUME NEW S, NEW s \in Seq(S), NEW v \in S
  PROVE  /\ Append(s, v) \in Seq(S) /\ Len(Append(s, v)) = Len(s) + 1 /\ Len(s) \in Nat
         /\ \A i \in 1..Len(s) : Append(s, v)[i] = s[i]
         /\ Append(s, v)[Len(s) + 1] = v
BY AppendProperties

\* The loop that pops stops: at the first admission inside the window, or at the end.
LEMMA PoppedFacts ==
  ASSUME NEW S, NEW s \in Seq(S), NEW now, S \subseteq Int, now \in Int
  PROVE  Popped(s, now) \in 0..Len(s) /\ \A i \in 1..Popped(s, now) : now - s[i] >= Window
<1> DEFINE Stops(k) == /\ \A i \in 1..k : now - s[i] >= Window
                       /\ k < Len(s) => now - s[k + 1] < Window
           Young == {n \in 1..Len(s) : now - s[n] < Window}
<1>1. Len(s) \in Nat /\ \A i \in 1..Len(s) : s[i] \in Int
  BY ElementOfSeq, LenProperties
<1>2. \E k \in 0..Len(s) : Stops(k)
  <2>1. CASE Young = {}
    <3>1. Stops(Len(s))
      BY <1>1, <2>1, Bounds
    <3> QED
      BY <1>1, <3>1
  <2>2. CASE Young # {}
    <3>1. Young \subseteq Nat
      BY <1>1
    <3>2. PICK n \in Young : \A y \in Young : ~(<<y, n>> \in OpToRel(<, Nat))
      BY <2>2, <3>1, WFMin, NatLessThanWellFounded
    <3>3. \A y \in Young : ~(y < n)
      BY <3>1, <3>2 DEF OpToRel
    <3>4. n - 1 \in 0..Len(s) /\ (n - 1) + 1 = n
      BY <1>1
    <3>5. Stops(n - 1)
      BY <1>1, <3>3, <3>4, Bounds
    <3> QED
      BY <3>4, <3>5
  <2> QED
    BY <2>1, <2>2
<1> QED
  BY <1>2 DEF Popped

-----------------------------------------------------------------------------
(* The rate limit.                                                          *)

LEMMA Times ==
  ASSUME NEW s \in Seq(0..MaxTime)
  PROVE  /\ Len(s) \in Nat /\ DOMAIN s = 1..Len(s)
         /\ \A i \in 1..Len(s) : s[i] \in 0..MaxTime /\ s[i] \in Int
<1>1. Len(s) \in Nat /\ s \in [1..Len(s) -> 0..MaxTime] /\ DOMAIN s = 1..Len(s)
  BY LenProperties
<1> QED
  BY <1>1, Bounds

LEMMA RecentFacts ==
  ASSUME NEW s \in Seq(0..MaxTime), NEW now \in 0..MaxTime
  PROVE  \E k \in 0..Len(s) : LET r == Recent(s, now) IN
           /\ r \in Seq(0..MaxTime) /\ Len(r) = Len(s) - k
           /\ \A i \in 1..Len(r) : r[i] = s[k + i]
           /\ \A i \in 1..k : now - s[i] >= Window
<1>1. 0..MaxTime \subseteq Int /\ now \in Int /\ Len(s) \in Nat
  BY Bounds, LenProperties
<1>2. PICK k \in 0..Len(s) : k = Popped(s, now) /\ \A i \in 1..k : now - s[i] >= Window
  BY <1>1, PoppedFacts
<1>3. k + 1 \in Int /\ Len(s) \in Int /\ \A i \in (k + 1)..Len(s) : s[i] \in 0..MaxTime
  BY <1>1, Times
<1>4. PICK r : r = SubSeq(s, k + 1, Len(s))
  OBVIOUS
<1>5. /\ r \in Seq(0..MaxTime) /\ Len(r) = IF k + 1 <= Len(s) THEN Len(s) - (k + 1) + 1 ELSE 0
      /\ \A i \in 1..(Len(s) - (k + 1) + 1) : r[i] = s[(k + 1) + i - 1]
  BY <1>3, <1>4, SubSeqProperties
<1>6. Len(r) = Len(s) - k
  BY <1>1, <1>5
<1>7. \A i \in 1..Len(r) : r[i] = s[k + i]
  <2> SUFFICES ASSUME NEW i \in 1..Len(r) PROVE r[i] = s[k + i]
    OBVIOUS
  <2>1. i \in 1..(Len(s) - (k + 1) + 1) /\ (k + 1) + i - 1 = k + i
    BY <1>1, <1>6
  <2> QED
    BY <1>5, <2>1
<1>8. Recent(s, now) = r
  BY <1>2, <1>4 DEF Recent
<1> QED
  BY <1>2, <1>5, <1>6, <1>7, <1>8

\* The deque after the loop is still the end of the admissions.
LEMMA RateKept ==
  ASSUME NEW b \in Seq(0..MaxTime), NEW s \in Seq(0..MaxTime), NEW now \in 0..MaxTime, DequeOK(b, s, now)
  PROVE  DequeOK(b, Recent(s, now), now) /\ Recent(s, now) \in Seq(0..MaxTime) /\ Len(Recent(s, now)) <= Len(s)
<1>1. PICK r : r = Recent(s, now)
  OBVIOUS
<1>2. PICK k \in 0..Len(s) : /\ r \in Seq(0..MaxTime) /\ Len(r) = Len(s) - k
                             /\ \A i \in 1..Len(r) : r[i] = s[k + i]
                             /\ \A i \in 1..k : now - s[i] >= Window
  BY <1>1, RecentFacts
<1>3. Len(r) \in Nat /\ Len(s) \in Nat /\ Len(b) \in Nat
  BY <1>2, Times
<1>4. /\ Len(s) <= Len(b) /\ \A i \in 1..Len(b) : b[i] <= now
      /\ \A i \in 1..Len(s) : s[i] = b[Len(b) - Len(s) + i]
      /\ \A i \in 1..(Len(b) - Len(s)) : now - b[i] >= Window
  BY DEF DequeOK
<1>5. \A i \in 1..Len(r) : r[i] = b[Len(b) - Len(r) + i]
  <2> SUFFICES ASSUME NEW i \in 1..Len(r) PROVE r[i] = b[Len(b) - Len(r) + i]
    OBVIOUS
  <2>1. r[i] = s[k + i] /\ k + i \in 1..Len(s)
    BY <1>2, <1>3
  <2>2. s[k + i] = b[Len(b) - Len(s) + (k + i)]
    BY <1>4, <2>1
  <2>3. Len(b) - Len(s) + (k + i) = Len(b) - Len(r) + i
    BY <1>2, <1>3
  <2> QED
    BY <2>1, <2>2, <2>3
<1>6. \A i \in 1..(Len(b) - Len(r)) : now - b[i] >= Window
  <2> SUFFICES ASSUME NEW i \in 1..(Len(b) - Len(r)), ~(i \in 1..(Len(b) - Len(s)))
               PROVE  now - b[i] >= Window
    BY <1>4
  <2>1. PICK n : n = i - (Len(b) - Len(s))
    OBVIOUS
  <2>2. n \in 1..k /\ n \in 1..Len(s) /\ Len(b) - Len(s) + n = i
    BY <1>2, <1>3, <1>4, <2>1
  <2>3. s[n] = b[i] /\ now - s[n] >= Window
    BY <1>2, <1>4, <2>2
  <2> QED
    BY <2>3
<1>7. Len(r) <= Len(s) /\ Len(r) <= Len(b)
  BY <1>2, <1>3, <1>4
<1> QED
  BY <1>1, <1>2, <1>4, <1>5, <1>6, <1>7 DEF DequeOK

\* The limit of one analyst.
Limited(b) == \A m, n \in DOMAIN b : n - m >= Rate => b[n] - b[m] >= Window

\* An admission with fewer than Rate stamps left: the one Rate before it was popped.
LEMMA RateAdmits ==
  ASSUME NEW b \in Seq(0..MaxTime), NEW r \in Seq(0..MaxTime), NEW now \in 0..MaxTime, DequeOK(b, r, now),
         Limited(b), Len(r) < Rate
  PROVE  /\ Append(r, now) \in Seq(0..MaxTime) /\ Append(b, now) \in Seq(0..MaxTime)
         /\ Len(Append(r, now)) <= Rate
         /\ DequeOK(Append(b, now), Append(r, now), now) /\ Limited(Append(b, now))
<1>1. PICK s : s = Append(r, now)
  OBVIOUS
<1>2. PICK d : d = Append(b, now)
  OBVIOUS
<1>3. /\ s \in Seq(0..MaxTime) /\ Len(s) = Len(r) + 1
      /\ \A i \in 1..Len(r) : s[i] = r[i]
      /\ s[Len(r) + 1] = now
  BY <1>1, SeqAppend
<1>4. /\ d \in Seq(0..MaxTime) /\ Len(d) = Len(b) + 1
      /\ \A i \in 1..Len(b) : d[i] = b[i]
      /\ d[Len(b) + 1] = now
  BY <1>2, SeqAppend
<1>5. /\ Len(r) \in Nat /\ Len(b) \in Nat /\ now \in Int /\ {Rate, Window} \subseteq Nat
      /\ DOMAIN b = 1..Len(b) /\ DOMAIN d = 1..Len(d) /\ \A i \in 1..Len(b) : b[i] \in Int
  <2>1. Len(b) \in Nat /\ DOMAIN b = 1..Len(b) /\ \A i \in 1..Len(b) : b[i] \in Int
    BY Times
  <2>2. Len(r) \in Nat /\ DOMAIN d = 1..Len(d)
    BY <1>4, Times
  <2> QED
    BY <2>1, <2>2, Bounds
<1>6. /\ Len(r) <= Len(b) /\ \A i \in 1..Len(b) : b[i] <= now
      /\ \A i \in 1..Len(r) : r[i] = b[Len(b) - Len(r) + i]
      /\ \A i \in 1..(Len(b) - Len(r)) : now - b[i] >= Window
  BY DEF DequeOK
<1>7. \A i \in 1..Len(d) : d[i] <= now
  <2>1. \A i \in 1..Len(d) : i \in 1..Len(b) \/ i = Len(b) + 1
    BY <1>4, <1>5
  <2> QED
    BY <1>4, <1>5, <1>6, <2>1
<1>8. \A i \in 1..Len(s) : s[i] = d[Len(d) - Len(s) + i]
  <2> SUFFICES ASSUME NEW i \in 1..Len(s) PROVE s[i] = d[Len(d) - Len(s) + i]
    OBVIOUS
  <2>1. CASE i = Len(r) + 1
    <3>1. Len(d) - Len(s) + i = Len(b) + 1
      BY <1>3, <1>4, <1>5, <2>1
    <3> QED
      BY <1>3, <1>4, <2>1, <3>1
  <2>2. CASE i # Len(r) + 1
    <3>1. i \in 1..Len(r) /\ Len(d) - Len(s) + i = Len(b) - Len(r) + i /\ Len(b) - Len(r) + i \in 1..Len(b)
      BY <1>3, <1>4, <1>5, <1>6, <2>2
    <3>2. s[i] = r[i] /\ r[i] = b[Len(b) - Len(r) + i] /\ d[Len(b) - Len(r) + i] = b[Len(b) - Len(r) + i]
      BY <1>3, <1>4, <1>6, <3>1
    <3> QED
      BY <3>1, <3>2
  <2> QED
    BY <2>1, <2>2
<1>9. \A i \in 1..(Len(d) - Len(s)) : now - d[i] >= Window
  <2> SUFFICES ASSUME NEW i \in 1..(Len(d) - Len(s)) PROVE now - d[i] >= Window
    OBVIOUS
  <2>1. i \in 1..(Len(b) - Len(r)) /\ i \in 1..Len(b)
    BY <1>3, <1>4, <1>5, <1>6
  <2> QED
    BY <1>4, <1>6, <2>1
<1>10. Limited(d)
  <2> SUFFICES ASSUME NEW m \in 1..Len(d), NEW n \in 1..Len(d), n - m >= Rate PROVE d[n] - d[m] >= Window
    BY <1>5 DEF Limited
  <2>1. m <= n
    BY <1>4, <1>5
  <2>2. CASE n <= Len(b)
    <3>1. m \in DOMAIN b /\ n \in DOMAIN b /\ d[m] = b[m] /\ d[n] = b[n]
      BY <1>4, <1>5, <2>1, <2>2
    <3> QED
      BY <3>1 DEF Limited
  <2>3. CASE ~(n <= Len(b))
    <3>1. n = Len(b) + 1
      BY <1>4, <1>5, <2>3
    <3>2. m \in 1..(Len(b) - Len(r)) /\ m \in 1..Len(b)
      BY <1>4, <1>5, <1>6, <3>1
    <3>3. d[n] = now /\ d[m] = b[m] /\ now - b[m] >= Window
      BY <1>4, <1>6, <3>1, <3>2
    <3> QED
      BY <3>3
  <2> QED
    BY <2>2, <2>3
<1>11. Len(s) <= Rate /\ Len(s) <= Len(d)
  BY <1>3, <1>4, <1>5, <1>6
<1> QED
  BY <1>1, <1>2, <1>3, <1>4, <1>7, <1>8, <1>9, <1>10, <1>11 DEF DequeOK

RateInv == TypeOK /\ RateOK /\ RollingLimit

LEMMA RateBegin ==
  ASSUME RateInv, Begin, thread[Loop].analyst \in Analyst
  PROVE  /\ RateOK' /\ RollingLimit'
         /\ stamps' \in [Analyst -> Seq(0..MaxTime)] /\ \A a \in Analyst : Len(stamps'[a]) <= Rate
<1>1. PICK a \in Analyst : a = thread[Loop].analyst
  OBVIOUS
<1>2. /\ stamps \in [Analyst -> Seq(0..MaxTime)] /\ \A c \in Analyst : Len(stamps[c]) <= Rate
      /\ begun \in [Analyst -> Seq(0..MaxTime)] /\ clock' = clock /\ clock \in 0..MaxTime
  BY DEF RateInv, TypeOK, RateOK, Begin
<1>3. PICK b \in Seq(0..MaxTime) : b = begun[a]
  BY <1>2
<1>4. PICK s \in Seq(0..MaxTime) : s = stamps[a]
  BY <1>2
<1>5. PICK now \in 0..MaxTime : now = clock
  BY <1>2
<1>6. PICK r : r = Recent(s, now)
  OBVIOUS
<1>7. DequeOK(b, s, now) /\ Limited(b)
  BY <1>3, <1>4, <1>5 DEF RateInv, RateOK, RollingLimit, Limited
<1>8. DequeOK(b, r, now) /\ r \in Seq(0..MaxTime) /\ Len(r) <= Len(s)
  BY <1>6, <1>7, RateKept
<1>9. Len(r) <= Rate
  BY <1>2, <1>4, <1>8, Times, Bounds
<1>10. CASE /\ stamps' = IF a \in slots THEN stamps ELSE [stamps EXCEPT ![a] = r]
            /\ UNCHANGED begun
  <2>1. \A c \in Analyst : stamps'[c] = stamps[c] \/ (c = a /\ stamps'[c] = r)
    BY <1>2, <1>10
  <2>2. RateOK'
    BY <1>2, <1>3, <1>5, <1>8, <1>10, <2>1 DEF RateInv, RateOK
  <2>3. stamps' \in [Analyst -> Seq(0..MaxTime)] /\ \A c \in Analyst : Len(stamps'[c]) <= Rate
    BY <1>2, <1>8, <1>9, <1>10, <2>1
  <2> QED
    BY <1>10, <2>2, <2>3 DEF RateInv, RollingLimit
<1>11. CASE /\ Len(r) < Rate /\ stamps' = [stamps EXCEPT ![a] = Append(r, now)]
            /\ begun' = [begun EXCEPT ![a] = Append(b, now)]
  <2>1. /\ Append(r, now) \in Seq(0..MaxTime) /\ Append(b, now) \in Seq(0..MaxTime)
        /\ Len(Append(r, now)) <= Rate
        /\ DequeOK(Append(b, now), Append(r, now), now) /\ Limited(Append(b, now))
    BY <1>7, <1>8, <1>11, RateAdmits
  <2>2. \A c \in Analyst : /\ stamps'[c] = IF c = a THEN Append(r, now) ELSE stamps[c]
                           /\ begun'[c] = IF c = a THEN Append(b, now) ELSE begun[c]
    BY <1>2, <1>11
  <2>3. stamps' \in [Analyst -> Seq(0..MaxTime)] /\ begun' \in [Analyst -> Seq(0..MaxTime)]
    BY <1>2, <1>11, <2>1
  <2>4. \A c \in Analyst : Len(stamps'[c]) <= Rate
    BY <1>2, <2>1, <2>2
  <2>5. \A c \in Analyst : DequeOK(begun'[c], stamps'[c], clock')
    BY <1>2, <1>5, <2>1, <2>2 DEF RateInv, RateOK
  <2>6. \A c \in Analyst : Limited(begun'[c])
    BY <2>1, <2>2 DEF RateInv, RollingLimit, Limited
  <2>7. RateOK'
    BY <2>3, <2>5 DEF RateOK, DequeOK
  <2>8. RollingLimit'
    BY <2>6 DEF RollingLimit, Limited
  <2> QED
    BY <2>3, <2>4, <2>7, <2>8
<1> QED
  BY <1>1, <1>3, <1>4, <1>5, <1>6, <1>10, <1>11 DEF Begin

LEMMA RateTick ==
  ASSUME RateInv, clock' \in 0..MaxTime, clock <= clock', UNCHANGED <<stamps, begun>>
  PROVE  RateOK' /\ RollingLimit'
<1>1. ASSUME NEW a \in Analyst PROVE DequeOK(begun[a], stamps[a], clock')
  <2>1. DequeOK(begun[a], stamps[a], clock) /\ begun[a] \in Seq(0..MaxTime) /\ stamps[a] \in Seq(0..MaxTime)
    BY DEF RateInv, RateOK, TypeOK
  <2>2. PICK b \in Seq(0..MaxTime) : b = begun[a]
    BY <2>1
  <2>3. PICK s \in Seq(0..MaxTime) : s = stamps[a]
    BY <2>1
  <2>4. Len(b) \in Nat /\ \A i \in 1..Len(b) : b[i] \in Int
    BY Times
  <2>5. Len(s) \in Nat /\ clock \in Int /\ clock' \in Int /\ Window \in Nat
    BY Bounds, Times DEF RateInv, TypeOK
  <2>6. /\ Len(s) <= Len(b) /\ \A i \in 1..Len(b) : b[i] <= clock
        /\ \A i \in 1..Len(s) : s[i] = b[Len(b) - Len(s) + i]
        /\ \A i \in 1..(Len(b) - Len(s)) : clock - b[i] >= Window
    BY <2>1, <2>2, <2>3 DEF DequeOK
  <2>7. \A i \in 1..Len(b) : b[i] <= clock'
    BY <2>4, <2>5, <2>6
  <2>8. \A i \in 1..(Len(b) - Len(s)) : clock' - b[i] >= Window
    <3> SUFFICES ASSUME NEW i \in 1..(Len(b) - Len(s)) PROVE clock' - b[i] >= Window
      OBVIOUS
    <3>1. i \in 1..Len(b) /\ b[i] \in Int /\ clock - b[i] >= Window
      BY <2>4, <2>5, <2>6
    <3> QED
      BY <2>5, <3>1
  <2> QED
    BY <2>2, <2>3, <2>6, <2>7, <2>8 DEF DequeOK
<1>2. RateOK'
  BY <1>1 DEF RateInv, RateOK, DequeOK
<1> QED
  BY <1>2 DEF RateInv, RollingLimit

-----------------------------------------------------------------------------
(* What one thread does to the cache, seen by the others.                    *)

\* Records keep their time, a dict gains only what the loop is storing, and a name
\* given anew is that of a new dict.
Frame ==
  /\ DOMAIN record \subseteq DOMAIN record'
  /\ \A i \in DOMAIN record : record'[i].created = record[i].created
  /\ DOMAIN dicts \subseteq DOMAIN dicts'
  /\ named' \in {named, 0} \/ (named' \notin DOMAIN dicts /\ named' \in DOMAIN dicts')
  /\ \A i : (At(Loop, "store") => i # thread[Loop].id) =>
       \A d \in DOMAIN dicts' : i \in dicts'[d] => d \in DOMAIN dicts /\ i \in dicts[d]
  /\ At(Loop, "store")' => \/ thread'[Loop].id \notin DOMAIN record
                           \/ At(Loop, "store") /\ thread'[Loop].id = thread[Loop].id

LEMMA LooksStays ==
  ASSUME TypeOK, NEW h \in Handler, LooksOK(h), Frame, h.pc \in Purging => h.dict \in DOMAIN dicts
  PROVE  LooksOK(h)'
<1>1. h.id \in DOMAIN record /\ h.id \in DOMAIN record' /\ record'[h.id].created = record[h.id].created
  BY DEF LooksOK, Frame
<1>2. Stale(h)' <=> Stale(h)
  BY <1>1 DEF Stale
<1>3. h.pc # "idle" => \A d \in DOMAIN dicts' : h.id \in dicts'[d] => d \in DOMAIN dicts /\ h.id \in dicts[d]
  BY DEF LooksOK, Frame
<1>4. h.pc # "idle" /\ Cached(h.id)' => Cached(h.id)
  <2> SUFFICES ASSUME h.pc # "idle", named' # 0, h.id \in dicts'[named'] PROVE Cached(h.id)
    BY DEF Cached
  <2>1. named \in DOMAIN dicts \cup {0}
    BY LenProperties DEF TypeOK
  <2>2. named' \in DOMAIN dicts'
    BY <2>1 DEF Frame
  <2>3. named' \in DOMAIN dicts /\ h.id \in dicts[named']
    BY <1>3, <2>2
  <2> QED
    BY <2>3 DEF Cached, Frame
<1>5. h.pc # "idle" /\ At(Loop, "store")' => h.id # thread'[Loop].id
  BY <1>1 DEF LooksOK, Frame
<1>6. h.pc \in Purging => h.dict \in DOMAIN dicts /\ h.dict \in DOMAIN dicts' /\ h.pc # "idle"
  BY DEF Frame, Purging
<1>7. h.pc \in Purging => \A d \in DOMAIN dicts' : d > h.dict => h.id \notin dicts'[d]
  BY <1>3, <1>6 DEF LooksOK
<1>8. h.pc = "delete" /\ Stale(h) /\ h.id \in dicts'[h.dict] => h.id \in h.todo
  BY <1>3, <1>6 DEF LooksOK, Purging
<1>9. h.pc \in {"drop", "forget"} /\ Stale(h) => h.id \notin dicts'[h.dict]
  BY <1>3, <1>6 DEF LooksOK, Purging
<1>10. /\ h.pc = "lookup" /\ Stale(h) => ~Cached(h.id)
       /\ h.pc = "idle" /\ h.answer = "200" => ~Stale(h)
       /\ h.answer # "none" => h.pc = "idle"
  BY DEF LooksOK
<1>11. h.pc = "lookup" /\ Stale(h) => ~(Cached(h.id)')
  BY <1>4, <1>10
<1> QED
  BY <1>1, <1>2, <1>5, <1>7, <1>8, <1>9, <1>10, <1>11 DEF LooksOK, Stale, At, Cached

\* A step of t, which goes on as h.
LEMMA CacheStep ==
  ASSUME AIInv, NEW t \in Thread, NEW h, Move(t, h), Frame, CacheOK', HandlerOK(t, h)',
         Reads(h) => LooksOK(h)',
         t # Loop => /\ Len(record') = Len(record)
                     /\ \A d \in DOMAIN dicts' : d \in DOMAIN dicts /\ dicts'[d] \subseteq dicts[d]
  PROVE  ThreadsOK' /\ ReadersOK'
<1>1. TypeOK /\ ThreadsOK /\ ReadersOK
  BY DEF AIInv
<1>2. thread'[t] = h /\ \A u \in Thread \ {t} : thread'[u] = thread[u] /\ thread[u] \in Handler
  BY <1>1, Moves DEF TypeOK
<1>3. ASSUME NEW u \in Thread, u # t PROVE HandlerOK(u, thread[u])'
  <2>1. PICK g \in Handler : g = thread[u]
    BY <1>2, <1>3
  <2>2. HandlerOK(u, g)
    BY <1>1, <2>1 DEF ThreadsOK
  <2>3. DOMAIN dicts \subseteq DOMAIN dicts' /\ u \in Workers \cup {Loop}
    BY DEF Frame, Thread
  <2>4. CASE u = Loop
    <3>1. Len(record') = Len(record) /\ \A d \in DOMAIN dicts' : d \in DOMAIN dicts /\ dicts'[d] \subseteq dicts[d]
      BY <1>3, <2>4
    <3>2. HandlerOK(u, g)'
      BY <2>2, <2>3, <3>1 DEF HandlerOK
    <3> QED
      BY <1>2, <1>3, <2>1, <3>2 DEF HandlerOK
  <2>5. CASE u \in Workers
    <3>1. g.op # "ask" /\ g.pc \notin {"begin", "complete", "setdefault", "store"}
      BY <2>2, <2>5 DEF HandlerOK
    <3>2. HandlerOK(u, g)'
      BY <2>2, <2>3, <3>1 DEF HandlerOK
    <3> QED
      BY <1>2, <1>3, <2>1, <3>2 DEF HandlerOK
  <2> QED
    BY <2>3, <2>4, <2>5
<1>4. HandlerOK(t, thread[t])'
  BY <1>2 DEF HandlerOK
<1>5. ThreadsOK'
  <2>1. \A u \in Thread : HandlerOK(u, thread[u])'
    BY <1>3, <1>4
  <2> QED
    BY <2>1 DEF ThreadsOK, HandlerOK
<1>6. ReadersOK'
  <2> SUFFICES ASSUME NEW u \in Thread, Reads(thread'[u]) PROVE LooksOK(thread[u])'
    BY DEF ReadersOK, Reads
  <2>1. CASE u = t
    <3>1. LooksOK(h)'
      BY <1>2, <2>1
    <3> QED
      BY <1>2, <2>1, <3>1 DEF LooksOK, Stale
  <2>2. CASE u # t
    <3>1. PICK g \in Handler : g = thread[u]
      BY <1>2, <2>2
    <3>2. LooksOK(g) /\ (g.pc \in Purging => g.dict \in DOMAIN dicts)
      BY <1>1, <1>2, <2>2, <3>1 DEF ReadersOK, ThreadsOK, HandlerOK
    <3>3. LooksOK(g)'
      BY <1>1, <3>2, LooksStays
    <3> QED
      BY <1>2, <2>2, <3>1, <3>3 DEF LooksOK, Stale
  <2> QED
    BY <2>1, <2>2
<1> QED
  BY <1>5, <1>6

\* A step that leaves the cache alone.
LEMMA QuietStep ==
  ASSUME AIInv, NEW t \in Thread, NEW h, Move(t, h), UNCHANGED cache, h.pc # "store",
         HandlerOK(t, h), Reads(h) => LooksOK(h)'
  PROVE  ThreadsOK' /\ ReadersOK'
<1>1. UNCHANGED <<dicts, named, record>> /\ TypeOK
  BY DEF cache, AIInv
<1>2. Frame
  <2>1. At(Loop, "store")' => At(Loop, "store") /\ thread'[Loop].id = thread[Loop].id
    BY <1>1, Moves, Bounds DEF At
  <2> QED
    BY <1>1, <2>1 DEF Frame
<1>3. CacheOK' /\ HandlerOK(t, h)'
  BY <1>1 DEF AIInv, ThreadsOK, CacheOK, HandlerOK
<1>4. \A d \in DOMAIN dicts' : d \in DOMAIN dicts /\ dicts'[d] \subseteq dicts[d]
  BY <1>1
<1> QED
  BY <1>1, <1>2, <1>3, <1>4, CacheStep

\* t goes on with the same request.
Same(t, h) == /\ Move(t, h) /\ h.op = thread[t].op /\ h.id = thread[t].id
              /\ h.analyst = thread[t].analyst /\ h.now = thread[t].now

\* What LooksOK says of the cache.
Finds(h) ==
  /\ h.pc \in Purging => \A d \in DOMAIN dicts : d > h.dict => h.id \notin dicts[d]
  /\ h.pc = "delete" /\ Stale(h) /\ h.id \in dicts[h.dict] => h.id \in h.todo
  /\ h.pc \in {"drop", "forget"} /\ Stale(h) => h.id \notin dicts[h.dict]
  /\ h.pc = "lookup" /\ Stale(h) => ~Cached(h.id)
  /\ h.pc = "idle" /\ h.answer = "200" => ~Stale(h)
  /\ h.answer # "none" => h.pc = "idle"

LEMMA LooksParts ==
  ASSUME NEW h PROVE LooksOK(h) <=> /\ h.id \in DOMAIN record
                                    /\ h.pc # "idle" /\ At(Loop, "store") => h.id # thread[Loop].id
                                    /\ Finds(h)
BY DEF LooksOK, Finds

\* The request of a handler at work is known, and not the one being stored.
LEMMA SameLooks ==
  ASSUME AIInv, NEW t \in Thread, NEW h, Same(t, h), h.pc # "store", thread[t].pc # "idle", Reads(h),
         DOMAIN record' = DOMAIN record, Finds(h)'
  PROVE  LooksOK(h)'
<1>1. TypeOK /\ LooksOK(thread[t])
  BY DEF AIInv, ReadersOK, Reads, Same
<1>2. h.id \in DOMAIN record /\ (At(Loop, "store") => h.id # thread[Loop].id)
  BY <1>1 DEF LooksOK, Same
<1>3. At(Loop, "store")' => At(Loop, "store") /\ thread'[Loop] = thread[Loop]
  <2>1. thread'[t] = h /\ \A u \in Thread \ {t} : thread'[u] = thread[u]
    BY <1>1, Moves DEF Same
  <2> QED
    BY <2>1, Bounds DEF At
<1> QED
  BY <1>2, <1>3 DEF LooksOK, Finds, At, Stale, Cached

LEMMA QuietGo ==
  ASSUME AIInv, NEW t \in Thread, NEW h, Same(t, h), UNCHANGED cache, h.pc # "store", thread[t].pc # "idle",
         HandlerOK(t, h), Reads(h) => Finds(h)
  PROVE  ThreadsOK' /\ ReadersOK'
<1>1. UNCHANGED <<dicts, named, record>> /\ Move(t, h)
  BY DEF cache, Same
<1>2. Reads(h) => Finds(h)'
  BY <1>1 DEF Finds, Stale, Cached
<1>3. Reads(h) => LooksOK(h)'
  BY <1>1, <1>2, SameLooks
<1> QED
  BY <1>1, <1>3, QuietStep

Step == TypeOK' /\ ThreadsOK' /\ RateOK' /\ RollingLimit' /\ SlotHeldOnlyInFlight' /\ ReadersOK'

\* A step outside the provider call touches no limit.
LEMMA FreeStep ==
  ASSUME AIInv, NEW t \in Thread, NEW h, Move(t, h), UNCHANGED <<clock, limits>>,
         dicts' \in Seq(SUBSET Id), named' \in 0..Len(dicts'),
         record' \in Seq([created : 0..MaxTime, approved : BOOLEAN]),
         thread[t].pc # "complete", h.pc # "complete", ThreadsOK', ReadersOK'
  PROVE  Step
<1>1. TypeOK /\ RateInv /\ SlotHeldOnlyInFlight
  BY DEF AIInv, RateInv
<1>2. clock' = clock /\ UNCHANGED <<stamps, slots, spent, begun>> /\ clock \in 0..MaxTime /\ clock \in Int
  BY <1>1, Bounds DEF limits, TypeOK
<1>3. thread'[t] = h /\ thread' \in [Thread -> Handler] /\ \A u \in Thread \ {t} : thread'[u] = thread[u]
  BY <1>1, Moves
<1>4. TypeOK'
  BY <1>1, <1>2, <1>3 DEF TypeOK
<1>5. RateOK' /\ RollingLimit'
  <2>1. clock' \in 0..MaxTime /\ clock <= clock' /\ UNCHANGED <<stamps, begun>>
    BY <1>2
  <2> QED
    BY <1>1, <2>1, RateTick
<1>6. SlotHeldOnlyInFlight'
  BY <1>1, <1>2, <1>3, Bounds DEF SlotHeldOnlyInFlight, At
<1> QED
  BY <1>4, <1>5, <1>6 DEF Step

LEMMA FreeQuiet ==
  ASSUME AIInv, NEW t \in Thread, NEW h, Same(t, h), UNCHANGED <<clock, cache, limits>>,
         h.pc \notin {"store", "complete"}, thread[t].pc \notin {"idle", "complete"},
         HandlerOK(t, h), Reads(h) => Finds(h)
  PROVE  Step
<1>1. Move(t, h) /\ UNCHANGED <<clock, limits>> /\ UNCHANGED cache /\ UNCHANGED <<dicts, named, record>>
  BY DEF Same, cache
<1>2. ThreadsOK' /\ ReadersOK'
  BY <1>1, QuietGo
<1>3. /\ dicts' \in Seq(SUBSET Id) /\ named' \in 0..Len(dicts')
      /\ record' \in Seq([created : 0..MaxTime, approved : BOOLEAN])
  BY <1>1 DEF AIInv, TypeOK
<1> QED
  BY <1>1, <1>2, <1>3, FreeStep

-----------------------------------------------------------------------------
(* The actions.                                                             *)

LEMMA StartStep ==
  ASSUME AIInv, NEW t \in Thread, NEW g \in Handler, Start(t, g), g.answer = "none", t \in Workers => g.op # "ask",
         \/ g.op = "ask" /\ g.analyst \in Analyst /\ Len(record) < MaxAsks
         \/ g.op \in {"get", "approve"} /\ g.id \in Told
  PROVE  Step
<1>1. PICK h : h = [g EXCEPT !.pc = "purge", !.now = clock]
  OBVIOUS
<1>2. TypeOK /\ clock \in 0..MaxTime /\ UNCHANGED <<clock, limits>> /\ UNCHANGED <<dicts, named, record>>
  BY DEF AIInv, TypeOK, Start, cache
<1>3. /\ h \in Handler /\ h.pc = "purge" /\ h.op = g.op /\ h.analyst = g.analyst /\ h.id = g.id
      /\ h.answer = "none"
  BY <1>1, <1>2 DEF Handler
<1>4. Move(t, h) /\ thread[t].pc = "idle"
  BY <1>1, <1>3 DEF Move, Start, At
<1>5. thread'[t] = h /\ \A u \in Thread \ {t} : thread'[u] = thread[u]
  BY <1>2, <1>4, Moves
<1>6. HandlerOK(t, h)
  BY <1>3 DEF HandlerOK, Asking, Purging
<1>7. Reads(h) => LooksOK(h)'
  <2> SUFFICES ASSUME Reads(h) PROVE LooksOK(h)'
    OBVIOUS
  <2>1. h.id \in DOMAIN record /\ ~(At(Loop, "store") /\ thread[Loop].id = h.id)
    BY <1>3 DEF Told, Reads
  <2>2. At(Loop, "store")' => h.id # thread'[Loop].id
    BY <1>3, <1>5, <2>1, Bounds DEF At
  <2> QED
    BY <1>2, <1>3, <2>1, <2>2 DEF LooksOK, Purging, At
<1>8. ThreadsOK' /\ ReadersOK'
  BY <1>2, <1>3, <1>4, <1>6, <1>7, QuietStep DEF cache
<1>9. /\ dicts' \in Seq(SUBSET Id) /\ named' \in 0..Len(dicts')
      /\ record' \in Seq([created : 0..MaxTime, approved : BOOLEAN])
  BY <1>2 DEF TypeOK
<1> QED
  BY <1>2, <1>3, <1>4, <1>8, <1>9, FreeStep

\* Where a handler is, read from the invariant.
LEMMA AtWork ==
  ASSUME AIInv, NEW t \in Thread
  PROVE  /\ thread[t] \in Handler /\ HandlerOK(t, thread[t]) /\ CacheOK
         /\ Reads(thread[t]) => LooksOK(thread[t]) /\ Finds(thread[t])
         /\ thread[t].pc # "idle" => Reads(thread[t]) \/ (thread[t].op = "ask" /\ ~Reads(thread[t]))
BY DEF AIInv, TypeOK, ThreadsOK, ReadersOK, HandlerOK, Handler, Reads, LooksOK, Finds

\* An answer other than 200 promises nothing.
LEMMA FailStep ==
  ASSUME AIInv, NEW t \in Thread, NEW code \in Codes \ {"200", "none"}, Answer(t, code),
         UNCHANGED <<clock, cache, limits>>, thread[t].pc \notin {"idle", "complete"}
  PROVE  Step
<1>1. TypeOK /\ HandlerOK(t, thread[t])
  BY AtWork DEF AIInv
<1>2. PICK h \in Handler : /\ Move(t, h) /\ h.pc = "idle" /\ h.answer = code
                           /\ h.op = thread[t].op /\ h.analyst = thread[t].analyst /\ h.id = thread[t].id
                           /\ h.now = thread[t].now
  BY <1>1, AnswerMove
<1>3. HandlerOK(t, h)
  BY <1>1, <1>2 DEF HandlerOK, Asking, Purging
<1>4. Finds(h) /\ Same(t, h)
  BY <1>2 DEF Finds, Purging, Same
<1> QED
  BY <1>2, <1>3, <1>4, FreeQuiet

\* After the purge: an ask goes to the limits, a reader to the cache.
LEMMA AfterStep ==
  ASSUME AIInv, NEW t \in Thread, NEW h, Same(t, h), h.pc = AfterPurge(t), h.answer = thread[t].answer,
         thread[t].pc \in {"purge", "drop", "forget"}
  PROVE  /\ h.pc \in {"begin", "lookup"} /\ HandlerOK(t, h) /\ h \in Handler
         /\ Reads(h) /\ h.pc = "lookup" /\ (Stale(h) => ~Cached(h.id)) => Finds(h)
<1>1. HandlerOK(t, thread[t]) /\ (Reads(thread[t]) => LooksOK(thread[t])) /\ thread[t] \in Handler
  BY AtWork
<1>2. h.pc \in {"begin", "lookup"} /\ (h.pc = "begin" <=> thread[t].op = "ask") /\ h.op = thread[t].op
  BY DEF AfterPurge, Same
<1>3. HandlerOK(t, h)
  BY <1>1, <1>2 DEF HandlerOK, Asking, Purging, Same
<1>4. Reads(h) => h.pc = "lookup"
  BY <1>2 DEF Reads
<1>5. Reads(h) => h.answer = "none"
  BY <1>1, <1>2 DEF LooksOK, Reads
<1>6. ASSUME Reads(h), h.pc = "lookup" /\ (Stale(h) => ~Cached(h.id)) PROVE Finds(h)
  BY <1>5, <1>6 DEF Finds, Purging
<1> QED
  BY <1>2, <1>3, <1>4, <1>6 DEF Same, Move

LEMMA PurgeTenantsStep ==
  ASSUME AIInv, NEW t \in Thread, PurgeTenants(t)
  PROVE  Step
<1>1. /\ TypeOK /\ thread[t].pc = "purge" /\ UNCHANGED <<clock, cache, limits>>
      /\ AfterPurge(t) \in Pcs
  BY DEF AIInv, PurgeTenants, At, AfterPurge, Pcs
<1>2. CASE named = 0 /\ Goto(t, AfterPurge(t))
  <2>1. PICK w \in Pcs : w = AfterPurge(t)
    BY <1>1
  <2>2. PICK h \in Handler : Same(t, h) /\ h.pc = w /\ h.answer = thread[t].answer
    BY <1>1, <1>2, <2>1, GotoMove DEF Same
  <2>3. /\ h.pc \in {"begin", "lookup"} /\ HandlerOK(t, h)
        /\ Reads(h) /\ h.pc = "lookup" /\ (Stale(h) => ~Cached(h.id)) => Finds(h)
    BY <1>1, <2>1, <2>2, AfterStep
  <2>4. Reads(h) => h.pc = "lookup"
    BY <2>1, <2>2 DEF Reads, AfterPurge, Same
  <2>5. ~Cached(h.id)
    BY <1>2 DEF Cached
  <2> QED
    BY <1>1, <2>2, <2>3, <2>4, <2>5, FreeQuiet
<1>3. CASE named # 0 /\ thread' = [thread EXCEPT ![t].pc = "list", ![t].dict = named]
  <2>1. thread[t] \in Handler /\ HandlerOK(t, thread[t]) /\ CacheOK /\ (Reads(thread[t]) => LooksOK(thread[t]))
    BY AtWork
  <2>2. Len(dicts) \in Nat /\ DOMAIN dicts = 1..Len(dicts)
    BY <1>1, LenProperties DEF TypeOK
  <2>3. named = Len(dicts) /\ named \in DOMAIN dicts /\ named \in Nat
    BY <1>3, <2>1, <2>2 DEF CacheOK
  <2>4. PICK h : h = [thread[t] EXCEPT !.pc = "list", !.dict = named]
    OBVIOUS
  <2>5. /\ h \in Handler /\ h.pc = "list" /\ h.dict = named /\ h.op = thread[t].op /\ h.id = thread[t].id
        /\ h.analyst = thread[t].analyst /\ h.now = thread[t].now /\ h.answer = thread[t].answer
    BY <2>1, <2>3, <2>4 DEF Handler
  <2>6. Same(t, h)
    BY <1>1, <1>3, <2>4, <2>5 DEF Same, Move, TypeOK
  <2>7. HandlerOK(t, h)
    BY <1>1, <2>1, <2>3, <2>5 DEF HandlerOK, Asking, Purging
  <2>8. Reads(h) => Finds(h)
    <3>1. Reads(h) => h.answer = "none"
      BY <1>1, <2>1, <2>5 DEF LooksOK, Reads
    <3>2. \A d \in DOMAIN dicts : ~(d > h.dict)
      BY <2>2, <2>3, <2>5
    <3> QED
      BY <2>5, <3>1, <3>2 DEF Finds
  <2> QED
    BY <1>1, <2>5, <2>6, <2>7, <2>8, FreeQuiet
<1> QED
  BY <1>2, <1>3 DEF PurgeTenants

LEMMA PurgeRecordsStep ==
  ASSUME AIInv, NEW t \in Thread, PurgeRecords(t)
  PROVE  Step
<1>1. TypeOK /\ thread[t].pc = "list" /\ UNCHANGED <<clock, cache, limits>>
  BY DEF AIInv, PurgeRecords, At
<1>2. /\ thread[t] \in Handler /\ HandlerOK(t, thread[t]) /\ (Reads(thread[t]) => LooksOK(thread[t]))
      /\ thread[t].dict \in DOMAIN dicts
  BY <1>1, AtWork DEF HandlerOK, Purging
<1>3. PICK old : old = {i \in dicts[thread[t].dict] : Expired(thread[t].now, record[i].created)}
  OBVIOUS
<1>4. old \subseteq Id
  <2>1. dicts[thread[t].dict] \in SUBSET Id
    BY <1>1, <1>2, ElementOfSeq, LenProperties DEF TypeOK
  <2> QED
    BY <1>3, <2>1
<1>5. PICK h : h = [thread[t] EXCEPT !.pc = "delete", !.todo = old]
  OBVIOUS
<1>6. /\ h \in Handler /\ h.pc = "delete" /\ h.todo = old /\ h.dict = thread[t].dict /\ h.op = thread[t].op
      /\ h.id = thread[t].id /\ h.analyst = thread[t].analyst /\ h.now = thread[t].now
      /\ h.answer = thread[t].answer
  BY <1>2, <1>4, <1>5 DEF Handler
<1>7. thread' = [thread EXCEPT ![t] = h]
  BY <1>1, <1>3, <1>5 DEF PurgeRecords, TypeOK
<1>8. Same(t, h)
  BY <1>6, <1>7 DEF Same, Move
<1>9. HandlerOK(t, h)
  BY <1>1, <1>2, <1>6 DEF HandlerOK, Asking, Purging
<1>10. Reads(h) => Finds(h)
  <2> SUFFICES ASSUME Reads(h) PROVE Finds(h)
    OBVIOUS
  <2>1. LooksOK(thread[t]) /\ h.answer = "none"
    BY <1>1, <1>2, <1>6 DEF LooksOK, Reads
  <2>2. \A d \in DOMAIN dicts : d > h.dict => h.id \notin dicts[d]
    BY <1>1, <1>6, <2>1 DEF LooksOK, Purging
  <2>3. Stale(h) /\ h.id \in dicts[h.dict] => h.id \in h.todo
    BY <1>3, <1>6 DEF Stale, Expired
  <2> QED
    BY <1>6, <2>1, <2>2, <2>3 DEF Finds
<1> QED
  BY <1>1, <1>6, <1>8, <1>9, <1>10, FreeQuiet

LEMMA PurgeDeleteStep ==
  ASSUME AIInv, NEW t \in Thread, PurgeDelete(t)
  PROVE  Step
<1>1. TypeOK /\ thread[t].pc = "delete" /\ UNCHANGED <<clock, named, record, limits>>
  BY DEF AIInv, PurgeDelete, At
<1>2. /\ thread[t] \in Handler /\ HandlerOK(t, thread[t]) /\ CacheOK /\ (Reads(thread[t]) => LooksOK(thread[t]))
      /\ thread[t].dict \in DOMAIN dicts
  BY <1>1, AtWork DEF HandlerOK, Purging
<1>3. CASE thread[t].todo = {} /\ Goto(t, "drop") /\ UNCHANGED dicts
  <2>1. PICK h \in Handler : /\ Same(t, h) /\ h.pc = "drop" /\ h.answer = thread[t].answer
                             /\ h.dict = thread[t].dict /\ h.op = thread[t].op /\ h.id = thread[t].id
                             /\ h.now = thread[t].now /\ h.analyst = thread[t].analyst
    BY <1>1, <1>3, GotoMove DEF Same, Pcs
  <2>2. HandlerOK(t, h)
    BY <1>1, <1>2, <2>1 DEF HandlerOK, Asking, Purging
  <2>3. Reads(h) => Finds(h)
    <3> SUFFICES ASSUME Reads(h) PROVE Finds(h)
      OBVIOUS
    <3>1. LooksOK(thread[t]) /\ h.answer = "none"
      BY <1>1, <1>2, <2>1 DEF LooksOK, Reads
    <3>2. \A d \in DOMAIN dicts : d > h.dict => h.id \notin dicts[d]
      BY <1>1, <2>1, <3>1 DEF LooksOK, Purging
    <3>3. Stale(h) => h.id \notin dicts[h.dict]
      BY <1>1, <1>3, <2>1, <3>1 DEF LooksOK, Stale
    <3> QED
      BY <2>1, <3>1, <3>2, <3>3 DEF Finds
  <2> QED
    BY <1>1, <1>3, <2>1, <2>2, <2>3, FreeQuiet DEF cache
<1>4. CASE Answer(t, "500") /\ UNCHANGED dicts
  BY <1>1, <1>4, FailStep DEF cache, Codes
<1>5. ASSUME NEW i \in thread[t].todo, i \in dicts[thread[t].dict],
             dicts' = [dicts EXCEPT ![thread[t].dict] = @ \ {i}],
             thread' = [thread EXCEPT ![t].todo = @ \ {i}]
      PROVE  Step
  <2>1. PICK h : h = [thread[t] EXCEPT !.todo = @ \ {i}]
    OBVIOUS
  <2>2. /\ h \in Handler /\ h.pc = "delete" /\ h.todo = thread[t].todo \ {i} /\ h.dict = thread[t].dict
        /\ h.op = thread[t].op /\ h.id = thread[t].id /\ h.analyst = thread[t].analyst
        /\ h.now = thread[t].now /\ h.answer = thread[t].answer
    BY <1>1, <1>2, <2>1 DEF Handler
  <2>3. thread' = [thread EXCEPT ![t] = h]
    BY <1>1, <1>5, <2>1 DEF TypeOK
  <2>4. Same(t, h) /\ Move(t, h)
    BY <2>2, <2>3 DEF Same, Move
  <2>5. PICK k \in DOMAIN dicts : k = thread[t].dict
    BY <1>2
  <2>6. dicts[k] \in SUBSET Id
    BY <1>1, ElementOfSeq, LenProperties DEF TypeOK
  <2>7. dicts' \in Seq(SUBSET Id) /\ Len(dicts') = Len(dicts) /\ DOMAIN dicts' = DOMAIN dicts
    <3>1. dicts \in Seq(SUBSET Id) /\ dicts[k] \ {i} \in SUBSET Id /\ dicts' = [dicts EXCEPT ![k] = dicts[k] \ {i}]
      BY <1>1, <1>5, <2>5, <2>6 DEF TypeOK
    <3> QED
      BY <3>1, SeqUpdate
  <2>8. \A d \in DOMAIN dicts : dicts'[d] = IF d = k THEN dicts[d] \ {i} ELSE dicts[d]
    BY <1>5, <2>5
  <2>9. CacheOK'
    BY <1>1, <1>2, <2>7, <2>8 DEF CacheOK
  <2>10. HandlerOK(t, h)'
    BY <1>1, <1>2, <2>2, <2>7 DEF HandlerOK, Asking, Purging
  <2>11. Reads(h) => LooksOK(h)'
    <3> SUFFICES ASSUME Reads(h) PROVE LooksOK(h)'
      OBVIOUS
    <3>1. LooksOK(thread[t]) /\ h.answer = "none"
      BY <1>1, <1>2, <2>2 DEF LooksOK, Reads
    <3>2. \A d \in DOMAIN dicts' : d > h.dict => h.id \notin dicts'[d]
      BY <1>1, <2>2, <2>7, <2>8, <3>1 DEF LooksOK, Purging
    <3>3. Stale(h) /\ h.id \in dicts'[h.dict] => h.id \in h.todo
      <4> SUFFICES ASSUME Stale(h), h.id \in dicts'[h.dict] PROVE h.id \in h.todo
        OBVIOUS
      <4>1. h.id \in dicts[h.dict] /\ h.id # i
        BY <2>2, <2>5, <2>8
      <4>2. Stale(thread[t])
        BY <2>2 DEF Stale
      <4> QED
        BY <1>1, <2>2, <3>1, <4>1, <4>2 DEF LooksOK
    <3>4. Finds(h)'
      BY <1>1, <2>2, <3>1, <3>2, <3>3 DEF Finds, Stale
    <3> QED
      BY <1>1, <2>2, <2>4, <3>4, SameLooks
  <2>12. \A d \in DOMAIN dicts' : d \in DOMAIN dicts /\ dicts'[d] \subseteq dicts[d]
    BY <2>7, <2>8
  <2>13. Frame
    <3>1. At(Loop, "store")' => At(Loop, "store") /\ thread'[Loop].id = thread[Loop].id
      BY <1>1, <2>2, <2>4, Moves, Bounds DEF At
    <3> QED
      BY <1>1, <2>7, <2>12, <3>1 DEF Frame
  <2>14. ThreadsOK' /\ ReadersOK'
    BY <1>1, <2>4, <2>9, <2>10, <2>11, <2>12, <2>13, CacheStep
  <2>15. named' \in 0..Len(dicts') /\ record' \in Seq([created : 0..MaxTime, approved : BOOLEAN])
    BY <1>1, <2>7 DEF TypeOK
  <2> QED
    BY <1>1, <2>2, <2>4, <2>7, <2>14, <2>15, FreeStep
<1> QED
  BY <1>3, <1>4, <1>5 DEF PurgeDelete

\* A thread that goes on, with a dict less named or with none: a reader still does
\* not find what had expired.
LEMMA PastPurge ==
  ASSUME AIInv, NEW t \in Thread, thread[t].pc \in {"drop", "forget"},
         UNCHANGED <<clock, dicts, record, limits>>, named' = named \/ named' = 0,
         Goto(t, AfterPurge(t))
  PROVE  Step
<1>1. /\ TypeOK /\ thread[t].pc \in {"drop", "forget"} /\ UNCHANGED <<clock, dicts, record, limits>>
      /\ AfterPurge(t) \in Pcs /\ Goto(t, AfterPurge(t)) /\ (named' = named \/ named' = 0)
  BY DEF AIInv, AfterPurge, Pcs
<1>2. /\ thread[t] \in Handler /\ HandlerOK(t, thread[t]) /\ CacheOK /\ (Reads(thread[t]) => LooksOK(thread[t]))
      /\ thread[t].dict \in DOMAIN dicts
  BY <1>1, AtWork DEF HandlerOK, Purging
<1>3. PICK w \in Pcs : w = AfterPurge(t)
  BY <1>1
<1>4. PICK h \in Handler : /\ Same(t, h) /\ h.pc = w /\ h.answer = thread[t].answer
                           /\ h.dict = thread[t].dict /\ h.op = thread[t].op /\ h.id = thread[t].id
                           /\ h.now = thread[t].now
  BY <1>1, <1>3, GotoMove DEF Same
<1>5. h.pc \in {"begin", "lookup"} /\ HandlerOK(t, h) /\ Move(t, h)
  BY <1>1, <1>3, <1>4, AfterStep DEF Same
<1>6. Reads(h) => Finds(h)'
  <2> SUFFICES ASSUME Reads(h) PROVE Finds(h)'
    OBVIOUS
  <2>1. h.pc = "lookup"
    BY <1>3, <1>4 DEF Reads, AfterPurge
  <2>2. LooksOK(thread[t]) /\ h.answer = "none"
    BY <1>1, <1>2, <1>4 DEF LooksOK, Reads
  <2>3. Stale(h) => ~Cached(h.id)
    <3> SUFFICES ASSUME Stale(h), named # 0, h.id \in dicts[named] PROVE FALSE
      BY DEF Cached
    <3>1. Len(dicts) \in Nat /\ DOMAIN dicts = 1..Len(dicts)
      BY <1>1, LenProperties DEF TypeOK
    <3>2. named = Len(dicts) /\ named \in DOMAIN dicts /\ h.dict \in 1..Len(dicts)
      <4>1. named = Len(dicts)
        BY <1>2 DEF CacheOK
      <4>2. h.dict \in 1..Len(dicts)
        BY <1>2, <1>4, <3>1
      <4> QED
        BY <3>1, <4>1, <4>2
    <3>3. h.id \notin dicts[h.dict]
      BY <1>1, <1>4, <2>2 DEF LooksOK, Stale
    <3>4. \A d \in DOMAIN dicts : d > h.dict => h.id \notin dicts[d]
      BY <1>1, <1>4, <2>2 DEF LooksOK, Purging
    <3>5. named = h.dict \/ named > h.dict
      BY <3>1, <3>2
    <3> QED
      BY <3>2, <3>3, <3>4, <3>5
  <2>4. Stale(h) => ~(Cached(h.id)')
    BY <1>1, <2>3 DEF Cached
  <2> QED
    BY <1>1, <2>1, <2>2, <2>4 DEF Finds, Stale, Cached, Purging
<1>7. Reads(h) => LooksOK(h)'
  BY <1>1, <1>4, <1>5, <1>6, SameLooks
<1>8. CacheOK' /\ HandlerOK(t, h)'
  BY <1>1, <1>2, <1>5 DEF CacheOK, HandlerOK
<1>9. Frame
  <2>1. At(Loop, "store")' => At(Loop, "store") /\ thread'[Loop].id = thread[Loop].id
    BY <1>1, <1>5, Moves, Bounds DEF At
  <2> QED
    BY <1>1, <2>1 DEF Frame
<1>10. ThreadsOK' /\ ReadersOK'
  <2>1. Len(record') = Len(record) /\ \A d \in DOMAIN dicts' : d \in DOMAIN dicts /\ dicts'[d] \subseteq dicts[d]
    BY <1>1
  <2> QED
    BY <1>5, <1>7, <1>8, <1>9, <2>1, CacheStep
<1>11. /\ dicts' \in Seq(SUBSET Id) /\ named' \in 0..Len(dicts')
      /\ record' \in Seq([created : 0..MaxTime, approved : BOOLEAN])
  <2>1. Len(dicts) \in Nat
    BY <1>1, LenProperties DEF TypeOK
  <2> QED
    BY <1>1, <2>1 DEF TypeOK
<1> QED
  BY <1>1, <1>5, <1>10, <1>11, FreeStep

LEMMA PurgeDropStep ==
  ASSUME AIInv, NEW t \in Thread, PurgeDrop(t)
  PROVE  Step
<1>1. TypeOK /\ thread[t].pc = "drop" /\ UNCHANGED <<clock, cache, limits>>
  BY DEF AIInv, PurgeDrop, At
<1>2. /\ HandlerOK(t, thread[t]) /\ CacheOK /\ (Reads(thread[t]) => LooksOK(thread[t]))
  BY <1>1, AtWork
<1>3. CASE Goto(t, AfterPurge(t))
  BY <1>1, <1>3, PastPurge DEF cache
<1>4. CASE Goto(t, "forget")
  <2>1. PICK h \in Handler : /\ Same(t, h) /\ h.pc = "forget" /\ h.answer = thread[t].answer
                             /\ h.dict = thread[t].dict /\ h.op = thread[t].op /\ h.id = thread[t].id
                             /\ h.now = thread[t].now
    BY <1>1, <1>4, GotoMove DEF Same, Pcs
  <2>2. HandlerOK(t, h)
    BY <1>1, <1>2, <2>1 DEF HandlerOK, Asking, Purging, Same
  <2>3. Reads(h) => Finds(h)
    BY <1>1, <1>2, <2>1 DEF Finds, LooksOK, Purging, Reads, Stale
  <2> QED
    BY <1>1, <2>1, <2>2, <2>3, FreeQuiet DEF Same
<1> QED
  BY <1>3, <1>4 DEF PurgeDrop

LEMMA PurgeForgetStep ==
  ASSUME AIInv, NEW t \in Thread, PurgeForget(t)
  PROVE  Step
<1>1. TypeOK /\ thread[t].pc = "forget" /\ UNCHANGED <<clock, dicts, record, limits>>
  BY DEF AIInv, PurgeForget, At
<1>2. CASE named' = 0 /\ Goto(t, AfterPurge(t))
  BY <1>1, <1>2, PastPurge
<1>3. CASE UNCHANGED named /\ Answer(t, "500")
  BY <1>1, <1>3, FailStep DEF cache, Codes
<1> QED
  BY <1>2, <1>3 DEF PurgeForget

LEMMA LookupStep ==
  ASSUME AIInv, NEW t \in Thread, Lookup(t)
  PROVE  Step
<1>1. TypeOK /\ thread[t].pc = "lookup" /\ UNCHANGED <<clock, dicts, named, limits>>
  BY DEF AIInv, Lookup, At
<1>2. /\ thread[t] \in Handler /\ HandlerOK(t, thread[t]) /\ CacheOK /\ Reads(thread[t]) /\ LooksOK(thread[t])
      /\ thread[t].id \in DOMAIN record
  BY <1>1, AtWork DEF HandlerOK, LooksOK
<1>3. /\ record' \in Seq([created : 0..MaxTime, approved : BOOLEAN]) /\ Len(record') = Len(record)
      /\ DOMAIN record' = DOMAIN record
      /\ \A i \in DOMAIN record : record'[i].created = record[i].created
  <2>1. PICK k \in DOMAIN record : k = thread[t].id
    BY <1>2
  <2>2. record \in Seq([created : 0..MaxTime, approved : BOOLEAN]) /\ record[k] \in [created : 0..MaxTime, approved : BOOLEAN]
    BY <1>1, ElementOfSeq, LenProperties DEF TypeOK
  <2>3. CASE record' = record
    BY <2>2, <2>3
  <2>4. CASE record' = [record EXCEPT ![k].approved = TRUE]
    <3>1. PICK v : v = [record[k] EXCEPT !.approved = TRUE]
      OBVIOUS
    <3>2. v \in [created : 0..MaxTime, approved : BOOLEAN] /\ v.created = record[k].created
      BY <2>2, <3>1
    <3>3. record' = [record EXCEPT ![k] = v]
      BY <2>4, <3>1
    <3>4. /\ [record EXCEPT ![k] = v] \in Seq([created : 0..MaxTime, approved : BOOLEAN])
          /\ Len([record EXCEPT ![k] = v]) = Len(record)
          /\ DOMAIN [record EXCEPT ![k] = v] = DOMAIN record
      BY <2>2, <3>2, SeqUpdate
    <3>5. \A i \in DOMAIN record : record'[i] = IF i = k THEN v ELSE record[i]
      BY <3>3
    <3> QED
      BY <3>2, <3>3, <3>4, <3>5
  <2> QED
    BY <2>1, <2>3, <2>4 DEF Lookup
<1>4. \E h \in Handler : /\ Same(t, h) /\ h.pc = "idle" /\ h.op = thread[t].op /\ h.id = thread[t].id
                         /\ h.analyst = thread[t].analyst /\ h.now = thread[t].now
                         /\ h.answer = "200" => Cached(h.id)
  <2>1. CASE Cached(thread[t].id) /\ Answer(t, "200")
    BY <1>1, <2>1, AnswerMove DEF Codes, Same
  <2>2. CASE Answer(t, "404")
    BY <1>1, <2>2, AnswerMove DEF Codes, Same
  <2> QED
    BY <2>1, <2>2 DEF Lookup
<1>5. PICK h \in Handler : /\ Same(t, h) /\ h.pc = "idle" /\ h.op = thread[t].op /\ h.id = thread[t].id
                           /\ h.analyst = thread[t].analyst /\ h.now = thread[t].now
                           /\ h.answer = "200" => Cached(h.id)
  BY <1>4
<1>6. Move(t, h) /\ Reads(h)
  BY <1>2, <1>5 DEF Same, Reads
<1>7. Finds(h)'
  <2>1. h.answer = "200" => ~Stale(h)
    BY <1>1, <1>2, <1>5 DEF LooksOK, Stale
  <2>2. Stale(h)' <=> Stale(h)
    BY <1>2, <1>3, <1>5 DEF Stale
  <2> QED
    BY <1>5, <2>1, <2>2 DEF Finds, Purging, Stale, Cached
<1>8. LooksOK(h)'
  BY <1>1, <1>3, <1>5, <1>6, <1>7, SameLooks
<1>9. CacheOK'
  BY <1>1, <1>2, <1>3 DEF CacheOK
<1>10. HandlerOK(t, h)'
  BY <1>2, <1>5 DEF HandlerOK, Asking, Purging, Reads
<1>11. Frame
  <2>1. At(Loop, "store")' => At(Loop, "store") /\ thread'[Loop].id = thread[Loop].id
    BY <1>1, <1>5, <1>6, Moves, Bounds DEF At
  <2> QED
    BY <1>1, <1>3, <2>1 DEF Frame
<1>12. ThreadsOK' /\ ReadersOK'
  <2>1. \A d \in DOMAIN dicts' : d \in DOMAIN dicts /\ dicts'[d] \subseteq dicts[d]
    BY <1>1
  <2> QED
    BY <1>3, <1>6, <1>8, <1>9, <1>10, <1>11, <2>1, CacheStep
<1>13. dicts' \in Seq(SUBSET Id) /\ named' \in 0..Len(dicts')
  BY <1>1 DEF TypeOK
<1> QED
  BY <1>1, <1>3, <1>5, <1>6, <1>12, <1>13, FreeStep

LEMMA BeginStep ==
  ASSUME AIInv, Begin
  PROVE  Step
<1>1. /\ TypeOK /\ RateInv /\ Loop \in Thread /\ thread[Loop].pc = "begin" /\ UNCHANGED <<clock, spent>>
      /\ UNCHANGED cache /\ UNCHANGED <<dicts, named, record>>
  BY Bounds DEF AIInv, RateInv, Begin, At, cache
<1>2. /\ thread[Loop] \in Handler /\ HandlerOK(Loop, thread[Loop]) /\ thread[Loop].op = "ask"
      /\ thread[Loop].analyst \in Analyst /\ ~Reads(thread[Loop]) /\ slots = {}
  BY <1>1, AtWork DEF HandlerOK, Reads, AIInv, SlotHeldOnlyInFlight, At
<1>3. PICK a \in Analyst : a = thread[Loop].analyst
  BY <1>2
<1>4. /\ RateOK' /\ RollingLimit'
      /\ stamps' \in [Analyst -> Seq(0..MaxTime)] /\ \A c \in Analyst : Len(stamps'[c]) <= Rate
  BY <1>1, <1>2, RateBegin
<1>5. \E h \in Handler : /\ Same(Loop, h)
                         /\ \/ h.pc = "idle" /\ slots' = slots
                            \/ h.pc = "complete" /\ slots' = slots \cup {a}
  <2>1. CASE Answer(Loop, "429") /\ slots' = slots
    BY <1>1, <2>1, AnswerMove DEF Codes, Same
  <2>2. CASE Goto(Loop, "complete") /\ slots' = slots \cup {a}
    BY <1>1, <2>2, GotoMove DEF Pcs, Same
  <2> QED
    BY <1>3, <2>1, <2>2 DEF Begin
<1>6. PICK h \in Handler : /\ Same(Loop, h)
                           /\ \/ h.pc = "idle" /\ slots' = slots
                              \/ h.pc = "complete" /\ slots' = slots \cup {a}
  BY <1>5
<1>7. thread'[Loop] = h /\ thread' \in [Thread -> Handler] /\ h.op = "ask" /\ h.analyst = a
  BY <1>1, <1>2, <1>3, <1>6, Moves DEF Same
<1>8. ThreadsOK' /\ ReadersOK'
  <2>1. HandlerOK(Loop, h)
    BY <1>1, <1>2, <1>3, <1>6, <1>7 DEF HandlerOK, Asking, Purging
  <2> QED
    BY <1>1, <1>6, <1>7, <2>1, QuietGo DEF Reads
<1>9. TypeOK'
  BY <1>1, <1>2, <1>4, <1>6, <1>7 DEF TypeOK
<1>10. SlotHeldOnlyInFlight'
  BY <1>2, <1>6, <1>7 DEF SlotHeldOnlyInFlight, At
<1> QED
  BY <1>4, <1>8, <1>9, <1>10 DEF Step

LEMMA CompleteStep ==
  ASSUME AIInv, Complete
  PROVE  Step
<1>1. /\ TypeOK /\ RateInv /\ Loop \in Thread /\ thread[Loop].pc = "complete" /\ UNCHANGED <<clock, stamps, begun>>
      /\ UNCHANGED cache /\ UNCHANGED <<dicts, named, record>>
  BY Bounds DEF AIInv, RateInv, Complete, At, cache
<1>2. /\ thread[Loop] \in Handler /\ HandlerOK(Loop, thread[Loop]) /\ thread[Loop].op = "ask"
      /\ thread[Loop].analyst \in Analyst /\ ~Reads(thread[Loop]) /\ slots = {thread[Loop].analyst}
  BY <1>1, AtWork DEF HandlerOK, Reads, AIInv, SlotHeldOnlyInFlight, At
<1>3. slots' = {}
  BY <1>2 DEF Complete, Released
<1>4. spent' \in 0..MaxTokens
  <2>1. spent \in 0..MaxTokens /\ MaxTokens \in Nat /\ Tokens \subseteq Nat
    BY <1>1, Bounds DEF TypeOK
  <2>2. spent' = spent \/ \E n \in Tokens : spent' = spent + n /\ spent + n <= MaxTokens
    BY DEF Complete, Affordable
  <2> QED
    BY <2>1, <2>2
<1>5. RateOK' /\ RollingLimit'
  <2>1. clock' \in 0..MaxTime /\ clock <= clock'
    BY <1>1, Bounds DEF TypeOK
  <2> QED
    BY <1>1, <2>1, RateTick
<1>6. \E h \in Handler : Same(Loop, h) /\ h.pc \in {"idle", "setdefault"}
  <2>1. ASSUME NEW code \in Codes, Answer(Loop, code) PROVE <1>6
    BY <1>1, <2>1, AnswerMove DEF Same
  <2>2. CASE Goto(Loop, "setdefault")
    BY <1>1, <2>2, GotoMove DEF Pcs, Same
  <2>3. Resolve(thread[Loop].analyst, thread[Loop].allowed) \in {"503", "400", "500", "found"}
    BY DEF Resolve
  <2> QED
    BY <2>1, <2>2, <2>3 DEF Complete, Codes
<1>7. PICK h \in Handler : Same(Loop, h) /\ h.pc \in {"idle", "setdefault"}
  BY <1>6
<1>8. thread'[Loop] = h /\ thread' \in [Thread -> Handler] /\ h.op = "ask" /\ h.analyst = thread[Loop].analyst
  BY <1>1, <1>2, <1>7, Moves DEF Same
<1>9. ThreadsOK' /\ ReadersOK'
  <2>1. HandlerOK(Loop, h)
    BY <1>1, <1>2, <1>7, <1>8 DEF HandlerOK, Asking, Purging
  <2> QED
    BY <1>1, <1>7, <1>8, <2>1, QuietGo DEF Reads
<1>10. TypeOK'
  BY <1>1, <1>3, <1>4, <1>8 DEF TypeOK
<1>11. SlotHeldOnlyInFlight'
  BY <1>3, <1>7, <1>8 DEF SlotHeldOnlyInFlight, At
<1> QED
  BY <1>5, <1>9, <1>10, <1>11 DEF Step

LEMMA SetDefaultStep ==
  ASSUME AIInv, SetDefault
  PROVE  Step
<1>1. /\ TypeOK /\ Loop \in Thread /\ thread[Loop].pc = "setdefault" /\ UNCHANGED <<clock, limits>>
      /\ clock \in 0..MaxTime
  BY Bounds DEF AIInv, SetDefault, At, TypeOK
<1>2. /\ thread[Loop] \in Handler /\ HandlerOK(Loop, thread[Loop]) /\ CacheOK /\ thread[Loop].op = "ask"
      /\ thread[Loop].analyst \in Analyst /\ Len(record) < MaxAsks
  BY <1>1, AtWork DEF HandlerOK, Asking
<1>3. PICK r : r = [created |-> clock, approved |-> FALSE]
  OBVIOUS
<1>4. /\ record' \in Seq([created : 0..MaxTime, approved : BOOLEAN])
      /\ Len(record') = Len(record) + 1 /\ Len(record) \in Nat
      /\ \A i \in 1..Len(record) : record'[i] = record[i]
  <2>1. record \in Seq([created : 0..MaxTime, approved : BOOLEAN]) /\ r \in [created : 0..MaxTime, approved : BOOLEAN]
    BY <1>1, <1>3 DEF TypeOK
  <2>2. record' = Append(record, r)
    BY <1>3 DEF SetDefault
  <2> QED
    BY <2>1, <2>2, SeqAppend
<1>5. DOMAIN record = 1..Len(record) /\ DOMAIN record' = 1..(Len(record) + 1)
  BY <1>1, <1>4, LenProperties DEF TypeOK
<1>6. dicts \in Seq(SUBSET Id) /\ Len(dicts) \in Nat /\ DOMAIN dicts = 1..Len(dicts)
  BY <1>1, LenProperties DEF TypeOK
<1>7. /\ dicts' \in Seq(SUBSET Id) /\ DOMAIN dicts' = 1..Len(dicts') /\ Len(dicts') \in Nat
      /\ \A d \in DOMAIN dicts : dicts'[d] = dicts[d]
      /\ named' = Len(dicts') /\ named' # 0
      /\ \/ Len(dicts') = Len(dicts) /\ named' = named
         \/ Len(dicts') = Len(dicts) + 1 /\ dicts'[Len(dicts) + 1] = {}
  <2>1. CASE named = 0
    <3>1. dicts' = Append(dicts, {}) /\ named' = Len(dicts) + 1 /\ {} \in SUBSET Id
      BY <2>1 DEF SetDefault
    <3>2. /\ Append(dicts, {}) \in Seq(SUBSET Id) /\ Len(Append(dicts, {})) = Len(dicts) + 1
          /\ \A i \in 1..Len(dicts) : Append(dicts, {})[i] = dicts[i]
          /\ Append(dicts, {})[Len(dicts) + 1] = {}
      BY <1>6, <3>1, SeqAppend
    <3>3. PICK e : e = Append(dicts, {})
      OBVIOUS
    <3>4. DOMAIN e = 1..Len(e) /\ Len(e) \in Nat
      BY <3>2, <3>3, LenProperties
    <3>5. /\ e \in Seq(SUBSET Id) /\ Len(e) = Len(dicts) + 1 /\ e[Len(dicts) + 1] = {}
          /\ \A d \in DOMAIN dicts : e[d] = dicts[d]
      BY <1>6, <3>2, <3>3
    <3>6. dicts' = e /\ named' = Len(e) /\ named' # 0
      BY <1>6, <3>1, <3>3, <3>5
    <3> QED
      BY <3>4, <3>5, <3>6
  <2>2. CASE named # 0
    <3>1. dicts' = dicts /\ named' = named
      BY <2>2 DEF SetDefault
    <3>2. named = Len(dicts)
      BY <1>2, <2>2 DEF CacheOK
    <3> QED
      BY <1>6, <2>2, <3>1, <3>2
  <2> QED
    BY <2>1, <2>2
<1>8. \A d \in DOMAIN dicts' : (d \in DOMAIN dicts /\ dicts'[d] = dicts[d]) \/ dicts'[d] = {}
  <2> SUFFICES ASSUME NEW d \in DOMAIN dicts', ~(d \in DOMAIN dicts) PROVE dicts'[d] = {}
    BY <1>7
  <2>1. PICK n \in Nat : n = Len(dicts')
    BY <1>7
  <2>4. PICK m \in Nat : m = Len(dicts)
    BY <1>6
  <2>2. d \in 1..n /\ d \notin 1..m /\ n \in {m, m + 1}
    BY <1>6, <1>7, <2>1, <2>4
  <2>3. n = m + 1 /\ d = m + 1
    BY <2>2
  <2> QED
    BY <1>7, <2>1, <2>3, <2>4
<1>9. PICK h : h = [thread[Loop] EXCEPT !.pc = "store", !.dict = named', !.id = Len(record) + 1]
  OBVIOUS
<1>10. Len(record) + 1 \in 0..MaxAsks /\ named' \in Nat /\ named' \in DOMAIN dicts'
  <2>1. Len(record) + 1 \in 0..MaxAsks
    BY <1>2, <1>4, Bounds
  <2>2. PICK n \in Nat : n = Len(dicts')
    BY <1>7
  <2>3. named' = n /\ n # 0 /\ DOMAIN dicts' = 1..n
    BY <1>7, <2>2
  <2> QED
    BY <2>1, <2>3
<1>11. /\ h \in Handler /\ h.pc = "store" /\ h.op = "ask" /\ h.analyst \in Analyst
       /\ h.dict = named' /\ h.id = Len(record) + 1
  BY <1>2, <1>9, <1>10 DEF Handler
<1>12. Move(Loop, h)
  BY <1>1, <1>9, <1>11 DEF Move, SetDefault, TypeOK
<1>13. thread'[Loop] = h
  BY <1>1, <1>12, Moves
<1>14. CacheOK'
  <2>1. Len(record') <= MaxAsks
    BY <1>2, <1>4, Bounds
  <2>2. \A d \in DOMAIN dicts : dicts[d] \subseteq DOMAIN record
    BY <1>2 DEF CacheOK
  <2>3. \A d \in DOMAIN dicts' : dicts'[d] \subseteq DOMAIN record'
    BY <1>4, <1>5, <1>8, <2>2
  <2> QED
    BY <1>7, <2>1, <2>3 DEF CacheOK
<1>15. HandlerOK(Loop, h)'
  <2>1. h.id = Len(record') /\ Len(record') > 0 /\ h.id \notin DOMAIN record
    BY <1>4, <1>5, <1>11
  <2>2. \A d \in DOMAIN dicts' : h.id \notin dicts'[d]
    BY <1>2, <1>8, <2>1 DEF CacheOK
  <2> QED
    BY <1>10, <1>11, <2>1, <2>2, Bounds DEF HandlerOK, Asking, Purging
<1>16. Frame
  <2>1. DOMAIN record \subseteq DOMAIN record' /\ \A i \in DOMAIN record : record'[i].created = record[i].created
    BY <1>4, <1>5
  <2>2. DOMAIN dicts \subseteq DOMAIN dicts' /\ (named' = named \/ (named' \notin DOMAIN dicts /\ named' \in DOMAIN dicts'))
    <3>1. PICK m \in Nat : m = Len(dicts) /\ DOMAIN dicts = 1..m
      BY <1>6
    <3>2. CASE Len(dicts') = Len(dicts) /\ named' = named
      <4>1. DOMAIN dicts' = DOMAIN dicts
        BY <1>6, <1>7, <3>2
      <4> QED
        BY <3>2, <4>1
    <3>3. CASE Len(dicts') = Len(dicts) + 1
      <4>1. DOMAIN dicts' = 1..(m + 1) /\ named' = m + 1
        BY <1>7, <3>1, <3>3
      <4> QED
        BY <3>1, <4>1
    <3> QED
      BY <1>7, <3>2, <3>3
  <2>3. \A i : \A d \in DOMAIN dicts' : i \in dicts'[d] => d \in DOMAIN dicts /\ i \in dicts[d]
    BY <1>8
  <2>4. thread'[Loop].id \notin DOMAIN record
    BY <1>4, <1>5, <1>11, <1>13
  <2> QED
    BY <2>1, <2>2, <2>3, <2>4 DEF Frame
<1>17. ThreadsOK' /\ ReadersOK'
  BY <1>1, <1>11, <1>12, <1>14, <1>15, <1>16, CacheStep DEF Reads
<1>18. named' \in 0..Len(dicts')
  <2>1. PICK n \in Nat : n = Len(dicts') /\ named' = n
    BY <1>7
  <2> QED
    BY <2>1
<1> QED
  BY <1>1, <1>4, <1>7, <1>11, <1>12, <1>17, <1>18, FreeStep

LEMMA StoreStep ==
  ASSUME AIInv, Store
  PROVE  Step
<1>1. TypeOK /\ Loop \in Thread /\ thread[Loop].pc = "store" /\ UNCHANGED <<clock, named, record, limits>>
  BY Bounds DEF AIInv, Store, At
<1>2. /\ thread[Loop] \in Handler /\ HandlerOK(Loop, thread[Loop]) /\ CacheOK /\ thread[Loop].op = "ask"
      /\ thread[Loop].analyst \in Analyst /\ thread[Loop].dict \in DOMAIN dicts
      /\ thread[Loop].id = Len(record) /\ Len(record) > 0
  BY <1>1, AtWork DEF HandlerOK, Purging
<1>3. PICK k \in DOMAIN dicts : k = thread[Loop].dict
  BY <1>2
<1>4. PICK i : i = thread[Loop].id
  OBVIOUS
<1>5. i \in DOMAIN record /\ i \in Id /\ dicts[k] \in SUBSET Id
  <2>1. Len(record) \in Nat /\ DOMAIN record = 1..Len(record)
    BY <1>1, LenProperties DEF TypeOK
  <2>2. dicts[k] \in SUBSET Id
    BY <1>1, ElementOfSeq, LenProperties DEF TypeOK
  <2> QED
    BY <1>2, <1>4, <2>1, <2>2, Bounds DEF Id, CacheOK
<1>6. /\ dicts' \in Seq(SUBSET Id) /\ Len(dicts') = Len(dicts) /\ DOMAIN dicts' = DOMAIN dicts
      /\ \A d \in DOMAIN dicts : dicts'[d] = IF d = k THEN dicts[d] \cup {i} ELSE dicts[d]
  <2>1. dicts \in Seq(SUBSET Id) /\ dicts[k] \cup {i} \in SUBSET Id /\ dicts' = [dicts EXCEPT ![k] = dicts[k] \cup {i}]
    BY <1>1, <1>3, <1>4, <1>5 DEF TypeOK, Store
  <2>2. /\ [dicts EXCEPT ![k] = dicts[k] \cup {i}] \in Seq(SUBSET Id)
        /\ Len([dicts EXCEPT ![k] = dicts[k] \cup {i}]) = Len(dicts)
        /\ DOMAIN [dicts EXCEPT ![k] = dicts[k] \cup {i}] = DOMAIN dicts
    BY <2>1, SeqUpdate
  <2> QED
    BY <2>1, <2>2
<1>7. PICK h \in Handler : Move(Loop, h) /\ h.pc = "idle" /\ h.op = "ask" /\ h.analyst \in Analyst
  <2>1. Answer(Loop, "200")
    BY DEF Store
  <2> QED
    BY <1>1, <1>2, <2>1, AnswerMove DEF Codes
<1>8. thread'[Loop] = h
  BY <1>1, <1>7, Moves
<1>9. CacheOK'
  BY <1>1, <1>2, <1>5, <1>6 DEF CacheOK
<1>10. HandlerOK(Loop, h)'
  BY <1>7, Bounds DEF HandlerOK, Asking, Purging
<1>11. Frame
  BY <1>1, <1>4, <1>6, <1>7, <1>8 DEF Frame, At
<1>12. ThreadsOK' /\ ReadersOK'
  BY <1>1, <1>7, <1>9, <1>10, <1>11, CacheStep DEF Reads
<1>13. named' \in 0..Len(dicts') /\ record' \in Seq([created : 0..MaxTime, approved : BOOLEAN])
  BY <1>1, <1>6 DEF TypeOK
<1> QED
  BY <1>1, <1>6, <1>7, <1>12, <1>13, FreeStep

\* Time passing, or nothing happening.
LEMMA TickStep ==
  ASSUME AIInv, clock' \in {clock, clock + 1}, clock' \in 0..MaxTime, UNCHANGED <<cache, limits, thread>>
  PROVE  Step
<1>1. /\ TypeOK /\ RateInv /\ UNCHANGED <<dicts, named, record>> /\ UNCHANGED <<stamps, slots, spent, begun>>
      /\ UNCHANGED thread
  BY DEF AIInv, RateInv, cache, limits
<1>2. RateOK' /\ RollingLimit'
  <2>1. clock <= clock'
    BY <1>1, Bounds DEF TypeOK
  <2> QED
    BY <1>1, <2>1, RateTick
<1>3. TypeOK'
  BY <1>1 DEF TypeOK
<1>4. ThreadsOK' /\ SlotHeldOnlyInFlight'
  BY <1>1 DEF AIInv, ThreadsOK, CacheOK, HandlerOK, SlotHeldOnlyInFlight, At
<1>5. ReadersOK'
  BY <1>1 DEF AIInv, ReadersOK, Reads, LooksOK, Stale, At, Cached
<1> QED
  BY <1>2, <1>3, <1>4, <1>5 DEF Step

-----------------------------------------------------------------------------
(* The theorems.                                                            *)

LEMMA AIInit == Init => AIInv
<1> SUFFICES ASSUME Init PROVE AIInv
  OBVIOUS
<1>1. /\ clock = 0 /\ stamps = [a \in Analyst |-> <<>>] /\ slots = {} /\ spent = 0 /\ dicts = <<>> /\ named = 0
      /\ record = <<>> /\ thread = [t \in Thread |-> NoHandler] /\ begun = [a \in Analyst |-> <<>>]
  BY DEF Init
<1>2. /\ <<>> \in Seq(0..MaxTime) /\ <<>> \in Seq(SUBSET Id)
      /\ <<>> \in Seq([created : 0..MaxTime, approved : BOOLEAN])
      /\ Len(<<>>) = 0 /\ DOMAIN <<>> = {} /\ 0 \in 0..MaxTime /\ 0 \in 0..MaxTokens
  BY EmptySeq, Bounds
<1>3. TypeOK
  <2>1. thread \in [Thread -> Handler]
    BY <1>1, NoHandlerTyped
  <2>2. stamps \in [Analyst -> Seq(0..MaxTime)] /\ \A a \in Analyst : Len(stamps[a]) <= Rate
    BY <1>1, <1>2, Bounds
  <2>3. named \in 0..Len(dicts)
    BY <1>1, <1>2
  <2> QED
    BY <1>1, <1>2, <2>1, <2>2, <2>3 DEF TypeOK
<1>4. ThreadsOK
  <2>1. CacheOK
    BY <1>1, <1>2, Bounds DEF CacheOK
  <2>2. \A t \in Thread : HandlerOK(t, thread[t])
    BY <1>1 DEF HandlerOK, NoHandler, Asking, Purging
  <2> QED
    BY <2>1, <2>2 DEF ThreadsOK
<1>5. RateOK
  <2>1. \A a \in Analyst : begun[a] = <<>> /\ stamps[a] = <<>>
    BY <1>1
  <2>2. DequeOK(<<>>, <<>>, clock)
    BY <1>2 DEF DequeOK
  <2> QED
    BY <1>1, <1>2, <2>1, <2>2 DEF RateOK
<1>6. RollingLimit
  BY <1>1, <1>2 DEF RollingLimit
<1>7. SlotHeldOnlyInFlight
  BY <1>1, Bounds DEF SlotHeldOnlyInFlight, At, NoHandler
<1>8. ReadersOK
  BY <1>1, NoHandlerTyped DEF ReadersOK
<1> QED
  BY <1>3, <1>4, <1>5, <1>6, <1>7, <1>8 DEF AIInv

LEMMA AINext == AIInv /\ [Next]_vars => AIInv'
<1> SUFFICES ASSUME AIInv, [Next]_vars PROVE Step
  BY DEF Step, AIInv
<1>1. TypeOK /\ Loop \in Thread /\ Workers \subseteq Thread /\ Loop \notin Workers /\ NoHandler \in Handler
  BY Bounds, NoHandlerTyped DEF AIInv
<1>2. ASSUME NEW a \in Analyst, NEW allowed \in BOOLEAN, Ask(a, allowed) PROVE Step
  <2>1. PICK g : g = [NoHandler EXCEPT !.op = "ask", !.analyst = a, !.allowed = allowed]
    OBVIOUS
  <2>2. g \in Handler
    BY <1>1, <2>1 DEF Handler
  <2>3. g.answer = "none" /\ g.op = "ask" /\ g.analyst = a
    BY <2>1 DEF NoHandler
  <2> QED
    BY <1>1, <1>2, <2>1, <2>2, <2>3, StartStep DEF Ask
<1>3. ASSUME NEW i \in Id, NEW t \in Thread, NEW op \in {"get", "approve"}, i \in Told,
             Start(t, [NoHandler EXCEPT !.op = op, !.id = i])
      PROVE  Step
  <2>1. PICK g : g = [NoHandler EXCEPT !.op = op, !.id = i]
    OBVIOUS
  <2>2. i \in 0..MaxAsks
    BY Bounds DEF Id
  <2>3. g \in Handler
    BY <1>1, <2>1, <2>2 DEF Handler
  <2>4. g.answer = "none" /\ g.op = op /\ g.id = i
    BY <2>1 DEF NoHandler
  <2> QED
    BY <1>3, <2>1, <2>3, <2>4, StartStep
<1>4. ASSUME NEW i \in Id, ApproveAnswer(i) PROVE Step
  BY <1>1, <1>3, <1>4 DEF ApproveAnswer
<1>5. ASSUME NEW i \in Id, NEW t \in Workers, Get(t, i) PROVE Step
  BY <1>1, <1>3, <1>5 DEF Get
<1>6. ASSUME NEW t \in Thread, Purge(t) PROVE Step
  BY <1>6, PurgeTenantsStep, PurgeRecordsStep, PurgeDeleteStep, PurgeDropStep, PurgeForgetStep DEF Purge
<1>7. CASE Tick
  <2>1. clock' = clock + 1 /\ clock' \in 0..MaxTime /\ UNCHANGED <<cache, limits, thread>>
    BY <1>1, <1>7, Bounds DEF Tick, TypeOK
  <2> QED
    BY <2>1, TickStep
<1>8. CASE UNCHANGED vars
  <2>1. clock' = clock /\ clock' \in 0..MaxTime /\ UNCHANGED <<cache, limits, thread>>
    BY <1>1, <1>8 DEF vars, cache, limits, TypeOK
  <2> QED
    BY <2>1, TickStep
<1> QED
  BY <1>2, <1>4, <1>5, <1>6, <1>7, <1>8, LookupStep, BeginStep, CompleteStep, SetDefaultStep, StoreStep DEF Next

\* What the Ask-AI routes keep true between any two calls on the cache, the
\* limits and the budget.
THEOREM AIInvariant == Spec => []AIInv
<1> QED
  BY AIInit, AINext, PTL DEF Spec

\* The routes keep their state in its types: no deque longer than the limit, no
\* budget overdrawn.
THEOREM AITypeCorrect == Spec => []TypeOK
<1>1. AIInv => TypeOK
  BY DEF AIInv
<1> QED
  BY <1>1, AIInvariant, PTL

\* _begin_ai_request admits no analyst more than Rate times in any window of Window
\* seconds, for any limit, window and order of admissions and refusals.
THEOREM RateLimited == Spec => []RollingLimit
<1>1. AIInv => RollingLimit
  BY DEF AIInv
<1> QED
  BY <1>1, AIInvariant, PTL

\* The finally of ask_ai: outside the provider call no analyst holds a slot, on
\* whichever way out.
THEOREM SlotReleased == Spec => []SlotHeldOnlyInFlight
<1>1. AIInv => SlotHeldOnlyInFlight
  BY DEF AIInv
<1> QED
  BY <1>1, AIInvariant, PTL

\* get_ai_request and approve_ai_request never answer 200 for a record that had
\* expired when they came in, with any number of threads purging beside them.
THEOREM NoExpired == Spec => []NoExpiredAnswer
<1>1. AIInv => NoExpiredAnswer
  <2> SUFFICES ASSUME AIInv, NEW t \in Thread, Reads(thread[t]), thread[t].answer = "200"
               PROVE  thread[t].now - record[thread[t].id].created <= TTL
    BY DEF NoExpiredAnswer, Reads
  <2>1. TypeOK /\ LooksOK(thread[t]) /\ thread[t] \in Handler
    BY DEF AIInv, ReadersOK, TypeOK
  <2>2. ~Stale(thread[t]) /\ thread[t].id \in DOMAIN record
    BY <2>1 DEF LooksOK
  <2>3. record \in Seq([created : 0..MaxTime, approved : BOOLEAN]) /\ thread[t].now \in 0..MaxTime
    BY <2>1 DEF TypeOK, Handler
  <2>4. record[thread[t].id] \in [created : 0..MaxTime, approved : BOOLEAN]
    BY <2>2, <2>3, ElementOfSeq, LenProperties
  <2>5. thread[t].now \in Int /\ record[thread[t].id].created \in Int /\ TTL \in Int
    BY <2>3, <2>4, Bounds
  <2> QED
    BY <2>2, <2>5 DEF Stale
<1> QED
  BY <1>1, AIInvariant, PTL
=============================================================================
