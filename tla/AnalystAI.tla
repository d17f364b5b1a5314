------------------------------ MODULE AnalystAI ------------------------------
(***************************************************************************)
(* The Ask-AI routes (api.py): the per-analyst rate limit and slot, the    *)
(* token budget of the gateway, and the in-memory cache of answers that    *)
(* every route purges before it looks.                                     *)
(*                                                                         *)
(* ask_ai and approve_ai_request are coroutines: they run on the event     *)
(* loop's thread, one at a time, and nothing they await suspends for a     *)
(* tenant that gets as far as the provider.  get_ai_request and            *)
(* cancel_ai_request are plain functions: each runs on a worker thread.    *)
(* Threads switch between the calls of _purge_ai_requests, not inside one  *)
(* dict operation.                                                         *)
(*                                                                         *)
(* One tenant's cache, so `purge' walks one dict.  A dict is an object: a  *)
(* thread may hold one that _ai_requests no longer names.  Requests that   *)
(* are refused before the purge (AI disabled, malformed body) change       *)
(* nothing and are left out.                                               *)
(***************************************************************************)
EXTENDS Integers, Sequences, FiniteSets

CONSTANTS
  Loop,      \* the event loop's thread
  Workers,   \* threads for the plain handlers
  Analyst,   \* analysts of the tenant
  Uuid,      \* those whose tenant id is a UUID (PostgreSQL-backed)
  Pool,      \* whether a database pool is configured
  Rate,      \* _AI_RATE_LIMIT
  Window,    \* _AI_RATE_WINDOW_SECONDS
  TTL,       \* _AI_REQUEST_TTL_SECONDS
  MaxTokens, \* the gateway's budget
  Tokens,    \* what a request may reserve
  MaxAsks,   \* bound: requests admitted to the provider
  MaxTime    \* bound: clock

ASSUME AIAssumption ==
  /\ Loop \notin Workers
  /\ Uuid \subseteq Analyst /\ Pool \in BOOLEAN
  /\ {Rate, Window, TTL, MaxTokens, MaxAsks, MaxTime} \subseteq Nat
  /\ Tokens \subseteq Nat

Thread == Workers \cup {Loop}
Id == 1..MaxAsks

VARIABLES
  clock,    \* time.time()
  stamps,   \* _ai_rate_state: per analyst, the deque of admission times
  slots,    \* _ai_in_flight
  spent,    \* TokenCostBudget._tokens
  dicts,    \* every dict ever put into _ai_requests, as the ids it holds
  named,    \* the dict _ai_requests names for the tenant, 0 for none
  record,   \* the records made so far: creation time and approval
  thread,   \* per thread: the handler it runs
  begun     \* history: per analyst, every admission time

vars == <<clock, stamps, slots, spent, dicts, named, record, thread, begun>>

Handler == [op : {"none", "ask", "approve", "get"},
            pc : {"idle", "purge", "list", "delete", "drop", "forget", "begin", "complete",
                  "setdefault", "store", "lookup"},
            analyst : Analyst \cup {"none"}, allowed : BOOLEAN, id : 0..MaxAsks, now : 0..MaxTime,
            dict : Nat, todo : SUBSET Id,
            answer : {"none", "200", "400", "404", "429", "500", "503"}]

\* The limits hold as types: no deque is longer than Rate and the budget is not
\* overdrawn.
TypeOK ==
  /\ clock \in 0..MaxTime
  /\ stamps \in [Analyst -> Seq(0..MaxTime)] /\ \A a \in Analyst : Len(stamps[a]) <= Rate
  /\ slots \subseteq Analyst
  /\ spent \in 0..MaxTokens
  /\ dicts \in Seq(SUBSET Id)
  /\ named \in 0..Len(dicts)
  /\ record \in Seq([created : 0..MaxTime, approved : BOOLEAN])
  /\ thread \in [Thread -> Handler]

NoHandler == [op |-> "none", pc |-> "idle", analyst |-> "none", allowed |-> FALSE, id |-> 0, now |-> 0,
              dict |-> 0, todo |-> {}, answer |-> "none"]

Init ==
  /\ clock = 0
  /\ stamps = [a \in Analyst |-> <<>>]
  /\ slots = {}
  /\ spent = 0
  /\ dicts = <<>>
  /\ named = 0
  /\ record = <<>>
  /\ thread = [t \in Thread |-> NoHandler]
  /\ begun = [a \in Analyst |-> <<>>]

At(t, pc) == thread[t].pc = pc
Goto(t, pc) == thread' = [thread EXCEPT ![t].pc = pc]
Answer(t, code) == thread' = [thread EXCEPT ![t].pc = "idle", ![t].answer = code,
                                            ![t].dict = 0, ![t].todo = {}]

cache == <<dicts, named, record>>
limits == <<stamps, slots, spent, begun>>

Start(t, handler) ==
  /\ At(t, "idle")
  /\ thread' = [thread EXCEPT ![t] = [handler EXCEPT !.pc = "purge", !.now = clock]]
  /\ UNCHANGED <<clock, cache, limits>>

\* A question about a resource the analyst may read, or may not.
Ask(a, allowed) ==
  /\ Len(record) < MaxAsks
  /\ Start(Loop, [NoHandler EXCEPT !.op = "ask", !.analyst = a, !.allowed = allowed])

\* Ids that clients have been given.
Told == {i \in DOMAIN record : ~(At(Loop, "store") /\ thread[Loop].id = i)}

ApproveAnswer(i) == i \in Told /\ Start(Loop, [NoHandler EXCEPT !.op = "approve", !.id = i])

\* get_ai_request or cancel_ai_request.
Get(t, i) == i \in Told /\ Start(t, [NoHandler EXCEPT !.op = "get", !.id = i])

-----------------------------------------------------------------------------
(* _purge_ai_requests.                                                      *)

AfterPurge(t) == IF thread[t].op = "ask" THEN "begin" ELSE "lookup"

\* list(_ai_requests.items())
PurgeTenants(t) ==
  /\ At(t, "purge")
  /\ \/ named = 0 /\ Goto(t, AfterPurge(t))
     \/ named # 0 /\ thread' = [thread EXCEPT ![t].pc = "list", ![t].dict = named]
  /\ UNCHANGED <<clock, cache, limits>>

\* Whether a record created at c is past its time to live.
ExpiredLate(now, c) == now - c > TTL + 1
Expired(now, c) == now - c > TTL

\* list(records.items()), of which the expired ones will be deleted.
PurgeRecords(t) ==
  /\ At(t, "list")
  /\ LET h == thread[t]
     IN  thread' = [thread EXCEPT ![t].pc = "delete",
                      ![t].todo = {i \in dicts[h.dict] : Expired(h.now, record[i].created)}]
  /\ UNCHANGED <<clock, cache, limits>>

\* del records[request_id] raises if another thread was faster.
PurgeDelete(t) ==
  /\ At(t, "delete")
  /\ LET h == thread[t]
     IN  \/ h.todo = {} /\ Goto(t, "drop") /\ UNCHANGED dicts
         \/ \E i \in h.todo :
              \/ /\ i \in dicts[h.dict]
                 /\ dicts' = [dicts EXCEPT ![h.dict] = @ \ {i}]
                 /\ thread' = [thread EXCEPT ![t].todo = @ \ {i}]
              \/ i \notin dicts[h.dict] /\ Answer(t, "500") /\ UNCHANGED dicts
  /\ UNCHANGED <<clock, named, record, limits>>

\* if not records.
PurgeDrop(t) ==
  /\ At(t, "drop")
  /\ \/ dicts[thread[t].dict] # {} /\ Goto(t, AfterPurge(t))
     \/ dicts[thread[t].dict] = {} /\ Goto(t, "forget")
  /\ UNCHANGED <<clock, cache, limits>>

\* del _ai_requests[tenant] drops whatever dict the tenant's name stands for by
\* now, and raises KeyError if another thread has dropped it.
PurgeForget(t) ==
  /\ At(t, "forget")
  /\ \/ named # 0 /\ named' = 0 /\ Goto(t, AfterPurge(t))
     \/ named = 0 /\ UNCHANGED named /\ Answer(t, "500")
  /\ UNCHANGED <<clock, dicts, record, limits>>

-----------------------------------------------------------------------------
(* ask_ai behind the purge.                                                 *)

\* How many admissions the loop pops from the left: those out of the rolling
\* window, up to the first that is inside it.
PoppedEarly(times, now) ==
  CHOOSE k \in 0..Len(times) : /\ \A i \in 1..k : now - times[i] >= Window - 1
                               /\ k < Len(times) => now - times[k + 1] < Window - 1
Popped(times, now) ==
  CHOOSE k \in 0..Len(times) : /\ \A i \in 1..k : now - times[i] >= Window
                               /\ k < Len(times) => now - times[k + 1] < Window

Recent(times, now) == SubSeq(times, Popped(times, now) + 1, Len(times))

\* _begin_ai_request, all of it under the lock.
Begin ==
  /\ At(Loop, "begin")
  /\ LET a == thread[Loop].analyst
         recent == Recent(stamps[a], clock)
     IN  \/ /\ a \in slots \/ Len(recent) >= Rate
            /\ stamps' = IF a \in slots THEN stamps ELSE [stamps EXCEPT ![a] = recent]
            /\ Answer(Loop, "429") /\ UNCHANGED <<slots, begun>>
         \/ /\ a \notin slots /\ Len(recent) < Rate
            /\ stamps' = [stamps EXCEPT ![a] = Append(recent, clock)]
            /\ slots' = slots \cup {a}
            /\ begun' = [begun EXCEPT ![a] = Append(@, clock)]
            /\ Goto(Loop, "complete")
  /\ UNCHANGED <<clock, spent, cache>>

\* _end_ai_request sits in a finally: every way out of the provider call gives
\* the slot back.
ReleasedOnSuccess(a, ok) == IF ok THEN slots \ {a} ELSE slots
Released(a, ok) == slots \ {a}

\* TokenCostBudget.reserve admits n more tokens.
AffordableBefore(n) == spent <= MaxTokens
Affordable(n) == spent + n <= MaxTokens

\* _resolve_ai_resource.  For a UUID tenant with a pool the lookup calls
\* _db_uuid, which is local to create_app: a NameError, answered with 500.
Resolve(a, allowed) ==
  IF a \in Uuid /\ ~Pool THEN "503"
  ELSE IF ~allowed THEN "400"
  ELSE IF a \in Uuid THEN "500"
  ELSE "found"

\* The resource, the context and the provider, then the finally.
Complete ==
  /\ At(Loop, "complete")
  /\ LET a == thread[Loop].analyst
         resource == Resolve(a, thread[Loop].allowed)
     IN  \/ /\ resource # "found"
            /\ Answer(Loop, resource)
            /\ slots' = Released(a, FALSE) /\ UNCHANGED spent
         \/ /\ resource = "found"
            /\ \E n \in Tokens :
                 \/ /\ Affordable(n)
                    /\ spent' = spent + n
                    /\ Goto(Loop, "setdefault")
                    /\ slots' = Released(a, TRUE)
                 \/ /\ ~Affordable(n)
                    /\ Answer(Loop, "503")
                    /\ slots' = Released(a, FALSE) /\ UNCHANGED spent
  /\ UNCHANGED <<clock, stamps, begun, cache>>

\* _ai_requests.setdefault(tenant, {}): the record exists, its dict is chosen.
SetDefault ==
  /\ At(Loop, "setdefault")
  /\ record' = Append(record, [created |-> clock, approved |-> FALSE])
  /\ dicts' = IF named = 0 THEN Append(dicts, {}) ELSE dicts
  /\ named' = IF named = 0 THEN Len(dicts) + 1 ELSE named
  /\ thread' = [thread EXCEPT ![Loop].pc = "store", ![Loop].dict = named',
                              ![Loop].id = Len(record) + 1]
  /\ UNCHANGED <<clock, limits>>

\* ...[request_id] = record, into that dict; the answer goes out.
Store ==
  /\ At(Loop, "store")
  /\ dicts' = [dicts EXCEPT ![thread[Loop].dict] = @ \cup {thread[Loop].id}]
  /\ Answer(Loop, "200")
  /\ UNCHANGED <<clock, named, record, limits>>

-----------------------------------------------------------------------------
(* get_ai_request, cancel_ai_request and approve_ai_request.  A record is    *)
(* created "completed", so cancel never finds one to cancel.                 *)

Cached(i) == named # 0 /\ i \in dicts[named]

Lookup(t) ==
  /\ At(t, "lookup")
  /\ \/ Cached(thread[t].id) /\ Answer(t, "200")
     \/ ~Cached(thread[t].id) /\ Answer(t, "404")
  /\ record' = IF thread[t].op = "approve" /\ Cached(thread[t].id)
               THEN [record EXCEPT ![thread[t].id].approved = TRUE] ELSE record
  /\ UNCHANGED <<clock, dicts, named, limits>>

Tick ==
  /\ clock < MaxTime
  /\ clock' = clock + 1
  /\ UNCHANGED <<cache, limits, thread>>

Purge(t) == PurgeTenants(t) \/ PurgeRecords(t) \/ PurgeDelete(t) \/ PurgeDrop(t) \/ PurgeForget(t)

Next ==
  \/ \E a \in Analyst, allowed \in BOOLEAN : Ask(a, allowed)
  \/ \E i \in Id : ApproveAnswer(i) \/ \E t \in Workers : Get(t, i)
  \/ \E t \in Thread : Purge(t) \/ Lookup(t)
  \/ Begin \/ Complete \/ SetDefault \/ Store
  \/ Tick

Spec == Init /\ [][Next]_vars

-----------------------------------------------------------------------------
(* Properties.                                                              *)

\* No analyst is admitted more than Rate times in any rolling window, however
\* admissions, refusals and the pruning of the deque follow each other.
RollingLimit ==
  \A a \in Analyst : \A m, n \in DOMAIN begun[a] :
    n - m >= Rate => begun[a][n] - begun[a][m] >= Window

\* A slot is held only while its analyst's request is with the provider: a
\* denied, failed or unaffordable request does not lock the analyst out.
SlotHeldOnlyInFlight ==
  slots = IF At(Loop, "complete") THEN {thread[Loop].analyst} ELSE {}

\* No route answers with, or approves, a record that had expired when the request
\* came in, whichever thread purged which dict meanwhile.
NoExpiredAnswer ==
  \A t \in Thread : thread[t].op \in {"get", "approve"} /\ thread[t].answer = "200"
    => thread[t].now - record[thread[t].id].created <= TTL
=============================================================================
