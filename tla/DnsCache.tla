------------------------------- MODULE DnsCache -------------------------------
(***************************************************************************)
(* The DNS cache (dnscache.h, dnscache.cpp): queries of the application,   *)
(* the thread that refreshes what is cached, the thread that processes     *)
(* what the resolver library c-ares receives, and the destructor.          *)
(*                                                                         *)
(* One semaphore, m_activequeries, both counts the queries under way and   *)
(* puts the processing thread to sleep when there are none; another,       *)
(* m_sem, limits the queries of the refresher.  Their steps are those of   *)
(* the module ESemaphore, without the time between a count and its post,   *)
(* or between a broken wait and the count it gives back.  The timers of    *)
(* the refresher break waits: their handler is installed without           *)
(* SA_RESTART, any thread may get the signal, and none of the callers of   *)
(* Decrement looks at its result.                                          *)
(***************************************************************************)
EXTENDS Integers, FiniteSets

CONSTANTS
    Queries,     \* the query objects, used again once they are complete
    NoQuery,
    Domains,     \* what can be asked: types and domain names
    MaxConcur,   \* m_concur, the queries that the refresher may have under way
    MaxSignals   \* bound: the waits that a signal breaks

ASSUME DnsCacheAssumption ==
    /\ IsFiniteSet(Queries) /\ NoQuery \notin Queries
    /\ MaxConcur \in Nat \ {0} /\ MaxSignals \in Nat

VARIABLES
    active,      \* the count of m_activequeries
    tokens,      \* what was posted for its sleepers
    query,       \* the queries
    mutex,       \* the query whose caller has m_mutex, the lock of the channel
    cache,       \* m_cache
    sem,         \* the count of m_sem
    semTokens,   \* what was posted for its sleepers
    permit,      \* the Decrement of m_sem by the refresher and by loadQueries
    refresher,   \* the refresher: pc, and keys still to be submitted
    qpt,         \* QueryProcessorThread: pc, and the query it completes
    main,        \* the destructor of the cache
    shutdown,    \* m_shutdown
    hurried,     \* history: the processing thread ended before shutdown's Increment
    excess,      \* history: broken waits for m_activequeries
    overdrawn    \* history: broken waits for m_sem

counts == <<active, tokens, excess>>
permits == <<sem, semTokens, permit, overdrawn>>
vars == <<counts, permits, query, mutex, cache, refresher, qpt, main, shutdown, hurried>>

Kinds == {"async", "sync", "refresh"}
None == [st |-> "none", kind |-> "async", dom |-> {}]

\* Who decrements m_sem: the refresher, and an application's thread in loadQueries.
Users == {"refresher", "loader"}

Init ==
    /\ active = 0 /\ tokens = 0 /\ excess = 0
    /\ query = [q \in Queries |-> None] /\ mutex = NoQuery
    /\ cache = [d \in Domains |-> "none"]
    /\ sem = MaxConcur /\ semTokens = 0 /\ permit = [x \in Users |-> "none"] /\ overdrawn = 0
    /\ refresher = [pc |-> "idle", todo |-> {}, q |-> NoQuery]
    /\ qpt = [pc |-> "top", q |-> NoQuery]
    /\ main = "running" /\ shutdown = FALSE /\ hurried = FALSE

-------------------------------------------------------------------------------
(* m_activequeries *)

\* Decrement begins; its thread sleeps if Sleeps, and wakes by Wake.
Decrement == active' = active - 1 /\ UNCHANGED <<tokens, excess>>
Sleeps == active <= 0
Wake == tokens > 0 /\ tokens' = tokens - 1 /\ UNCHANGED <<active, excess>>

Increment ==
    /\ active' = active + 1
    /\ tokens' = IF active + 1 <= 0 THEN tokens + 1 ELSE tokens
    /\ UNCHANGED excess

\* A signal breaks the sleeper's sem_wait, which gives the count back.  A token that
\* was already posted for it stays.
Broken == excess + overdrawn < MaxSignals
BreakWait ==
    /\ Broken /\ active' = active + 1 /\ excess' = excess + 1
    /\ UNCHANGED tokens

(* m_sem *)

IncrementSem ==
    /\ sem' = sem + 1
    /\ semTokens' = IF sem + 1 <= 0 THEN semTokens + 1 ELSE semTokens
    /\ UNCHANGED overdrawn

Permit(x, st) == permit' = [permit EXCEPT ![x] = st]

\* Decrement: the count is lowered, and the thread has a permit or sleeps ...
DecrementSem(x) ==
    /\ permit[x] = "none"
    /\ sem' = sem - 1 /\ Permit(x, IF sem <= 0 THEN "asleep" ELSE "granted")
    /\ UNCHANGED <<semTokens, overdrawn>>

\* ... until a token comes, or a signal: then it goes on without a permit.
WakeSem(x) ==
    /\ permit[x] = "asleep" /\ semTokens > 0
    /\ semTokens' = semTokens - 1 /\ Permit(x, "granted")
    /\ UNCHANGED <<sem, overdrawn>>

BreakSem(x) ==
    /\ permit[x] = "asleep" /\ Broken
    /\ sem' = sem + 1 /\ overdrawn' = overdrawn + 1 /\ Permit(x, "granted")
    /\ UNCHANGED semTokens

(* Queries *)

Goto(q, st) == query' = [query EXCEPT ![q].st = st]

\* The query is complete, and its last reference is dropped.
Done(q) == query' = [query EXCEPT ![q] = None]

\* The call of query that the refresher is in returns.
Returns(q) == refresher' = [refresher EXCEPT !.q = IF @ = q THEN NoQuery ELSE @]

Expired(d) == cache[d] # "fresh"

\* Calls of the application go on only while the cache exists.
InUse == main = "running"

\* QueryProcessor::beginQuery: the query is counted.
BeginQuery(q, kind, d) ==
    /\ query[q].st = "none"
    /\ Increment
    /\ query' = [query EXCEPT ![q] = [st |-> "begun", kind |-> kind, dom |-> {d}]]

\* Cache::query, when the answer is not cached or the cache is ignored.
Query(q, kind, d) ==
    /\ InUse /\ BeginQuery(q, kind, d)
    /\ UNCHANGED <<mutex, cache, permits, refresher, qpt, main, shutdown, hurried>>

\* The Decrement of m_sem that has begun goes on.
SemReturns(x) ==
    /\ WakeSem(x) \/ BreakSem(x)
    /\ UNCHANGED <<counts, query, mutex, cache, refresher, qpt, main, shutdown, hurried>>

\* CacheRefresher::loadQueries, by the application, for each query of its file:
\* m_sem.Decrement() ...
LoadDecrement ==
    /\ InUse /\ DecrementSem("loader")
    /\ UNCHANGED <<counts, query, mutex, cache, refresher, qpt, main, shutdown, hurried>>

\* ... query; what is cached calls back at once.
LoadQuery(q, d) ==
    /\ permit["loader"] = "granted" /\ Expired(d)
    /\ BeginQuery(q, "refresh", d) /\ Permit("loader", "none")
    /\ UNCHANGED <<sem, semTokens, overdrawn>>
    /\ UNCHANGED <<mutex, cache, refresher, qpt, main, shutdown, hurried>>

LoadCached(d) ==
    /\ permit["loader"] = "granted" /\ ~Expired(d)
    /\ IncrementSem /\ Permit("loader", "none")
    /\ UNCHANGED <<counts, query, mutex, cache, refresher, qpt, main, shutdown, hurried>>

\* ares_query, with the lock of the channel: the query is sent, or fails at once
\* and calls back.
AresQuery(q) ==
    /\ query[q].st = "begun" /\ mutex = NoQuery /\ qpt.q = NoQuery
    /\ \/ Goto(q, "sent") /\ Returns(q) /\ UNCHANGED mutex
       \/ Goto(q, "failing") /\ mutex' = q /\ UNCHANGED refresher
    /\ UNCHANGED <<counts, cache, permits, qpt, main, shutdown, hurried>>

\* ares_callback by the caller: endQuery ...
EndFailed(q) ==
    /\ query[q].st = "failing" /\ Decrement
    /\ Goto(q, IF Sleeps THEN "ending" ELSE "failed")
    /\ UNCHANGED <<mutex, cache, permits, refresher, qpt, main, shutdown, hurried>>

WakeFailed(q) ==
    /\ query[q].st = "ending" /\ (Wake \/ BreakWait)
    /\ Goto(q, "failed")
    /\ UNCHANGED <<mutex, cache, permits, refresher, qpt, main, shutdown, hurried>>

\* Faulty variant: m_sem is incremented for every query.
CallBackEach(q) == IncrementSem /\ UNCHANGED permit

\* The callback of the refresher is Increment; those of the application do not use
\* the cache.
CallBack(q) ==
    IF query[q].kind = "refresh" THEN IncrementSem /\ UNCHANGED permit ELSE UNCHANGED permits

\* ... and there is no answer.
CompleteFailed(q) ==
    /\ query[q].st = "failed" /\ mutex' = NoQuery
    /\ CallBack(q) /\ Done(q) /\ Returns(q)
    /\ UNCHANGED <<counts, cache, qpt, main, shutdown, hurried>>

\* An answer becomes older than its time to live.
Expire(d) ==
    /\ cache[d] = "fresh" /\ cache' = [cache EXCEPT ![d] = "expired"]
    /\ UNCHANGED <<counts, query, mutex, permits, refresher, qpt, main, shutdown, hurried>>

-------------------------------------------------------------------------------
(* The refresher. *)

\* _refreshQueries (what has expired or soon will) and _forceRefresh (everything), of
\* which the queue has none after EM_QUIT.
Refresh ==
    /\ refresher.pc = "idle" /\ main = "running"
    /\ \E keys \in SUBSET {d \in Domains : cache[d] # "none"} :
          /\ {d \in Domains : cache[d] = "expired"} \subseteq keys /\ keys # {}
          /\ refresher' = [pc |-> "submit", todo |-> keys, q |-> NoQuery]
    /\ UNCHANGED <<counts, query, mutex, cache, permits, qpt, main, shutdown, hurried>>

\* _submitQueries: m_sem.Decrement() ...
SubmitDecrement ==
    /\ refresher.pc = "submit" /\ refresher.q = NoQuery /\ refresher.todo # {}
    /\ DecrementSem("refresher")
    /\ UNCHANGED <<counts, query, mutex, cache, refresher, qpt, main, shutdown, hurried>>

\* ... query.
Submit(q, d) ==
    /\ permit["refresher"] = "granted" /\ d \in refresher.todo
    /\ Permit("refresher", "none") /\ UNCHANGED <<sem, semTokens, overdrawn>>
    /\ BeginQuery(q, "refresh", d)
    /\ refresher' = [pc |-> "submit", todo |-> refresher.todo \ {d}, q |-> q]
    /\ UNCHANGED <<mutex, cache, qpt, main, shutdown, hurried>>

SubmitEnds ==
    /\ refresher.pc = "submit" /\ refresher.q = NoQuery /\ refresher.todo = {}
    /\ refresher' = [refresher EXCEPT !.pc = "idle"]
    /\ UNCHANGED <<counts, query, mutex, cache, permits, qpt, main, shutdown, hurried>>

\* EM_QUIT
RefresherQuits ==
    /\ refresher.pc = "idle" /\ main = "quit"
    /\ refresher' = [refresher EXCEPT !.pc = "ended"]
    /\ UNCHANGED <<counts, query, mutex, cache, permits, qpt, main, shutdown, hurried>>

-------------------------------------------------------------------------------
(* The processing thread: threadProc. *)

At(pc) == qpt.pc = pc
Ends == qpt' = [qpt EXCEPT !.pc = "ended"] /\ hurried' = (main = "increment")
Continues(pc) == qpt' = [qpt EXCEPT !.pc = pc] /\ UNCHANGED hurried

\* Faulty variant: m_shutdown && qcnt <= 2.
ReadCountLate ==
    /\ At("top")
    /\ \/ active = 0 /\ Continues("decrement")
       \/ active # 0 /\ shutdown /\ active <= 2 /\ Ends
       \/ active # 0 /\ ~(shutdown /\ active <= 2) /\ Continues("wait")
    /\ UNCHANGED <<counts, query, mutex, cache, permits, refresher, main, shutdown>>

\* qcnt = m_activequeries.currCount(): none, or only that of shutdown, or some.
ReadCount ==
    /\ At("top")
    /\ \/ active = 0 /\ Continues("decrement")
       \/ active # 0 /\ shutdown /\ active = 1 /\ Ends
       \/ active # 0 /\ ~(shutdown /\ active = 1) /\ Continues("wait")
    /\ UNCHANGED <<counts, query, mutex, cache, permits, refresher, main, shutdown>>

\* decActiveQueries
DecActive ==
    /\ At("decrement") /\ Decrement
    /\ Continues(IF Sleeps THEN "asleep" ELSE "awake")
    /\ UNCHANGED <<query, mutex, cache, permits, refresher, main, shutdown>>

\* It goes on when a token comes, or a signal.
WakeUp ==
    /\ At("asleep") /\ (Wake \/ BreakWait) /\ Continues("awake")
    /\ UNCHANGED <<query, mutex, cache, permits, refresher, main, shutdown>>

\* if (m_shutdown && getActiveQueries() == 0) break ...
Break ==
    /\ At("awake") /\ shutdown /\ active = 0 /\ Ends
    /\ UNCHANGED <<counts, query, mutex, cache, permits, refresher, main, shutdown>>

\* ... or go on ...
GoOn ==
    /\ At("awake") /\ ~(shutdown /\ active = 0) /\ Continues("increment")
    /\ UNCHANGED <<counts, query, mutex, cache, permits, refresher, main, shutdown>>

\* Faulty variant: the count is not given back.
IncActiveForgotten ==
    /\ At("increment") /\ Continues("wait")
    /\ UNCHANGED <<counts, query, mutex, cache, permits, refresher, main, shutdown>>

\* ... incActiveQueries
IncActive ==
    /\ At("increment") /\ Increment /\ Continues("wait")
    /\ UNCHANGED <<query, mutex, cache, permits, refresher, main, shutdown>>

\* wait_for_completion returns when the channel has no socket open.
NothingSent ==
    /\ At("wait") /\ \A q \in Queries : query[q].st # "sent"
    /\ Continues("top")
    /\ UNCHANGED <<counts, query, mutex, cache, permits, refresher, main, shutdown>>

\* ares_process_fd, with the lock of the channel: a query has its answer, or none.
Process(q) ==
    /\ At("wait") /\ query[q].st = "sent" /\ mutex = NoQuery
    /\ qpt' = [pc |-> "callback", q |-> q] /\ Goto(q, "answered")
    /\ UNCHANGED <<counts, mutex, cache, permits, refresher, main, shutdown, hurried>>

\* ares_callback: endQuery, which never sleeps here, since the query is counted ...
EndQuery ==
    /\ At("callback") /\ ~Sleeps /\ Decrement /\ Continues("update")
    /\ UNCHANGED <<query, mutex, cache, permits, refresher, main, shutdown>>

\* ... updateCache unless it is an error, the event of a query that is waited for,
\* and the callback.
Complete ==
    /\ At("update")
    /\ \/ cache' = [d \in Domains |-> IF d \in query[qpt.q].dom THEN "fresh" ELSE cache[d]]
       \/ UNCHANGED cache
    /\ CallBack(qpt.q) /\ Done(qpt.q)
    /\ qpt' = [pc |-> "wait", q |-> NoQuery]
    /\ UNCHANGED <<counts, mutex, refresher, main, shutdown, hurried>>

-------------------------------------------------------------------------------
(* Cache::~Cache *)

\* m_refresher.quit().  Nobody is inside a call of the cache.
Destroy ==
    /\ main = "running" /\ permit["loader"] = "none"
    /\ \A q \in Queries :
          \/ query[q].st = "none" \/ refresher.q = q
          \/ query[q].kind # "sync" /\ query[q].st \in {"sent", "answered"}
    /\ main' = "quit"
    /\ UNCHANGED <<counts, query, mutex, cache, permits, refresher, qpt, shutdown, hurried>>

\* m_refresher.join(), and QueryProcessorThread::shutdown: m_shutdown = true ...
SetShutdown ==
    /\ main = "quit" /\ refresher.pc = "ended"
    /\ main' = "increment" /\ shutdown' = TRUE
    /\ UNCHANGED <<counts, query, mutex, cache, permits, refresher, qpt, hurried>>

\* Faulty variant: shutdown does not wake the thread.
ShutdownSilently ==
    /\ main = "increment" /\ main' = "join"
    /\ UNCHANGED <<counts, query, mutex, cache, permits, refresher, qpt, shutdown, hurried>>

\* ... incActiveQueries() ...
ShutdownIncrement ==
    /\ main = "increment" /\ Increment /\ main' = "join"
    /\ UNCHANGED <<query, mutex, cache, permits, refresher, qpt, shutdown, hurried>>

\* ... join().  Then the members are destroyed, the refresher first.
Join ==
    /\ main = "join" /\ At("ended") /\ main' = "destroyed"
    /\ UNCHANGED <<counts, query, mutex, cache, permits, refresher, qpt, shutdown, hurried>>

\* ~QueryProcessor: ares_destroy calls back, with an error, for what is still sent.
AresDestroy(q) ==
    /\ main = "destroyed" /\ query[q].st = "sent" /\ ~Sleeps
    /\ Decrement /\ CallBack(q) /\ Done(q)
    /\ UNCHANGED <<mutex, cache, refresher, qpt, main, shutdown, hurried>>

Gone ==
    /\ main = "destroyed" /\ \A q \in Queries : query[q].st # "sent"
    /\ main' = "gone"
    /\ UNCHANGED <<counts, query, mutex, cache, permits, refresher, qpt, shutdown, hurried>>

-------------------------------------------------------------------------------
Caller(q) == AresQuery(q) \/ EndFailed(q) \/ WakeFailed(q) \/ CompleteFailed(q)

Refresher ==
    \/ SubmitDecrement \/ SemReturns("refresher")
    \/ \E q \in Queries, d \in Domains : Submit(q, d)
    \/ SubmitEnds \/ RefresherQuits

Loader ==
    \/ SemReturns("loader")
    \/ \E d \in Domains : LoadCached(d) \/ \E q \in Queries : LoadQuery(q, d)

ThreadProc ==
    \/ ReadCount \/ DecActive \/ WakeUp \/ Break \/ GoOn \/ IncActive \/ NothingSent
    \/ EndQuery \/ Complete

Destructor ==
    \/ SetShutdown \/ ShutdownIncrement \/ Join \/ Gone
    \/ \E q \in Queries : AresDestroy(q)

Next ==
    \/ \E q \in Queries, d \in Domains :
          \E kind \in {"async", "sync"} : Query(q, kind, d)
    \/ LoadDecrement \/ Loader
    \/ \E q \in Queries : Caller(q) \/ Process(q)
    \/ \E d \in Domains : Expire(d)
    \/ Refresh \/ Refresher \/ ThreadProc \/ Destroy \/ Destructor

\* Threads run and calls go on; c-ares ends every query, by its timeout at the
\* latest.  Nobody need ask anything or destroy the cache.
Spec ==
    /\ Init /\ [][Next]_vars
    /\ WF_vars(Refresher) /\ WF_vars(Loader) /\ WF_vars(ThreadProc) /\ WF_vars(Destructor)
    /\ \A q \in Queries : SF_vars(Caller(q)) /\ SF_vars(Process(q))

-------------------------------------------------------------------------------
\* The type of the queries and the threads.  m_sem stays within its count, but for the
\* waits that signals broke.
TypeOK ==
    /\ active \in Int /\ tokens \in Nat /\ semTokens \in Nat
    /\ excess \in 0 .. MaxSignals /\ overdrawn \in 0 .. MaxSignals
    /\ query \in [Queries ->
          [st : {"none", "begun", "sent", "failing", "ending", "failed", "answered"},
           kind : Kinds, dom : SUBSET Domains]]
    /\ mutex \in Queries \cup {NoQuery}
    /\ cache \in [Domains -> {"none", "fresh", "expired"}]
    /\ sem \in Int /\ sem <= MaxConcur + overdrawn
    /\ permit \in [Users -> {"none", "asleep", "granted"}]
    /\ refresher \in [pc : {"idle", "submit", "ended"}, todo : SUBSET Domains,
                      q : Queries \cup {NoQuery}]
    /\ qpt \in [pc : {"top", "decrement", "asleep", "awake", "increment", "wait", "callback",
                      "update", "ended"}, q : Queries \cup {NoQuery}]
    /\ main \in {"running", "quit", "increment", "join", "destroyed", "gone"}
    /\ shutdown \in BOOLEAN /\ hurried \in BOOLEAN

\* The processing thread waits for the queries under way before it ends, and so the
\* callback of the refresher is not called once the refresher is destroyed.  It
\* fails if the thread reads the count between the two statements of shutdown
\* (dnscache.cpp 171-176).
NoQueryAbandoned ==
    qpt.pc = "ended" /\ ~hurried =>
        \A q \in Queries : query[q].st = "none"

\* Every query that begins is answered, fails or times out, and the destructor
\* returns, though the thread that completes queries sleeps on the count that
\* they and the destructor raise.  A wait that a signal broke leaves a count too many,
\* with which the thread does not end and the destructor waits for ever.
QueriesComplete ==
    /\ \A q \in Queries : query[q].st = "begun" ~> query[q].st = "none"
    /\ main = "quit" ~> main = "gone" \/ excess > 0
===============================================================================
