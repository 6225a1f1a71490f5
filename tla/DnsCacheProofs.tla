---------------------------- MODULE DnsCacheProofs ----------------------------
(***************************************************************************)
(* The two counts of DnsCache, proved for any number of queries and        *)
(* domains and any limit of the refresher: m_activequeries is the number   *)
(* of queries under way, less what the processing thread and the callbacks *)
(* have taken, and m_sem is what the refresher's queries have left of its  *)
(* limit, each with one more for every wait that a signal broke.  That the *)
(* thread does not abandon a query follows from the first.                 *)
(***************************************************************************)
EXTENDS DnsCache, CountingLemmas

\* The stage of each query, and the kind of each that is under way.
Stage == [q \in Queries |-> query[q].st]
Kind(r) == IF r.st = "none" THEN "none" ELSE r.kind
KindOf == [q \in Queries |-> Kind(query[q])]

\* The number of queries at a stage of L, and the number of the refresher's.
N(L) == Cardinality(Places(Queries, Stage, L))
Refreshing == Cardinality(Places(Queries, KindOf, {"refresh"}))

\* The stages between beginQuery and endQuery.
Counted == {"begun", "sent", "failing", "answered"}

\* Where the processing thread has lowered the count: by its own Decrement, or by
\* endQuery for a query that is still there.
Lowers == {"asleep", "awake", "increment", "update"}

\* Where the destructor has raised it.
Raises == {"join", "destroyed", "gone"}

QueryRecords ==
    [st : {"none", "begun", "sent", "failing", "ending", "failed", "answered"},
     kind : Kinds, dom : SUBSET Domains]

\* Where a Decrement of m_sem has lowered the count for a query that has not begun.
Takes == {"asleep", "granted"}
Taken == Is(permit["refresher"], Takes) + Is(permit["loader"], Takes)

\* m_sem is the limit less the queries of the refresher, begun or about to begin, and
\* one more for each of them that a broken wait let pass without a permit.
SemBalance == sem = MaxConcur - Refreshing - Taken + overdrawn

\* m_activequeries while the processing thread runs.
ActiveBalance ==
    qpt.pc # "ended" =>
        active = N(Counted) - Is(qpt.pc, Lowers) + Is(main, Raises) + excess

\* The order in which the threads end.
Order ==
    /\ shutdown <=> main \notin {"running", "quit"}
    /\ shutdown => refresher.pc = "ended"
    /\ refresher.q # NoQuery => refresher.pc = "submit"
    /\ qpt.pc = "ended" => shutdown
    /\ main \in {"destroyed", "gone"} => qpt.pc = "ended"
    /\ permit["loader"] # "none" => main = "running"
    /\ permit["refresher"] # "none" =>
          refresher.pc = "submit" /\ refresher.q = NoQuery /\ refresher.todo # {}

\* The query that the processing thread completes has its answer.
Answering ==
    qpt.pc \in {"callback", "update"} =>
        qpt.q \in Queries /\ query[qpt.q].st = "answered"

\* Once the destructor runs, only the refresher is inside a call.
CallsOver ==
    main # "running" =>
        \A q \in Queries :
            query[q].st \in {"none", "sent", "answered"} \/ refresher.q = q

\* The inductive invariant.
IInv ==
    /\ TypeOK
    /\ SemBalance
    /\ ActiveBalance
    /\ Order
    /\ Answering
    /\ CallsOver
    /\ NoQueryAbandoned

-------------------------------------------------------------------------------
USE DEF counts, permits

\* The counts are natural numbers.
LEMMA CountTypes == N(Counted) \in Nat /\ N(Counted)' \in Nat /\ Refreshing \in Nat
BY PlacesCount, DnsCacheAssumption DEF N, Refreshing

\* Giving one query a new record changes the counts by that query alone.
LEMMA QueryChanges ==
    ASSUME TypeOK, NEW q \in Queries, NEW r \in QueryRecords,
           query' = [query EXCEPT ![q] = r]
    PROVE  /\ query' \in [Queries -> QueryRecords]
           /\ query'[q] = r
           /\ \A p \in Queries \ {q} : query'[p] = query[p]
           /\ N(Counted)' = N(Counted) - Is(query[q].st, Counted) + Is(r.st, Counted)
           /\ Refreshing' =
                Refreshing - Is(Kind(query[q]), {"refresh"}) + Is(Kind(r), {"refresh"})
<1>1. query \in [Queries -> QueryRecords]
  BY DEF TypeOK, QueryRecords
<1>2. query' \in [Queries -> QueryRecords]
  BY <1>1
<1>3. query'[q] = r /\ \A p \in Queries \ {q} : query'[p] = query[p]
  BY <1>1
<1>4. Moves(Queries, Stage, Stage', q, query[q].st, r.st)
  BY <1>3 DEF Moves, Stage
<1>5. Moves(Queries, KindOf, KindOf', q, Kind(query[q]), Kind(r))
  BY <1>3 DEF Moves, KindOf, Kind
<1>6. N(Counted)' = N(Counted) - Is(query[q].st, Counted) + Is(r.st, Counted)
  BY <1>4, PlacesMove, DnsCacheAssumption DEF N, Counted
<1>7. Refreshing' =
        Refreshing - Is(Kind(query[q]), {"refresh"}) + Is(Kind(r), {"refresh"})
  BY <1>5, PlacesMove, DnsCacheAssumption DEF Refreshing
<1> QED
  BY <1>2, <1>3, <1>6, <1>7

\* A record of QueryRecords with another stage.
LEMMA StageChange ==
    ASSUME NEW x \in QueryRecords, NEW st
    PROVE  [x EXCEPT !.st = st] = [st |-> st, kind |-> x.kind, dom |-> x.dom]
BY DEF QueryRecords

\* A query that goes on to another stage keeps its kind.
LEMMA GotoChanges ==
    ASSUME TypeOK, NEW q \in Queries, query[q].st # "none",
           NEW st \in {"sent", "failing", "ending", "failed", "answered"},
           Goto(q, st)
    PROVE  /\ query' \in [Queries -> QueryRecords]
           /\ query'[q].st = st
           /\ \A p \in Queries \ {q} : query'[p] = query[p]
           /\ N(Counted)' = N(Counted) - Is(query[q].st, Counted) + Is(st, Counted)
           /\ Refreshing' = Refreshing
<1> DEFINE r == [st |-> st, kind |-> query[q].kind, dom |-> query[q].dom]
<1>1. query \in [Queries -> QueryRecords]
  BY DEF TypeOK, QueryRecords
<1>2. r \in QueryRecords /\ r.st = st /\ Kind(r) = Kind(query[q])
  BY <1>1 DEF QueryRecords, Kind
<1>3. query' = [query EXCEPT ![q] = r]
  BY <1>1, StageChange DEF Goto
<1> HIDE DEF r
<1>4. /\ query' \in [Queries -> QueryRecords]
      /\ query'[q] = r
      /\ \A p \in Queries \ {q} : query'[p] = query[p]
      /\ N(Counted)' = N(Counted) - Is(query[q].st, Counted) + Is(r.st, Counted)
      /\ Refreshing' =
            Refreshing - Is(Kind(query[q]), {"refresh"}) + Is(Kind(r), {"refresh"})
  BY <1>2, <1>3, QueryChanges
<1>5. Is(Kind(r), {"refresh"}) = Is(Kind(query[q]), {"refresh"})
  BY <1>2
<1>6. Is(Kind(query[q]), {"refresh"}) \in Nat
  BY DEF Is
<1> QED
  BY <1>2, <1>4, <1>5, <1>6, CountTypes

\* A query that is complete leaves the counts.
LEMMA DoneChanges ==
    ASSUME TypeOK, NEW q \in Queries, Done(q)
    PROVE  /\ query' \in [Queries -> QueryRecords]
           /\ query'[q].st = "none"
           /\ \A p \in Queries \ {q} : query'[p] = query[p]
           /\ N(Counted)' = N(Counted) - Is(query[q].st, Counted)
           /\ Refreshing' = Refreshing - Is(Kind(query[q]), {"refresh"})
<1>1. None \in QueryRecords
  BY DEF None, QueryRecords, Kinds
<1>2. query' = [query EXCEPT ![q] = None]
  BY DEF Done
<1>3. /\ query' \in [Queries -> QueryRecords]
      /\ query'[q] = None
      /\ \A p \in Queries \ {q} : query'[p] = query[p]
      /\ N(Counted)' = N(Counted) - Is(query[q].st, Counted) + Is(None.st, Counted)
      /\ Refreshing' =
            Refreshing - Is(Kind(query[q]), {"refresh"}) + Is(Kind(None), {"refresh"})
  BY <1>1, <1>2, QueryChanges
<1>4. Is(None.st, Counted) = 0 /\ Is(Kind(None), {"refresh"}) = 0 /\ None.st = "none"
  BY DEF Is, None, Counted, Kind
<1>5. Is(query[q].st, Counted) \in Nat /\ Is(Kind(query[q]), {"refresh"}) \in Nat
  BY DEF Is
<1> QED
  BY <1>3, <1>4, <1>5, CountTypes

\* A query that begins enters them.
LEMMA BeginChanges ==
    ASSUME TypeOK, NEW q \in Queries, NEW kind \in Kinds, NEW d \in Domains,
           BeginQuery(q, kind, d)
    PROVE  /\ query' \in [Queries -> QueryRecords]
           /\ query'[q].st = "begun"
           /\ \A p \in Queries \ {q} : query'[p] = query[p]
           /\ N(Counted)' = N(Counted) + 1
           /\ Refreshing' = Refreshing + Is(kind, {"refresh"})
<1> DEFINE r == [st |-> "begun", kind |-> kind, dom |-> {d}]
<1>1. r \in QueryRecords /\ r.st = "begun" /\ Kind(r) = kind
  BY DEF QueryRecords, Kind
<1>2. query' = [query EXCEPT ![q] = r] /\ query[q].st = "none"
  BY DEF BeginQuery
<1> HIDE DEF r
<1>3. /\ query' \in [Queries -> QueryRecords]
      /\ query'[q] = r
      /\ \A p \in Queries \ {q} : query'[p] = query[p]
      /\ N(Counted)' = N(Counted) - Is(query[q].st, Counted) + Is(r.st, Counted)
      /\ Refreshing' =
            Refreshing - Is(Kind(query[q]), {"refresh"}) + Is(Kind(r), {"refresh"})
  BY <1>1, <1>2, QueryChanges
<1>4. /\ Is(query[q].st, Counted) = 0 /\ Is(r.st, Counted) = 1
      /\ Is(Kind(query[q]), {"refresh"}) = 0
      /\ Is(Kind(r), {"refresh"}) = Is(kind, {"refresh"})
  BY <1>1, <1>2 DEF Is, Counted, Kind
<1>5. Is(kind, {"refresh"}) \in Nat
  BY DEF Is
<1> QED
  BY <1>1, <1>3, <1>4, <1>5, CountTypes

\* What is left of a limit, and was exceeded by o, does not exceed it by more.
LEMMA LeftOf ==
    ASSUME NEW m \in Nat, NEW r \in Nat, NEW t \in Nat, NEW o \in Nat, NEW s,
           s = m - r - t + o
    PROVE  s \in Int /\ s <= m + o
OBVIOUS

\* What has been taken from m_sem and not yet become a query.
LEMMA TakenTypes ==
    /\ Taken \in Nat /\ Taken' \in Nat
    /\ \A st \in {"none", "asleep", "granted"} : Is(st, Takes) \in {0, 1}
    /\ Is("none", Takes) = 0 /\ Is("asleep", Takes) = 1 /\ Is("granted", Takes) = 1
BY DEF Is, Taken, Takes

\* When one of those who decrement m_sem goes on to st, that alone changes.
LEMMA PermitChanges ==
    ASSUME TypeOK, NEW x \in Users, NEW st \in {"none", "asleep", "granted"}, Permit(x, st)
    PROVE  /\ permit' \in [Users -> {"none", "asleep", "granted"}]
           /\ permit'[x] = st
           /\ \A y \in Users \ {x} : permit'[y] = permit[y]
           /\ Taken' = Taken - Is(permit[x], Takes) + Is(st, Takes)
<1>1. /\ permit' \in [Users -> {"none", "asleep", "granted"}]
      /\ permit'[x] = st
      /\ \A y \in Users \ {x} : permit'[y] = permit[y]
  BY DEF TypeOK, Permit
<1>2. \A y \in Users : Is(permit[y], Takes) \in {0, 1} /\ Is(permit'[y], Takes) \in {0, 1}
  BY DEF Is
<1> QED
  BY <1>1, <1>2 DEF Taken, Users

\* A token, or a signal, ends a wait; the signal leaves one count too many.
LEMMA WaitEnds ==
    ASSUME TypeOK, Wake \/ BreakWait
    PROVE  /\ active' - excess' = active - excess /\ active' \in Int
           /\ tokens' \in Nat /\ excess' \in 0 .. MaxSignals
BY DnsCacheAssumption DEF TypeOK, Wake, BreakWait, Broken

\* Steps that leave the queries alone leave the counts.
LEMMA QueriesSame ==
    ASSUME UNCHANGED query
    PROVE  N(Counted)' = N(Counted) /\ Refreshing' = Refreshing
BY DEF N, Refreshing, Stage, KindOf, Kind, Places

\* The initial states satisfy the inductive invariant.
LEMMA InitIInv == Init => IInv
<1> SUFFICES ASSUME Init PROVE IInv
  OBVIOUS
<1>1. TypeOK
  <2>1. None \in QueryRecords
    BY DEF None, QueryRecords, Kinds
  <2>2. query \in [Queries -> QueryRecords]
    BY <2>1 DEF Init
  <2>3. shutdown \in BOOLEAN /\ hurried \in BOOLEAN
    BY Zenon DEF Init
  <2>4. /\ active = 0 /\ tokens = 0 /\ excess = 0 /\ mutex = NoQuery
        /\ cache = [d \in Domains |-> "none"] /\ sem = MaxConcur
        /\ semTokens = 0 /\ permit = [x \in Users |-> "none"] /\ overdrawn = 0
        /\ refresher = [pc |-> "idle", todo |-> {}, q |-> NoQuery]
        /\ qpt = [pc |-> "top", q |-> NoQuery] /\ main = "running"
    BY DEF Init
  <2> QED
    BY <2>2, <2>3, <2>4, DnsCacheAssumption DEF TypeOK, QueryRecords
<1>2. N(Counted) = 0 /\ Refreshing = 0
  <2>1. \A q \in Queries : Stage[q] \notin Counted /\ KindOf[q] \notin {"refresh"}
    BY DEF Init, Stage, KindOf, Kind, None, Counted
  <2> QED
    BY <2>1, PlacesEmpty, DnsCacheAssumption DEF N, Refreshing
<1> QED
  BY <1>1, <1>2, DnsCacheAssumption
  DEF IInv, Init, SemBalance, ActiveBalance, Order, Answering, CallsOver,
      NoQueryAbandoned, Is, Lowers, Raises, Taken, Takes, Users

-------------------------------------------------------------------------------
(* The application's steps. *)

\* A query of the application preserves the invariant.
LEMMA QueryIInv ==
    ASSUME IInv, NEW q \in Queries, NEW kind \in {"async", "sync"}, NEW d \in Domains,
           Query(q, kind, d)
    PROVE  IInv'
<1>1. /\ query' \in [Queries -> QueryRecords]
      /\ query'[q].st = "begun"
      /\ \A p \in Queries \ {q} : query'[p] = query[p]
      /\ N(Counted)' = N(Counted) + 1
      /\ Refreshing' = Refreshing
  <2>1. kind \in Kinds /\ Is(kind, {"refresh"}) = 0
    BY DEF Kinds, Is
  <2>2. TypeOK /\ BeginQuery(q, kind, d)
    BY DEF IInv, Query
  <2> QED
    BY <2>1, <2>2, BeginChanges, CountTypes
<1>2. TypeOK'
  BY <1>1 DEF IInv, TypeOK, Query, BeginQuery, Increment, QueryRecords
<1>3. SemBalance' /\ Order' /\ CallsOver'
  BY <1>1 DEF IInv, Query, InUse, SemBalance, Taken, Order, CallsOver
<1>4. ActiveBalance'
  BY <1>1, CountTypes DEF IInv, TypeOK, Query, BeginQuery, Increment, ActiveBalance, Is
<1>5. Answering'
  BY <1>1 DEF IInv, Query, BeginQuery, Answering
<1>6. NoQueryAbandoned'
  BY DEF IInv, Query, InUse, Order, NoQueryAbandoned
<1> QED
  BY <1>2, <1>3, <1>4, <1>5, <1>6 DEF IInv

\* So does a query that the application loads for the refresher.
LEMMA LoadQueryIInv ==
    ASSUME IInv, NEW q \in Queries, NEW d \in Domains, LoadQuery(q, d)
    PROVE  IInv'
<1>1. /\ query' \in [Queries -> QueryRecords]
      /\ query'[q].st = "begun"
      /\ \A p \in Queries \ {q} : query'[p] = query[p]
      /\ N(Counted)' = N(Counted) + 1
      /\ Refreshing' = Refreshing + 1
  BY BeginChanges, CountTypes DEF LoadQuery, IInv, Kinds, Is
<1>2. /\ permit' \in [Users -> {"none", "asleep", "granted"}]
      /\ permit'["loader"] = "none" /\ permit'["refresher"] = permit["refresher"]
      /\ Taken' = Taken - 1
  <2>1. "loader" \in Users /\ "refresher" \in Users \ {"loader"}
    BY DEF Users
  <2>2. TypeOK /\ Permit("loader", "none") /\ permit["loader"] = "granted"
    BY DEF LoadQuery, IInv
  <2> QED
    BY <2>1, <2>2, PermitChanges, TakenTypes
<1>3. main = "running"
  BY DEF LoadQuery, IInv, Order
<1>4. TypeOK'
  BY <1>1, <1>2, DnsCacheAssumption
  DEF IInv, TypeOK, LoadQuery, BeginQuery, Increment, QueryRecords
<1>5. SemBalance'
  BY <1>1, <1>2, CountTypes, TakenTypes, DnsCacheAssumption
  DEF IInv, TypeOK, LoadQuery, SemBalance
<1>6. Order' /\ CallsOver'
  BY <1>1, <1>2, <1>3 DEF IInv, LoadQuery, Order, CallsOver
<1>7. ActiveBalance'
  <2>1. active' = active + 1 /\ UNCHANGED <<excess, qpt, main>> /\ active \in Int
        /\ excess \in Nat
    BY DEF IInv, TypeOK, LoadQuery, BeginQuery, Increment
  <2>2. Is(qpt.pc, Lowers) \in Nat /\ Is(main, Raises) \in Nat
    BY DEF Is
  <2> QED
    BY <1>1, <2>1, <2>2, CountTypes DEF IInv, ActiveBalance
<1>8. Answering'
  BY <1>1 DEF IInv, LoadQuery, BeginQuery, Answering
<1>9. NoQueryAbandoned'
  BY <1>3 DEF IInv, LoadQuery, Order, NoQueryAbandoned
<1> QED
  BY <1>4, <1>5, <1>6, <1>7, <1>8, <1>9 DEF IInv

\* The Decrement of m_sem, by the refresher or by loadQueries, and its end by a token
\* or by a signal, preserve the invariant.
LEMMA PermitIInv ==
    ASSUME IInv, NEW x \in Users, NEW st \in {"asleep", "granted"},
           UNCHANGED <<counts, query, mutex, cache, refresher, qpt, main, shutdown, hurried>>,
           Permit(x, st), semTokens' \in Nat,
           overdrawn' \in 0 .. MaxSignals,
           sem' - overdrawn' = sem - overdrawn + Is(permit[x], Takes) - 1, sem' \in Int,
           x = "loader" => main = "running",
           x = "refresher" =>
              refresher.pc = "submit" /\ refresher.q = NoQuery /\ refresher.todo # {}
    PROVE  IInv'
<1>1. N(Counted)' = N(Counted) /\ Refreshing' = Refreshing /\ Refreshing \in Nat
  BY QueriesSame, CountTypes
<1>2. TypeOK
  BY DEF IInv
<1>3. /\ permit' \in [Users -> {"none", "asleep", "granted"}]
      /\ \A y \in Users \ {x} : permit'[y] = permit[y]
      /\ Taken' = Taken - Is(permit[x], Takes) + 1
  BY <1>2, PermitChanges, TakenTypes
<1>4. Is(permit[x], Takes) \in Nat
  BY DEF Is
<1>5. SemBalance'
  BY <1>1, <1>2, <1>3, <1>4, TakenTypes, DnsCacheAssumption DEF IInv, TypeOK, SemBalance
<1>6. sem' <= MaxConcur + overdrawn'
  <2>1. /\ MaxConcur \in Nat /\ overdrawn' \in Int /\ Refreshing' \in Nat /\ Taken' \in Nat
        /\ sem' = MaxConcur - Refreshing' - Taken' + overdrawn'
    BY <1>1, <1>5, TakenTypes, DnsCacheAssumption DEF SemBalance
  <2>2. overdrawn' \in Nat
    BY DnsCacheAssumption
  <2> QED
    BY <2>1, <2>2, LeftOf
<1>7. TypeOK'
  BY <1>2, <1>3, <1>6 DEF TypeOK
<1>8. Order'
  BY <1>3 DEF IInv, Order, Users
<1>9. ActiveBalance' /\ Answering' /\ CallsOver' /\ NoQueryAbandoned'
  BY <1>1 DEF IInv, ActiveBalance, Answering, CallsOver, NoQueryAbandoned
<1> QED
  BY <1>5, <1>7, <1>8, <1>9 DEF IInv

\* So the Decrement of m_sem preserves the invariant.
LEMMA DecrementSemIInv ==
    ASSUME IInv, SubmitDecrement \/ LoadDecrement
    PROVE  IInv'
<1>1. ASSUME NEW x \in Users, DecrementSem(x)
      PROVE  \E st \in {"asleep", "granted"} :
                /\ Permit(x, st) /\ semTokens' \in Nat /\ overdrawn' \in 0 .. MaxSignals
                /\ sem' - overdrawn' = sem - overdrawn + Is(permit[x], Takes) - 1
                /\ sem' \in Int
  BY <1>1, TakenTypes DEF DecrementSem, IInv, TypeOK
<1>2. CASE SubmitDecrement
  <2>1. "refresher" \in Users /\ DecrementSem("refresher")
    BY <1>2 DEF Users, SubmitDecrement
  <2>2. PICK st \in {"asleep", "granted"} :
          /\ Permit("refresher", st) /\ semTokens' \in Nat /\ overdrawn' \in 0 .. MaxSignals
          /\ sem' - overdrawn' = sem - overdrawn + Is(permit["refresher"], Takes) - 1
          /\ sem' \in Int
    BY <1>1, <2>1
  <2> QED
    BY <1>2, <2>1, <2>2, PermitIInv DEF SubmitDecrement
<1>3. CASE LoadDecrement
  <2>1. "loader" \in Users /\ DecrementSem("loader")
    BY <1>3 DEF Users, LoadDecrement
  <2>2. PICK st \in {"asleep", "granted"} :
          /\ Permit("loader", st) /\ semTokens' \in Nat /\ overdrawn' \in 0 .. MaxSignals
          /\ sem' - overdrawn' = sem - overdrawn + Is(permit["loader"], Takes) - 1
          /\ sem' \in Int
    BY <1>1, <2>1
  <2> QED
    BY <1>3, <2>1, <2>2, PermitIInv DEF LoadDecrement, InUse
<1> QED
  BY <1>2, <1>3

\* So does its end.
LEMMA SemReturnsIInv ==
    ASSUME IInv, NEW x \in Users, SemReturns(x)
    PROVE  IInv'
<1>1. /\ permit[x] = "asleep" /\ Permit(x, "granted")
      /\ UNCHANGED <<counts, query, mutex, cache, refresher, qpt, main, shutdown, hurried>>
  BY DEF SemReturns, WakeSem, BreakSem
<1>2. /\ semTokens' \in Nat /\ overdrawn' \in 0 .. MaxSignals
      /\ sem' - overdrawn' = sem - overdrawn /\ sem' \in Int
      /\ sem \in Int /\ overdrawn \in Nat
  <2>1. /\ sem \in Int /\ semTokens \in Nat /\ MaxSignals \in Nat
        /\ overdrawn \in 0 .. MaxSignals /\ excess \in 0 .. MaxSignals
    BY DnsCacheAssumption DEF IInv, TypeOK
  <2>2. CASE WakeSem(x)
    BY <2>1, <2>2 DEF WakeSem
  <2>3. CASE BreakSem(x)
    BY <2>1, <2>3 DEF BreakSem, Broken
  <2> QED
    BY <2>2, <2>3 DEF SemReturns
<1>3. sem' - overdrawn' = sem - overdrawn + Is(permit[x], Takes) - 1
  <2>1. Is(permit[x], Takes) = 1
    BY <1>1, TakenTypes
  <2>2. sem' \in Int /\ overdrawn' \in Int /\ sem - overdrawn + 1 - 1 = sem - overdrawn
    BY <1>2, DnsCacheAssumption
  <2> QED
    BY <1>2, <2>1, <2>2
<1>4. /\ x = "loader" => main = "running"
      /\ x = "refresher" =>
            refresher.pc = "submit" /\ refresher.q = NoQuery /\ refresher.todo # {}
  BY <1>1 DEF IInv, Order
<1> QED
  BY <1>1, <1>2, <1>3, <1>4, PermitIInv

\* So does the Increment for what is loaded and already cached.
LEMMA LoadCachedIInv ==
    ASSUME IInv, NEW d \in Domains, LoadCached(d)
    PROVE  IInv'
<1>1. N(Counted)' = N(Counted) /\ Refreshing' = Refreshing /\ Refreshing \in Nat
  BY QueriesSame, CountTypes DEF LoadCached
<1>2. /\ permit' \in [Users -> {"none", "asleep", "granted"}]
      /\ permit'["loader"] = "none" /\ permit'["refresher"] = permit["refresher"]
      /\ Taken' = Taken - 1
  <2>1. "loader" \in Users /\ "refresher" \in Users \ {"loader"}
    BY DEF Users
  <2>2. TypeOK /\ Permit("loader", "none") /\ permit["loader"] = "granted"
    BY DEF LoadCached, IInv
  <2> QED
    BY <2>1, <2>2, PermitChanges, TakenTypes
<1>3. sem' = sem + 1 /\ semTokens' \in Nat /\ overdrawn' = overdrawn
  BY DEF LoadCached, IncrementSem, IInv, TypeOK
<1>4. SemBalance'
  BY <1>1, <1>2, <1>3, TakenTypes, DnsCacheAssumption DEF IInv, TypeOK, SemBalance
<1>5. sem' \in Int /\ sem' <= MaxConcur + overdrawn' /\ overdrawn' \in 0 .. MaxSignals
  <2>1. overdrawn' \in 0 .. MaxSignals
    BY <1>3 DEF IInv, TypeOK
  <2>2. /\ MaxConcur \in Nat /\ overdrawn' \in Nat /\ Refreshing' \in Nat /\ Taken' \in Nat
        /\ sem' = MaxConcur - Refreshing' - Taken' + overdrawn'
    BY <1>1, <1>4, TakenTypes, <2>1, DnsCacheAssumption DEF SemBalance
  <2> QED
    BY <2>1, <2>2, LeftOf
<1>6. TypeOK'
  BY <1>2, <1>3, <1>5 DEF IInv, TypeOK, LoadCached
<1>7. Order'
  BY <1>2 DEF IInv, LoadCached, Order
<1>8. ActiveBalance' /\ Answering' /\ CallsOver' /\ NoQueryAbandoned'
  BY <1>1 DEF IInv, LoadCached, ActiveBalance, Answering, CallsOver, NoQueryAbandoned
<1> QED
  BY <1>4, <1>6, <1>7, <1>8 DEF IInv

\* ares_query, that sends the query or fails, preserves the invariant.
LEMMA AresQueryIInv ==
    ASSUME IInv, NEW q \in Queries, AresQuery(q)
    PROVE  IInv'
<1>1. query[q].st = "begun" /\ TypeOK
  BY DEF AresQuery, IInv
<1>2. CASE Goto(q, "sent") /\ Returns(q) /\ UNCHANGED mutex
  <2>1. /\ query' \in [Queries -> QueryRecords]
        /\ query'[q].st = "sent"
        /\ \A p \in Queries \ {q} : query'[p] = query[p]
        /\ N(Counted)' = N(Counted)
        /\ Refreshing' = Refreshing
    BY <1>1, <1>2, GotoChanges, CountTypes DEF Is, Counted
  <2>2. refresher' \in [pc : {"idle", "submit", "ended"}, todo : SUBSET Domains,
                        q : Queries \cup {NoQuery}]
    BY <1>1, <1>2 DEF TypeOK, Returns
  <2>3. refresher'.pc = refresher.pc /\ refresher'.todo = refresher.todo
        /\ refresher'.q = IF refresher.q = q THEN NoQuery ELSE refresher.q
    BY <1>1, <1>2 DEF TypeOK, Returns
  <2>4. TypeOK'
    BY <2>1, <2>2, <1>1, <1>2 DEF TypeOK, AresQuery, counts, QueryRecords
  <2>5. SemBalance' /\ ActiveBalance' /\ Answering'
    BY <1>1, <2>1 DEF IInv, AresQuery, counts, SemBalance, Taken, ActiveBalance, Answering, Is
  <2>6. Order'
    <3>1. refresher.q = NoQuery => refresher'.q = NoQuery
      BY <2>3
    <3>2. refresher'.q # NoQuery => refresher'.pc = "submit"
      BY <2>3, <3>1 DEF IInv, Order
    <3>3. permit["refresher"] # "none" => refresher'.pc = "submit" /\ refresher'.todo # {}
      BY <2>3 DEF IInv, Order
    <3> QED
      BY <2>3, <3>1, <3>2, <3>3 DEF IInv, AresQuery, Order
  <2>8. CallsOver'
    BY <2>1, <2>3, DnsCacheAssumption DEF IInv, AresQuery, CallsOver
  <2>7. NoQueryAbandoned'
    BY <1>1 DEF IInv, AresQuery, NoQueryAbandoned
  <2> QED
    BY <2>4, <2>5, <2>6, <2>7, <2>8 DEF IInv
<1>3. CASE Goto(q, "failing") /\ mutex' = q /\ UNCHANGED refresher
  <2>1. /\ query' \in [Queries -> QueryRecords]
        /\ query'[q].st = "failing"
        /\ \A p \in Queries \ {q} : query'[p] = query[p]
        /\ N(Counted)' = N(Counted)
        /\ Refreshing' = Refreshing
    BY <1>1, <1>3, GotoChanges, CountTypes DEF Is, Counted
  <2>2. TypeOK'
    BY <2>1, <1>1, <1>3 DEF TypeOK, AresQuery, counts, QueryRecords
  <2>3. SemBalance' /\ ActiveBalance' /\ Answering'
    BY <1>1, <2>1 DEF IInv, AresQuery, counts, SemBalance, Taken, ActiveBalance, Answering, Is
  <2>4. Order' /\ CallsOver'
    BY <1>1, <1>3, <2>1 DEF IInv, AresQuery, Order, CallsOver
  <2>5. NoQueryAbandoned'
    BY <1>1 DEF IInv, AresQuery, NoQueryAbandoned
  <2> QED
    BY <2>2, <2>3, <2>4, <2>5 DEF IInv
<1> QED
  BY <1>2, <1>3 DEF AresQuery

\* endQuery of a query that failed at once preserves the invariant.
LEMMA EndFailedIInv ==
    ASSUME IInv, NEW q \in Queries, EndFailed(q)
    PROVE  IInv'
<1>1. query[q].st = "failing" /\ TypeOK /\ active' = active - 1 /\ tokens' = tokens
      /\ excess' = excess
  BY DEF EndFailed, IInv, Decrement
<1>2. PICK st \in {"ending", "failed"} : Goto(q, st)
  BY DEF EndFailed
<1>3. /\ query' \in [Queries -> QueryRecords]
      /\ query'[q].st = st
      /\ \A p \in Queries \ {q} : query'[p] = query[p]
      /\ N(Counted)' = N(Counted) - 1
      /\ Refreshing' = Refreshing
  BY <1>1, <1>2, GotoChanges, CountTypes DEF Is, Counted
<1>4. TypeOK'
  BY <1>1, <1>3 DEF TypeOK, EndFailed, QueryRecords
<1>5. SemBalance' /\ Answering'
  BY <1>1, <1>3 DEF IInv, EndFailed, SemBalance, Taken, Answering
<1>7. ActiveBalance'
  <2>1. Is(qpt.pc, Lowers) \in Nat /\ Is(main, Raises) \in Nat
    BY DEF Is
  <2> QED
    BY <1>1, <1>3, <2>1, CountTypes DEF IInv, TypeOK, EndFailed, ActiveBalance
<1>6. Order' /\ CallsOver' /\ NoQueryAbandoned'
  BY <1>1, <1>3 DEF IInv, EndFailed, Order, CallsOver, NoQueryAbandoned
<1> QED
  BY <1>4, <1>5, <1>6, <1>7 DEF IInv

\* So does the wakeup of a caller that endQuery put to sleep.
LEMMA WakeFailedIInv ==
    ASSUME IInv, NEW q \in Queries, WakeFailed(q)
    PROVE  IInv'
<1>1. query[q].st = "ending" /\ TypeOK
  BY DEF WakeFailed, IInv
<1>7. /\ active' - excess' = active - excess /\ active' \in Int
      /\ tokens' \in Nat /\ excess' \in 0 .. MaxSignals
  BY <1>1, WaitEnds DEF WakeFailed
<1>2. Goto(q, "failed")
  BY DEF WakeFailed
<1>3. /\ query' \in [Queries -> QueryRecords]
      /\ query'[q].st = "failed"
      /\ \A p \in Queries \ {q} : query'[p] = query[p]
      /\ N(Counted)' = N(Counted)
      /\ Refreshing' = Refreshing
  BY <1>1, <1>2, GotoChanges, CountTypes DEF Is, Counted
<1>4. TypeOK'
  BY <1>1, <1>3, <1>7 DEF TypeOK, WakeFailed, QueryRecords
<1>5. SemBalance' /\ Answering'
  BY <1>1, <1>3 DEF IInv, WakeFailed, SemBalance, Taken, Answering
<1>8. ActiveBalance'
  <2>1. Is(qpt.pc, Lowers) \in Nat /\ Is(main, Raises) \in Nat
    BY DEF Is
  <2> QED
    BY <1>1, <1>3, <1>7, <2>1, CountTypes DEF IInv, TypeOK, WakeFailed, ActiveBalance
<1>6. Order' /\ CallsOver' /\ NoQueryAbandoned'
  BY <1>1, <1>3 DEF IInv, WakeFailed, Order, CallsOver, NoQueryAbandoned
<1> QED
  BY <1>4, <1>5, <1>6, <1>8 DEF IInv

\* The callback gives the count of m_sem back for a query of the refresher, when
\* the query leaves the count of those under way.
LEMMA CallBackBalance ==
    ASSUME IInv, NEW q \in Queries, query[q].st # "none", CallBack(q), Done(q)
    PROVE  /\ SemBalance' /\ sem' \in Int /\ sem' <= MaxConcur + overdrawn'
           /\ semTokens' \in Nat /\ UNCHANGED <<permit, overdrawn>>
<1>1. TypeOK /\ SemBalance
  BY DEF IInv
<1>2. Refreshing' = Refreshing - Is(Kind(query[q]), {"refresh"})
  BY <1>1, DoneChanges
<1>3. /\ sem' = sem + Is(Kind(query[q]), {"refresh"})
      /\ semTokens' \in Nat /\ UNCHANGED <<permit, overdrawn>>
  BY <1>1 DEF CallBack, IncrementSem, Is, Kind, TypeOK
<1>6. Taken \in Nat /\ Taken' = Taken
  BY <1>3, TakenTypes DEF Taken
<1>4. Is(Kind(query[q]), {"refresh"}) \in Nat
  BY DEF Is
<1>5. Refreshing \in Nat /\ Refreshing' \in Nat
  BY PlacesCount, DnsCacheAssumption DEF Refreshing
<1> QED
  BY <1>1, <1>2, <1>3, <1>4, <1>5, <1>6, DnsCacheAssumption DEF SemBalance, TypeOK

\* The end of a query that failed at once preserves the invariant.
LEMMA CompleteFailedIInv ==
    ASSUME IInv, NEW q \in Queries, CompleteFailed(q)
    PROVE  IInv'
<1>1. query[q].st = "failed" /\ TypeOK /\ Done(q) /\ CallBack(q)
  BY DEF CompleteFailed, IInv
<1>2. /\ query' \in [Queries -> QueryRecords]
      /\ query'[q].st = "none"
      /\ \A p \in Queries \ {q} : query'[p] = query[p]
      /\ N(Counted)' = N(Counted)
  BY <1>1, DoneChanges, CountTypes DEF Is, Counted
<1>3. /\ SemBalance' /\ sem' \in Int /\ sem' <= MaxConcur + overdrawn'
      /\ semTokens' \in Nat /\ UNCHANGED <<permit, overdrawn>>
  BY <1>1, CallBackBalance
<1>4. /\ refresher' \in [pc : {"idle", "submit", "ended"}, todo : SUBSET Domains,
                         q : Queries \cup {NoQuery}]
      /\ refresher'.pc = refresher.pc /\ refresher'.todo = refresher.todo
      /\ refresher'.q = IF refresher.q = q THEN NoQuery ELSE refresher.q
  BY <1>1 DEF TypeOK, CompleteFailed, Returns
<1>5. TypeOK'
  BY <1>1, <1>2, <1>3, <1>4 DEF TypeOK, CompleteFailed, counts, QueryRecords
<1>6. ActiveBalance' /\ Answering'
  BY <1>1, <1>2 DEF IInv, CompleteFailed, counts, ActiveBalance, Answering
<1>7. Order'
  <2>1. refresher.q = NoQuery => refresher'.q = NoQuery
    BY <1>4
  <2>2. refresher'.q # NoQuery => refresher'.pc = "submit"
    BY <1>4, <2>1 DEF IInv, Order
  <2> QED
    BY <1>3, <1>4, <2>1, <2>2 DEF IInv, CompleteFailed, Order
<1>8. CallsOver' /\ NoQueryAbandoned'
  BY <1>1, <1>2, <1>4 DEF IInv, CompleteFailed, CallsOver, NoQueryAbandoned
<1> QED
  BY <1>3, <1>5, <1>6, <1>7, <1>8 DEF IInv

\* An answer that expires preserves the invariant.
LEMMA ExpireIInv ==
    ASSUME IInv, NEW d \in Domains, Expire(d)
    PROVE  IInv'
<1>1. N(Counted)' = N(Counted) /\ Refreshing' = Refreshing
  BY QueriesSame DEF Expire
<1>2. TypeOK'
  BY DEF IInv, TypeOK, Expire, counts
<1> QED
  BY <1>1, <1>2
  DEF IInv, Expire, counts, SemBalance, Taken, ActiveBalance, Order, Answering, CallsOver,
      NoQueryAbandoned

-------------------------------------------------------------------------------
(* The refresher's steps. *)

\* The refresher that begins to submit preserves the invariant.
LEMMA RefreshIInv ==
    ASSUME IInv, Refresh
    PROVE  IInv'
<1>1. N(Counted)' = N(Counted) /\ Refreshing' = Refreshing
  BY QueriesSame DEF Refresh
<1>2. PICK keys \in SUBSET Domains :
        refresher' = [pc |-> "submit", todo |-> keys, q |-> NoQuery]
  BY DEF Refresh
<1>3. TypeOK'
  BY <1>2 DEF IInv, TypeOK, Refresh, counts
<1> QED
  BY <1>1, <1>2, <1>3
  DEF IInv, Refresh, counts, SemBalance, Taken, ActiveBalance, Order, Answering, CallsOver,
      NoQueryAbandoned

\* A query that the refresher submits preserves the invariant.
LEMMA SubmitIInv ==
    ASSUME IInv, NEW q \in Queries, NEW d \in Domains, Submit(q, d)
    PROVE  IInv'
<1>1. /\ query' \in [Queries -> QueryRecords]
      /\ query'[q].st = "begun"
      /\ \A p \in Queries \ {q} : query'[p] = query[p]
      /\ N(Counted)' = N(Counted) + 1
      /\ Refreshing' = Refreshing + 1
  BY BeginChanges, CountTypes DEF Submit, IInv, Kinds, Is
<1>2. /\ permit' \in [Users -> {"none", "asleep", "granted"}]
      /\ permit'["refresher"] = "none" /\ permit'["loader"] = permit["loader"]
      /\ Taken' = Taken - 1
  <2>1. "refresher" \in Users /\ "loader" \in Users \ {"refresher"}
    BY DEF Users
  <2>2. TypeOK /\ Permit("refresher", "none") /\ permit["refresher"] = "granted"
    BY DEF Submit, IInv
  <2> QED
    BY <2>1, <2>2, PermitChanges, TakenTypes
<1>3. TypeOK'
  BY <1>1, <1>2, DnsCacheAssumption
  DEF IInv, TypeOK, Submit, BeginQuery, Increment, QueryRecords
<1>4. SemBalance'
  BY <1>1, <1>2, CountTypes, TakenTypes, DnsCacheAssumption
  DEF IInv, TypeOK, Submit, SemBalance
<1>5. ActiveBalance'
  BY <1>1, CountTypes DEF IInv, TypeOK, Submit, BeginQuery, Increment, ActiveBalance, Is
<1>6. Answering'
  BY <1>1 DEF IInv, Submit, BeginQuery, Answering
<1>7. Order' /\ CallsOver' /\ NoQueryAbandoned'
  BY <1>1, <1>2, DnsCacheAssumption DEF IInv, Submit, Order, CallsOver, NoQueryAbandoned
<1> QED
  BY <1>3, <1>4, <1>5, <1>6, <1>7 DEF IInv

\* The end of a round of the refresher, and of its thread, preserve the invariant.
LEMMA RefresherEndsIInv ==
    ASSUME IInv, SubmitEnds \/ RefresherQuits
    PROVE  IInv'
<1>1. N(Counted)' = N(Counted) /\ Refreshing' = Refreshing
  BY QueriesSame DEF SubmitEnds, RefresherQuits
<1>2. PICK pc \in {"idle", "ended"} : refresher' = [refresher EXCEPT !.pc = pc]
  BY DEF SubmitEnds, RefresherQuits
<1>3. TypeOK'
  BY <1>2 DEF IInv, TypeOK, SubmitEnds, RefresherQuits, counts
<1>4. refresher'.q = refresher.q /\ refresher.q = NoQuery
  BY <1>2 DEF IInv, TypeOK, Order, SubmitEnds, RefresherQuits
<1>5. Order'
  BY <1>2, <1>4 DEF IInv, TypeOK, Order, SubmitEnds, RefresherQuits
<1> QED
  BY <1>1, <1>3, <1>4, <1>5
  DEF IInv, SubmitEnds, RefresherQuits, counts, SemBalance, Taken, ActiveBalance, Answering,
      CallsOver, NoQueryAbandoned

-------------------------------------------------------------------------------
(* The processing thread's steps. *)

QptRecords ==
    [pc : {"top", "decrement", "asleep", "awake", "increment", "wait", "callback",
           "update", "ended"},
     q : Queries \cup {NoQuery}]

\* A step of the processing thread that changes neither the queries nor m_sem, and
\* lowers the count by as much as its new place says, preserves the invariant.
LEMMA ContinuesIInv ==
    ASSUME IInv, qpt.pc # "ended", NEW pc \in {"top", "decrement", "asleep", "awake",
                                "increment", "wait"}, Continues(pc),
           UNCHANGED <<query, mutex, cache, permits, refresher, main, shutdown>>,
           tokens' \in Nat, active' \in Int, excess' \in 0 .. MaxSignals,
           active' - excess' = active - excess + Is(qpt.pc, Lowers) - Is(pc, Lowers)
    PROVE  IInv'
<1>1. N(Counted)' = N(Counted) /\ Refreshing' = Refreshing
  BY QueriesSame
<1>2. qpt' = [qpt EXCEPT !.pc = pc] /\ hurried' = hurried
  BY DEF Continues
<1>3. qpt' \in QptRecords /\ qpt'.pc = pc
  BY <1>2 DEF IInv, TypeOK, QptRecords
<1>4. Is(qpt.pc, Lowers) \in {0, 1} /\ Is(pc, Lowers) \in {0, 1}
      /\ Is(main, Raises) \in {0, 1}
  BY DEF Is
<1>6. TypeOK'
  BY <1>2, <1>3 DEF IInv, TypeOK, QptRecords
<1>7. ActiveBalance'
  BY <1>1, <1>3, <1>4, CountTypes DEF IInv, TypeOK, ActiveBalance
<1>8. SemBalance' /\ Order' /\ CallsOver'
  BY <1>1, <1>3 DEF IInv, SemBalance, Taken, Order, CallsOver
<1>9. Answering' /\ NoQueryAbandoned'
  BY <1>3 DEF Answering, NoQueryAbandoned
<1> QED
  BY <1>6, <1>7, <1>8, <1>9 DEF IInv

\* When no query is counted while the cache is destroyed, none is under way.
LEMMA NoneLeft ==
    ASSUME IInv, shutdown, N(Counted) = 0
    PROVE  \A q \in Queries : query[q].st = "none"
<1>1. \A q \in Queries : query[q].st \notin Counted
  BY PlacesEmpty, DnsCacheAssumption DEF N, Stage
<1>2. refresher.q = NoQuery /\ main # "running"
  BY DEF IInv, Order
<1> QED
  BY <1>1, <1>2, DnsCacheAssumption DEF IInv, CallsOver, Counted

\* The processing thread that ends preserves the invariant: it has seen the count
\* without any query, unless the destructor has not raised it yet.
LEMMA EndsIInv ==
    ASSUME IInv, qpt.pc \in {"top", "awake"}, Ends, shutdown,
           UNCHANGED <<counts, query, mutex, cache, permits, refresher, main, shutdown>>,
           active = 1 - Is(qpt.pc, Lowers)
    PROVE  IInv'
<1>1. N(Counted)' = N(Counted) /\ Refreshing' = Refreshing
  BY QueriesSame
<1>2. /\ qpt' \in QptRecords /\ qpt'.pc = "ended"
      /\ hurried' = (main = "increment")
  BY DEF Ends, IInv, TypeOK, QptRecords
<1>3. TypeOK'
  BY <1>2 DEF IInv, TypeOK, QptRecords, counts
<1>4. SemBalance' /\ ActiveBalance' /\ Order' /\ Answering' /\ CallsOver'
  BY <1>1, <1>2
  DEF IInv, SemBalance, Taken, ActiveBalance, Order, Answering, CallsOver
<1>5. NoQueryAbandoned'
  <2> SUFFICES ASSUME main # "increment" PROVE \A q \in Queries : query[q].st = "none"
    BY <1>2 DEF NoQueryAbandoned
  <2>1. Is(main, Raises) = 1
    BY DEF IInv, TypeOK, Order, Is, Raises
  <2>2. Is(qpt.pc, Lowers) \in {0, 1}
    BY DEF Is
  <2>3. N(Counted) = 0
    BY <2>1, <2>2, CountTypes DEF IInv, TypeOK, ActiveBalance
  <2> QED
    BY <2>3, NoneLeft
<1> QED
  BY <1>3, <1>4, <1>5 DEF IInv

\* The places of the processing thread that lower the count.
LEMMA Lowered ==
    /\ \A pc \in {"top", "decrement", "wait", "callback"} : Is(pc, Lowers) = 0
    /\ \A pc \in {"asleep", "awake", "increment", "update"} : Is(pc, Lowers) = 1
BY DEF Is, Lowers

\* The reading of the count preserves the invariant.
LEMMA ReadCountIInv ==
    ASSUME IInv, ReadCount
    PROVE  IInv'
<1>1. qpt.pc = "top" /\ active \in Int /\ tokens \in Nat
      /\ excess \in 0 .. MaxSignals
  BY DEF ReadCount, At, IInv, TypeOK
<1>2. UNCHANGED <<counts, query, mutex, cache, permits, refresher, main, shutdown>>
  BY DEF ReadCount
<1>3. CASE shutdown /\ active = 1 /\ Ends
  BY <1>1, <1>2, <1>3, Lowered, EndsIInv
<1>4. CASE \E pc \in {"decrement", "wait"} : Continues(pc)
  <2>1. PICK pc \in {"decrement", "wait"} : Continues(pc)
    BY <1>4
  <2> QED
    BY <1>1, <1>2, <2>1, Lowered, ContinuesIInv DEF counts
<1> QED
  BY <1>3, <1>4 DEF ReadCount

\* The Decrement by which the thread waits for queries preserves the invariant.
LEMMA DecActiveIInv ==
    ASSUME IInv, DecActive
    PROVE  IInv'
<1>1. qpt.pc = "decrement" /\ active \in Int /\ tokens \in Nat
      /\ excess \in 0 .. MaxSignals
      /\ active' = active - 1 /\ tokens' = tokens /\ excess' = excess
  BY DEF DecActive, Decrement, At, IInv, TypeOK
<1>2. UNCHANGED <<query, mutex, cache, permits, refresher, main, shutdown>>
  BY DEF DecActive
<1>3. PICK pc \in {"asleep", "awake"} : Continues(pc)
  BY DEF DecActive
<1> QED
  BY <1>1, <1>2, <1>3, Lowered, ContinuesIInv

\* So does its wakeup.
LEMMA WakeUpIInv ==
    ASSUME IInv, WakeUp
    PROVE  IInv'
<1>1. /\ qpt.pc = "asleep"
      /\ active' - excess' = active - excess /\ active' \in Int /\ tokens' \in Nat
      /\ active \in Int /\ excess \in Nat /\ excess' \in 0 .. MaxSignals
  BY WaitEnds DEF WakeUp, At, IInv, TypeOK
<1>2. UNCHANGED <<query, mutex, cache, permits, refresher, main, shutdown>> /\ Continues("awake")
  BY DEF WakeUp
<1>3. Is(qpt.pc, Lowers) = 1 /\ Is("awake", Lowers) = 1
  BY <1>1, Lowered DEF Is
<1>4. active' - excess' = active - excess + Is(qpt.pc, Lowers) - Is("awake", Lowers)
  <2>1. active - excess + 1 - 1 = active - excess
    BY <1>1
  <2> QED
    BY <1>1, <1>3, <2>1
<1> QED
  BY <1>1, <1>2, <1>4, ContinuesIInv

\* So does what it decides then.
LEMMA AwakeIInv ==
    ASSUME IInv, Break \/ GoOn
    PROVE  IInv'
<1>1. qpt.pc = "awake" /\ active \in Int /\ tokens \in Nat
      /\ excess \in 0 .. MaxSignals
  BY DEF Break, GoOn, At, IInv, TypeOK
<1>2. UNCHANGED <<counts, query, mutex, cache, permits, refresher, main, shutdown>>
  BY DEF Break, GoOn
<1>3. CASE Break
  <2>1. shutdown /\ active = 0 /\ Ends
    BY <1>3 DEF Break
  <2> QED
    BY <1>1, <1>2, <2>1, Lowered, EndsIInv
<1>4. CASE GoOn
  <2>1. Continues("increment")
    BY <1>4 DEF GoOn
  <2> QED
    BY <1>1, <1>2, <2>1, Lowered, ContinuesIInv DEF counts
<1> QED
  BY <1>3, <1>4

\* So does the Increment that gives its count back.
LEMMA IncActiveIInv ==
    ASSUME IInv, IncActive
    PROVE  IInv'
<1>1. qpt.pc = "increment" /\ active \in Int
      /\ active' = active + 1 /\ tokens' \in Nat
      /\ excess \in 0 .. MaxSignals /\ excess' = excess
  BY DEF IncActive, Increment, At, IInv, TypeOK
<1>2. UNCHANGED <<query, mutex, cache, permits, refresher, main, shutdown>> /\ Continues("wait")
  BY DEF IncActive
<1> QED
  BY <1>1, <1>2, Lowered, ContinuesIInv

\* So does the return of wait_for_completion.
LEMMA NothingSentIInv ==
    ASSUME IInv, NothingSent
    PROVE  IInv'
<1>1. qpt.pc = "wait" /\ active \in Int /\ tokens \in Nat
      /\ excess \in 0 .. MaxSignals
  BY DEF NothingSent, At, IInv, TypeOK
<1>2. UNCHANGED <<counts, query, mutex, cache, permits, refresher, main, shutdown>>
      /\ Continues("top")
  BY DEF NothingSent
<1> QED
  BY <1>1, <1>2, Lowered, ContinuesIInv DEF counts

\* An answer that arrives preserves the invariant.
LEMMA ProcessIInv ==
    ASSUME IInv, NEW q \in Queries, Process(q)
    PROVE  IInv'
<1>1. query[q].st = "sent" /\ TypeOK /\ Goto(q, "answered") /\ qpt.pc = "wait"
      /\ qpt' = [pc |-> "callback", q |-> q]
  BY DEF Process, IInv, At
<1>2. /\ query' \in [Queries -> QueryRecords]
      /\ query'[q].st = "answered"
      /\ \A p \in Queries \ {q} : query'[p] = query[p]
      /\ N(Counted)' = N(Counted)
      /\ Refreshing' = Refreshing
  BY <1>1, GotoChanges, CountTypes DEF Is, Counted
<1>3. TypeOK'
  BY <1>1, <1>2 DEF TypeOK, Process, counts, QueryRecords
<1>4. Is(qpt'.pc, Lowers) = Is(qpt.pc, Lowers)
  BY <1>1, Lowered
<1>5. SemBalance' /\ ActiveBalance' /\ Answering'
  BY <1>1, <1>2, <1>4 DEF IInv, Process, counts, SemBalance, Taken, ActiveBalance, Answering
<1>6. Order' /\ CallsOver' /\ NoQueryAbandoned'
  BY <1>1, <1>2 DEF IInv, Process, Order, CallsOver, NoQueryAbandoned
<1> QED
  BY <1>3, <1>5, <1>6 DEF IInv

\* endQuery of an answered query preserves the invariant.
LEMMA EndQueryIInv ==
    ASSUME IInv, EndQuery
    PROVE  IInv'
<1>1. qpt.pc = "callback" /\ TypeOK /\ active' = active - 1 /\ tokens' = tokens
      /\ excess' = excess /\ Continues("update")
  BY DEF EndQuery, Decrement, At, IInv
<1>2. UNCHANGED <<query, mutex, cache, permits, refresher, main, shutdown>>
  BY DEF EndQuery
<1>3. N(Counted)' = N(Counted) /\ Refreshing' = Refreshing
  BY <1>2, QueriesSame
<1>4. qpt' \in QptRecords /\ qpt'.pc = "update" /\ qpt'.q = qpt.q /\ hurried' = hurried
  BY <1>1 DEF Continues, TypeOK, QptRecords
<1>5. TypeOK'
  BY <1>1, <1>2, <1>4 DEF TypeOK, QptRecords
<1>6. ActiveBalance'
  <2>1. Is(qpt.pc, Lowers) = 0 /\ Is(qpt'.pc, Lowers) = 1 /\ Is(main, Raises) \in {0, 1}
    BY <1>1, <1>4, Lowered DEF Is
  <2> QED
    BY <1>1, <1>2, <1>3, <1>4, <2>1, CountTypes DEF IInv, TypeOK, ActiveBalance
<1>7. SemBalance' /\ Order' /\ CallsOver' /\ Answering' /\ NoQueryAbandoned'
  BY <1>1, <1>2, <1>3, <1>4
  DEF IInv, SemBalance, Taken, Order, CallsOver, Answering, NoQueryAbandoned
<1> QED
  BY <1>5, <1>6, <1>7 DEF IInv

\* The end of an answered query preserves the invariant.
LEMMA CompleteIInv ==
    ASSUME IInv, Complete
    PROVE  IInv'
<1>1. qpt.pc = "update" /\ TypeOK /\ qpt' = [pc |-> "wait", q |-> NoQuery]
  BY DEF Complete, At, IInv
<1>2. PICK q \in Queries : q = qpt.q /\ query[q].st = "answered"
  BY <1>1 DEF IInv, Answering
<1>3. CallBack(q) /\ Done(q)
  BY <1>2 DEF Complete
<1>4. /\ query' \in [Queries -> QueryRecords]
      /\ query'[q].st = "none"
      /\ \A p \in Queries \ {q} : query'[p] = query[p]
      /\ N(Counted)' = N(Counted) - 1
  BY <1>1, <1>2, <1>3, DoneChanges, CountTypes DEF Is, Counted
<1>5. /\ SemBalance' /\ sem' \in Int /\ sem' <= MaxConcur + overdrawn'
      /\ semTokens' \in Nat /\ UNCHANGED <<permit, overdrawn>>
  BY <1>2, <1>3, CallBackBalance
<1>6. cache' \in [Domains -> {"none", "fresh", "expired"}]
  BY <1>1 DEF Complete, TypeOK
<1>7. TypeOK'
  BY <1>1, <1>4, <1>5, <1>6 DEF Complete, TypeOK, counts, QueryRecords
<1>8. ActiveBalance'
  <2>1. Is(qpt.pc, Lowers) = 1 /\ Is(qpt'.pc, Lowers) = 0 /\ Is(main, Raises) \in {0, 1}
    BY <1>1, Lowered DEF Is
  <2> QED
    BY <1>1, <1>4, <2>1, CountTypes DEF Complete, counts, IInv, TypeOK, ActiveBalance
<1>9. Order' /\ CallsOver' /\ Answering' /\ NoQueryAbandoned'
  BY <1>1, <1>4, <1>5
  DEF Complete, IInv, Order, CallsOver, Answering, NoQueryAbandoned
<1> QED
  BY <1>5, <1>7, <1>8, <1>9 DEF IInv

-------------------------------------------------------------------------------
(* The destructor's steps. *)

\* The start of the destructor preserves the invariant.
LEMMA DestroyIInv ==
    ASSUME IInv, Destroy
    PROVE  IInv'
<1>1. N(Counted)' = N(Counted) /\ Refreshing' = Refreshing
  BY QueriesSame DEF Destroy
<1>2. TypeOK'
  BY DEF IInv, TypeOK, Destroy, counts
<1>3. Is(main, Raises) = 0 /\ Is(main', Raises) = 0
  BY DEF Destroy, Is, Raises
<1>4. SemBalance' /\ ActiveBalance' /\ Answering' /\ NoQueryAbandoned'
  BY <1>1, <1>3
  DEF IInv, Destroy, counts, SemBalance, Taken, ActiveBalance, Answering, NoQueryAbandoned
<1>5. Order' /\ CallsOver'
  BY DEF IInv, Destroy, Order, CallsOver
<1> QED
  BY <1>2, <1>4, <1>5 DEF IInv

\* So does the flag of shutdown.
LEMMA SetShutdownIInv ==
    ASSUME IInv, SetShutdown
    PROVE  IInv'
<1>1. N(Counted)' = N(Counted) /\ Refreshing' = Refreshing
  BY QueriesSame DEF SetShutdown
<1>2. TypeOK'
  BY DEF IInv, TypeOK, SetShutdown, counts
<1>3. Is(main, Raises) = 0 /\ Is(main', Raises) = 0
  BY DEF SetShutdown, Is, Raises
<1>4. SemBalance' /\ ActiveBalance' /\ Answering' /\ NoQueryAbandoned'
  BY <1>1, <1>3
  DEF IInv, SetShutdown, counts, SemBalance, Taken, ActiveBalance, Answering, NoQueryAbandoned
<1>5. Order' /\ CallsOver'
  BY DEF IInv, SetShutdown, Order, CallsOver
<1> QED
  BY <1>2, <1>4, <1>5 DEF IInv

\* So does its Increment.
LEMMA ShutdownIncrementIInv ==
    ASSUME IInv, ShutdownIncrement
    PROVE  IInv'
<1>1. N(Counted)' = N(Counted) /\ Refreshing' = Refreshing
  BY QueriesSame DEF ShutdownIncrement
<1>2. /\ active' = active + 1 /\ tokens' \in Nat /\ excess' = excess
      /\ main = "increment" /\ main' = "join"
  BY DEF ShutdownIncrement, Increment, IInv, TypeOK
<1>3. TypeOK'
  BY <1>2 DEF IInv, TypeOK, ShutdownIncrement
<1>4. Is(main, Raises) = 0 /\ Is(main', Raises) = 1 /\ Is(qpt.pc, Lowers) \in {0, 1}
  BY <1>2 DEF Is, Raises
<1>5. ActiveBalance'
  BY <1>1, <1>2, <1>4, CountTypes DEF IInv, TypeOK, ShutdownIncrement, ActiveBalance
<1>6. SemBalance' /\ Answering' /\ NoQueryAbandoned' /\ Order' /\ CallsOver'
  BY <1>1, <1>2
  DEF IInv, ShutdownIncrement, SemBalance, Taken, Answering, NoQueryAbandoned, Order, CallsOver
<1> QED
  BY <1>3, <1>5, <1>6 DEF IInv

\* So do the join and the end of the destructor.
LEMMA JoinGoneIInv ==
    ASSUME IInv, Join \/ Gone
    PROVE  IInv'
<1>1. N(Counted)' = N(Counted) /\ Refreshing' = Refreshing
  BY QueriesSame DEF Join, Gone
<1>2. /\ main \in {"join", "destroyed"} /\ main' \in {"destroyed", "gone"}
      /\ UNCHANGED <<counts, query, mutex, cache, permits, refresher, qpt, shutdown, hurried>>
      /\ qpt.pc = "ended"
  BY DEF Join, Gone, At, IInv, Order
<1>3. TypeOK'
  BY <1>2 DEF IInv, TypeOK, counts
<1> QED
  BY <1>1, <1>2, <1>3
  DEF IInv, SemBalance, Taken, ActiveBalance, Answering, NoQueryAbandoned, Order, CallsOver

\* So does the callback of a query that ares_destroy ends.
LEMMA AresDestroyIInv ==
    ASSUME IInv, NEW q \in Queries, AresDestroy(q)
    PROVE  IInv'
<1>1. /\ query[q].st = "sent" /\ TypeOK /\ CallBack(q) /\ Done(q) /\ main = "destroyed"
      /\ active' = active - 1 /\ tokens' = tokens /\ excess' = excess
      /\ qpt.pc = "ended"
  BY DEF AresDestroy, Decrement, IInv, Order
<1>2. /\ query' \in [Queries -> QueryRecords]
      /\ query'[q].st = "none"
      /\ \A p \in Queries \ {q} : query'[p] = query[p]
  BY <1>1, DoneChanges
<1>3. /\ SemBalance' /\ sem' \in Int /\ sem' <= MaxConcur + overdrawn'
      /\ semTokens' \in Nat /\ UNCHANGED <<permit, overdrawn>>
  BY <1>1, CallBackBalance
<1>4. TypeOK'
  BY <1>1, <1>2, <1>3 DEF TypeOK, AresDestroy, QueryRecords
<1>5. ActiveBalance' /\ Answering'
  BY <1>1 DEF AresDestroy, ActiveBalance, Answering
<1>6. Order' /\ CallsOver' /\ NoQueryAbandoned'
  BY <1>1, <1>2, <1>3 DEF IInv, AresDestroy, Order, CallsOver, NoQueryAbandoned
<1> QED
  BY <1>3, <1>4, <1>5, <1>6 DEF IInv

-------------------------------------------------------------------------------
\* Every step of the specification preserves the invariant.
LEMMA NextIInv == IInv /\ [Next]_vars => IInv'
<1> SUFFICES ASSUME IInv, [Next]_vars PROVE IInv'
  OBVIOUS
<1>1. ASSUME NEW q \in Queries, NEW d \in Domains,
             \E kind \in {"async", "sync"} : Query(q, kind, d)
      PROVE  IInv'
  BY <1>1, QueryIInv
<1>8. CASE LoadDecrement \/ Loader
  BY <1>8, DecrementSemIInv, SemReturnsIInv, LoadCachedIInv, LoadQueryIInv
  DEF Loader, Users
<1>2. ASSUME NEW q \in Queries, Caller(q) \/ Process(q)
      PROVE  IInv'
  BY <1>2, AresQueryIInv, EndFailedIInv, WakeFailedIInv, CompleteFailedIInv, ProcessIInv
  DEF Caller
<1>3. CASE (\E d \in Domains : Expire(d)) \/ Refresh
  BY <1>3, ExpireIInv, RefreshIInv
<1>4. CASE Refresher
  BY <1>4, DecrementSemIInv, SemReturnsIInv, SubmitIInv, RefresherEndsIInv
  DEF Refresher, Users
<1>5. CASE ThreadProc
  BY <1>5, ReadCountIInv, DecActiveIInv, WakeUpIInv, AwakeIInv, IncActiveIInv,
     NothingSentIInv, EndQueryIInv, CompleteIInv DEF ThreadProc
<1>6. CASE Destroy \/ Destructor
  BY <1>6, DestroyIInv, SetShutdownIInv, ShutdownIncrementIInv, JoinGoneIInv,
     AresDestroyIInv DEF Destructor
<1>7. CASE UNCHANGED vars
  BY <1>7
  DEF vars, counts, IInv, TypeOK, SemBalance, Taken, ActiveBalance, Order, Answering, CallsOver,
      NoQueryAbandoned, N, Refreshing, Stage, KindOf, Kind
<1> QED
  BY <1>1, <1>2, <1>3, <1>4, <1>5, <1>6, <1>7, <1>8 DEF Next

\* The counts of the cache are true in every reachable state.
THEOREM CountsTrue == Spec => []IInv
BY InitIInv, NextIInv, PTL DEF Spec

\* The refresher's semaphore stays within its limit, but for what broken waits gave back
\* on behalf of queries that were submitted all the same, and the rest is within its
\* type (dnscache.cpp 683, 769, 638-642).
THEOREM TypeCorrect == Spec => []TypeOK
<1>1. IInv => TypeOK
  BY DEF IInv
<1> QED
  BY <1>1, CountsTrue, PTL

\* m_sem holds what the queries of the refresher under way have left of m_concur, and
\* one more for every wait that a signal broke: each path of success, failure and
\* timeout gives the count back exactly once, whether it had a permit or not.
THEOREM RefresherCountsBalance == Spec => []SemBalance
<1>1. IInv => SemBalance
  BY DEF IInv
<1> QED
  BY <1>1, CountsTrue, PTL

\* The processing thread ends only when no query is under way, unless it read the
\* count between the two statements of shutdown.
THEOREM NoneAbandoned == Spec => []NoQueryAbandoned
<1>1. IInv => NoQueryAbandoned
  BY DEF IInv
<1> QED
  BY <1>1, CountsTrue, PTL
===============================================================================
