--------------------------- MODULE ETimerPoolProofs ---------------------------
(***************************************************************************)
(* The safety of ETimerPool, proved for any number of timers and           *)
(* registrations, any durations, resolution and rounding, any bound of the *)
(* clock and any size of the queue that is notified.                       *)
(***************************************************************************)
EXTENDS ETimerPool, CountingLemmas, SequenceTheorems

\* An armed timer is armed for its entry, and an entry for no time earlier than its
\* registrations allow.
Armed ==
    /\ \A t \in Timers : timer[t].at # Off => timer[t].at = timer[t].etep
    /\ \A i \in DOMAIN etidmap : etidmap[i] >= NotBefore(i)

\* A signal that is not left from an earlier use of its timer is not early.
Fresh ==
    \A t \in Timers \ stale :
        t \in Range(signals) \/ InHand(t) => timer[t].etep <= now

\* The pool's thread handles a timer exactly when it has taken its signal; while it
\* sends there is an entry, due unless the signal is stale.
PoolThreadOK ==
    /\ pool.timer \in Timers <=> pool.pc \in {"signalled", "sending"}
    /\ pool.pc = "sending" =>
          /\ crashed = "nullEntry" => pool.stale
          /\ Alive => timer[pool.timer].etep # None
          /\ ~pool.stale => timer[pool.timer].etep <= now
    /\ crashed = "nullEntry" => pool.pc = "sending"

\* uninit goes on to join the thread only when no registration is left.
UninitOrder ==
    /\ uninit.pc \in {"join", "done"} => DOMAIN etidmap = {}
    /\ uninit.pc = "done" => pool.pc = "exited"

\* The inductive invariant.
IInv ==
    /\ TypeOK
    /\ MapsAgree
    /\ EntriesCovered
    /\ Armed
    /\ Fresh
    /\ PoolThreadOK
    /\ UninitOrder

-------------------------------------------------------------------------------
(* Sequences and numbers. *)

\* Append adds one element to the range.
LEMMA RangeAppend ==
    ASSUME NEW S, NEW q \in Seq(S), NEW e \in S
    PROVE  Range(Append(q, e)) = Range(q) \cup {e}
<1> DEFINE r == Append(q, e)
<1>1. /\ DOMAIN r = 1 .. Len(q) + 1
      /\ DOMAIN q = 1 .. Len(q) /\ Len(q) \in Nat
      /\ \A k \in 1 .. Len(q) : r[k] = q[k]
      /\ r[Len(q) + 1] = e
  BY AppendFacts
<1> HIDE DEF r
<1>2. Len(q) + 1 \in DOMAIN r /\ DOMAIN q \subseteq DOMAIN r
  BY <1>1
<1>3. \A k \in DOMAIN r : k \in DOMAIN q \/ k = Len(q) + 1
  BY <1>1
<1>4. Range(r) = Range(q) \cup {e}
  BY <1>1, <1>2, <1>3 DEF Range
<1> QED
  BY <1>4 DEF r

\* Tail takes the head from the range, if it is not there twice.
LEMMA RangeTail ==
    ASSUME NEW S, NEW q \in Seq(S), q # << >>
    PROVE  /\ Range(q) = Range(Tail(q)) \cup {Head(q)}
           /\ IsInjective(q) => IsInjective(Tail(q)) /\ Head(q) \notin Range(Tail(q))
<1> DEFINE r == Tail(q)
<1>1. /\ Len(q) \in Nat \ {0} /\ DOMAIN q = 1 .. Len(q)
      /\ DOMAIN r = 1 .. Len(q) - 1
      /\ \A k \in 1 .. Len(q) - 1 : r[k] = q[k + 1]
      /\ Head(q) = q[1]
  BY TailFacts
<1> HIDE DEF r
<1>2. \A k \in DOMAIN r : k \in Int /\ k + 1 \in DOMAIN q /\ k + 1 # 1 /\ r[k] = q[k + 1]
  BY <1>1
<1>3. \A k \in DOMAIN q : k = 1 \/ (k - 1 \in DOMAIN r /\ r[k - 1] = q[k])
  BY <1>1
<1>4. 1 \in DOMAIN q
  BY <1>1
<1>5. Range(q) = Range(r) \cup {Head(q)}
  BY <1>1, <1>2, <1>3, <1>4 DEF Range
<1>6. ASSUME IsInjective(q)
      PROVE  IsInjective(r) /\ Head(q) \notin Range(r)
  <2>1. \A j, k \in DOMAIN r : r[j] = r[k] => j = k
    BY <1>2, <1>6 DEF IsInjective
  <2>2. \A k \in DOMAIN r : r[k] # q[1]
    BY <1>2, <1>4, <1>6 DEF IsInjective
  <2> QED
    BY <1>1, <2>1, <2>2 DEF IsInjective, Range
<1> QED
  BY <1>5, <1>6 DEF r

\* Append keeps a list without repetitions, when the element is new.
LEMMA InjectiveAppend ==
    ASSUME NEW S, NEW q \in Seq(S), NEW e \in S, IsInjective(q), e \notin Range(q)
    PROVE  IsInjective(Append(q, e))
<1> DEFINE r == Append(q, e)
<1>1. /\ DOMAIN r = 1 .. Len(q) + 1
      /\ DOMAIN q = 1 .. Len(q) /\ Len(q) \in Nat
      /\ \A k \in 1 .. Len(q) : r[k] = q[k]
      /\ r[Len(q) + 1] = e
  BY AppendFacts
<1> HIDE DEF r
<1>2. \A k \in DOMAIN r : (k \in DOMAIN q /\ r[k] = q[k]) \/ (k = Len(q) + 1 /\ r[k] = e)
  BY <1>1
<1>3. \A k \in DOMAIN q : q[k] # e
  BY DEF Range
<1>4. \A j, k \in DOMAIN r : r[j] = r[k] => j = k
  BY <1>2, <1>3 DEF IsInjective
<1> QED
  BY <1>4 DEF IsInjective, r

\* A time rounded down is early by less than the resolution, and one rounded up is
\* not early.
LEMMA Rounding ==
    ASSUME NEW x \in Nat, NEW r \in Nat \ {0}
    PROVE  /\ x \div r \in Nat
           /\ (x \div r) * r \in Nat /\ (x \div r) * r >= x - (r - 1)
           /\ (x \div r + 1) * r \in Nat /\ (x \div r + 1) * r >= x
<1> DEFINE d == x \div r
<1>1. d \in Nat /\ d * r <= x /\ d * r > x - r
  <2>1. d \in Int
    BY SMT
  <2>2. d * r <= x
    BY SMT
  <2>3. d * r > x - r
    BY SMT
  <2>4. d >= 0
    BY SMT
  <2> QED
    BY <2>1, <2>2, <2>3, <2>4
<1> HIDE DEF d
<1>2. (d + 1) * r = d * r + r /\ d * r \in Nat
  BY <1>1
<1> QED
  BY <1>1, <1>2 DEF d

\* Dropping the k-th signal keeps all others.
LEMMA DropSignalFacts ==
    ASSUME signals \in Seq(Timers), NEW k \in DOMAIN signals
    PROVE  /\ DropSignal(k) \in Seq(Timers)
           /\ Range(DropSignal(k)) \subseteq Range(signals)
           /\ Range(signals) \subseteq Range(DropSignal(k)) \cup {signals[k]}
<1> DEFINE n == Len(signals)
           a == SubSeq(signals, 1, k - 1)
           b == SubSeq(signals, k + 1, n)
<1>1. n \in Nat /\ DOMAIN signals = 1 .. n /\ k \in 1 .. n
  OBVIOUS
<1>2. /\ a \in Seq(Timers) /\ Len(a) = k - 1
      /\ \A j \in 1 .. k - 1 : a[j] = signals[j]
  BY <1>1
<1>3. /\ b \in Seq(Timers) /\ Len(b) = n - k
      /\ \A j \in 1 .. n - k : b[j] = signals[j + k]
  BY <1>1
<1> DEFINE r == a \o b
<1> HIDE DEF a, b, n
<1>4. /\ r \in Seq(Timers) /\ DOMAIN r = 1 .. n - 1
      /\ \A j \in 1 .. n - 1 :
            /\ j < k => r[j] = a[j]
            /\ ~(j < k) => r[j] = b[j - (k - 1)]
  <2>1. /\ r \in Seq(Timers) /\ Len(r) = Len(a) + Len(b)
        /\ \A j \in 1 .. Len(a) + Len(b) :
              r[j] = IF j <= Len(a) THEN a[j] ELSE b[j - Len(a)]
    BY <1>2, <1>3, ConcatProperties
  <2>2. Len(a) + Len(b) = n - 1 /\ DOMAIN r = 1 .. Len(r)
    BY <1>1, <1>2, <1>3, <2>1
  <2>3. \A j \in 1 .. n - 1 : j < k <=> j <= Len(a)
    BY <1>1, <1>2
  <2> HIDE DEF r
  <2> QED
    BY <1>2, <2>1, <2>2, <2>3
<1>5. \A j \in DOMAIN r : \E l \in DOMAIN signals : r[j] = signals[l]
  <2> SUFFICES ASSUME NEW j \in DOMAIN r
               PROVE  \E l \in DOMAIN signals : r[j] = signals[l]
    OBVIOUS
  <2>1. CASE j < k
    <3>1. j \in 1 .. k - 1 /\ j \in 1 .. n /\ j \in 1 .. n - 1
      BY <1>1, <1>4, <2>1
    <3> QED
      BY <1>1, <1>2, <1>4, <2>1, <3>1
  <2>2. CASE j >= k
    <3>1. j - (k - 1) \in 1 .. n - k /\ j + 1 = (j - (k - 1)) + k /\ j + 1 \in 1 .. n
      BY <1>1, <1>4, <2>2
    <3>2. r[j] = b[j - (k - 1)] /\ b[j - (k - 1)] = signals[j + 1]
      <4>1. ~(j < k) /\ j \in 1 .. n - 1
        BY <1>1, <1>4, <2>2
      <4> QED
        BY <1>3, <1>4, <3>1, <4>1
    <3> QED
      BY <1>1, <3>1, <3>2
  <2> QED
    BY <1>1, <1>4, <2>1, <2>2
<1>6. \A l \in DOMAIN signals : l # k => \E j \in DOMAIN r : r[j] = signals[l]
  <2> SUFFICES ASSUME NEW l \in DOMAIN signals, l # k
               PROVE  \E j \in DOMAIN r : r[j] = signals[l]
    OBVIOUS
  <2>1. CASE l < k
    BY <1>1, <1>2, <1>4, <2>1
  <2>2. CASE l > k
    <3>1. /\ l - 1 \in DOMAIN r /\ ~(l - 1 < k)
          /\ (l - 1) - (k - 1) = l - k /\ l - k \in 1 .. n - k /\ (l - k) + k = l
      BY <1>1, <1>4, <2>2
    <3> QED
      BY <1>3, <1>4, <3>1
  <2> QED
    BY <1>1, <2>1, <2>2
<1> HIDE DEF r
<1>7. Range(r) \subseteq Range(signals) /\ Range(signals) \subseteq Range(r) \cup {signals[k]}
  BY <1>5, <1>6 DEF Range
<1> QED
  BY <1>4, <1>7 DEF DropSignal, r, a, b, n

-------------------------------------------------------------------------------
(* The types. *)

EntryRecords == [entries : SUBSET Ids, timer : Timers]
TimerRecords == [at : Times \cup {Off}, etep : Times \cup {None}]
PoolRecords ==
    [pc : {"wait", "signalled", "sending", "exited"}, timer : Timers \cup {NoTimer},
     stale : BOOLEAN]
UninitRecords ==
    [pc : {"running", "test", "first", "unregister", "join", "done"}, id : Ids \cup {0}]
Fates == {"unused", "registered", "notified", "unregistered"}

MapType ==
    /\ DOMAIN etmap \subseteq Times
    /\ \A et \in DOMAIN etmap : etmap[et] \in EntryRecords
    /\ DOMAIN etidmap \subseteq Ids
    /\ \A i \in DOMAIN etidmap : etidmap[i] \in Times
    /\ fate \in [Ids -> Fates] /\ due \in [Ids -> Nat]
TimerType ==
    /\ timer \in [Timers -> TimerRecords]
    /\ freetimers \in Seq(Timers) /\ signals \in Seq(Timers) /\ stale \subseteq Timers
PoolType == now \in Times /\ pool \in PoolRecords
RestType ==
    /\ queue \in Seq(Ids) /\ Len(queue) <= QueueSize
    /\ handler \in {"idle", "calling"} /\ uninit \in UninitRecords
    /\ crashed \in {"no", "nullEntry", "endIterator"}

\* TypeOK is all of them, now and in the next state.
LEMMA TypeParts ==
    /\ TypeOK <=> MapType /\ TimerType /\ PoolType /\ RestType
    /\ TypeOK' <=> MapType' /\ TimerType' /\ PoolType' /\ RestType'
<1>1. /\ Range(etidmap) \subseteq Times <=> \A i \in DOMAIN etidmap : etidmap[i] \in Times
      /\ Range(etidmap)' \subseteq Times <=> \A i \in DOMAIN etidmap' : etidmap'[i] \in Times
  BY DEF Range
<1> QED
  BY <1>1 DEF TypeOK, MapType, TimerType, PoolType, RestType, EntryRecords, TimerRecords,
              PoolRecords, UninitRecords, Fates, Times, Ids, Off, None

\* What the assumptions on the constants say, one fact at a time.
LEMMA Constants ==
    /\ MaxTime \in Nat /\ Times \subseteq Nat /\ 0 \in Times
    /\ \A x \in Times : x <= MaxTime
    /\ None = MaxTime + 1 /\ Off = MaxTime + 2 /\ None \notin Times /\ Off \notin Times
    /\ NoTimer \notin Timers /\ Durations \subseteq Nat /\ Resolution \in Nat \ {0}
    /\ RoundUp \in BOOLEAN /\ QueueSize \in Nat \ {0} /\ 0 \notin Ids
BY TimerPoolAssumption DEF Times, None, Off, Ids

\* The part of the invariant about the maps, the timers and their signals.
Data ==
    /\ MapType /\ TimerType
    /\ MapsAgree
    /\ EntriesCovered
    /\ Armed
    /\ Fresh

\* The ids of the two maps agree.
IdsAgree ==
    /\ DOMAIN etidmap = {i \in Ids : fate[i] = "registered"}
    /\ \A i \in Ids, et \in Times :
          (i \in DOMAIN etidmap /\ etidmap[i] = et)
             <=> (et \in DOMAIN etmap /\ i \in etmap[et].entries)

\* The entries and the timers point to each other.
TimersAgree ==
    /\ \A et \in DOMAIN etmap :
          /\ timer[etmap[et].timer].etep = et
          /\ etmap[et].entries = {} => Sending(et)
    /\ \A t \in Timers : timer[t].etep # None =>
          timer[t].etep \in DOMAIN etmap /\ etmap[timer[t].etep].timer = t

\* The free timers.
FreeAgree ==
    /\ IsInjective(freetimers)
    /\ \A t \in Range(freetimers) : timer[t] = [at |-> Off, etep |-> None]

\* MapsAgree is all of them, now and in the next state.
LEMMA MapsParts ==
    /\ MapsAgree <=> IdsAgree /\ TimersAgree /\ FreeAgree
    /\ MapsAgree' <=> IdsAgree' /\ TimersAgree' /\ FreeAgree'
BY DEF MapsAgree, IdsAgree, TimersAgree, FreeAgree

-------------------------------------------------------------------------------
(* The helpers of the actions. *)

\* timer_settime changes one timer; a signal of it that may still come is stale.
LEMMA SettimeFacts ==
    ASSUME TimerType, NEW t \in Timers, NEW at, NEW etep, Settime(t, at, etep),
           at \in Times \cup {Off}, etep \in Times \cup {None}
    PROVE  /\ timer' \in [Timers -> TimerRecords]
           /\ timer'[t] = [at |-> at, etep |-> etep]
           /\ timer'[t].at = at /\ timer'[t].etep = etep
           /\ \A u \in Timers \ {t} : timer'[u] = timer[u]
           /\ signals' \in Seq(Timers)
           /\ Range(signals') \subseteq Range(signals)
           /\ Range(signals) \subseteq Range(signals') \cup {t}
           /\ stale' \subseteq Timers
           /\ \A u \in Timers \ {t} : u \in stale' <=> u \in stale
           /\ t \in Range(signals') \/ InHand(t) => t \in stale'
<1> DEFINE r == [at |-> at, etep |-> etep]
<1>1. r \in TimerRecords /\ r.at = at /\ r.etep = etep
  BY DEF TimerRecords
<1>2. timer' = [timer EXCEPT ![t] = r]
  BY DEF Settime
<1> HIDE DEF r
<1>3. /\ timer' \in [Timers -> TimerRecords] /\ timer'[t] = r
      /\ \A u \in Timers \ {t} : timer'[u] = timer[u]
  BY <1>1, <1>2 DEF TimerType
<1>4. /\ signals' \in Seq(Timers)
      /\ Range(signals') \subseteq Range(signals)
      /\ Range(signals) \subseteq Range(signals') \cup {t}
  <2>1. CASE UNCHANGED signals
    BY <2>1 DEF TimerType
  <2>2. CASE \E k \in DOMAIN signals : signals[k] = t /\ signals' = DropSignal(k)
    <3>1. PICK k \in DOMAIN signals : signals[k] = t /\ signals' = DropSignal(k)
      BY <2>2
    <3> QED
      BY <3>1, DropSignalFacts DEF TimerType
  <2> QED
    BY <2>1, <2>2 DEF Settime
<1>5. stale' = IF t \in Range(signals') \/ InHand(t) THEN stale \cup {t} ELSE stale \ {t}
  BY DEF Settime
<1> QED
  BY <1>1, <1>3, <1>4, <1>5 DEF TimerType, r

\* What a new registration changes in the maps.
LEMMA AddEntryFacts ==
    ASSUME MapType, IdsAgree, now \in Nat, NEW i \in Ids, NEW ms \in Nat, NEW et \in Times,
           NEW t \in Timers, fate[i] = "unused", AddEntry(i, ms, et, t)
    PROVE  /\ MapType' /\ IdsAgree'
           /\ DOMAIN etmap' = DOMAIN etmap \cup {et}
           /\ etmap'[et].timer = t /\ etmap'[et].entries # {}
           /\ \A e \in DOMAIN etmap \ {et} : etmap'[e] = etmap[e]
           /\ DOMAIN etidmap' = DOMAIN etidmap \cup {i} /\ etidmap'[i] = et
           /\ i \notin DOMAIN etidmap
           /\ \A j \in DOMAIN etidmap : etidmap'[j] = etidmap[j] /\ due'[j] = due[j]
           /\ due'[i] = now + ms
<1> DEFINE old == IF et \in DOMAIN etmap THEN etmap[et].entries ELSE {}
           r == [entries |-> {i} \cup old, timer |-> t]
<1>1. i \notin DOMAIN etidmap /\ i \notin old
  BY DEF IdsAgree
<1>2. old \subseteq Ids
  BY DEF MapType, EntryRecords
<1>3. r \in EntryRecords /\ r.entries = {i} \cup old /\ r.timer = t
  BY <1>2 DEF EntryRecords
<1>4. etmap' = Put(etmap, et, r) /\ etidmap' = Put(etidmap, i, et)
  BY DEF AddEntry
<1>5. \A j \in Ids : j \in old <=> et \in DOMAIN etmap /\ j \in etmap[et].entries
  OBVIOUS
<1> HIDE DEF r, old
<1>6. /\ DOMAIN etmap' = DOMAIN etmap \cup {et} /\ etmap'[et] = r
      /\ \A e \in DOMAIN etmap \ {et} : etmap'[e] = etmap[e]
  BY <1>4 DEF Put
<1>7. /\ DOMAIN etidmap' = DOMAIN etidmap \cup {i} /\ etidmap'[i] = et
      /\ \A j \in DOMAIN etidmap : etidmap'[j] = etidmap[j]
  BY <1>1, <1>4 DEF Put
<1>8. /\ fate' \in [Ids -> Fates] /\ fate'[i] = "registered"
      /\ \A j \in Ids \ {i} : fate'[j] = fate[j]
  BY DEF AddEntry, MapType, Fates
<1>9. /\ due' \in [Ids -> Nat] /\ due'[i] = now + ms
      /\ \A j \in Ids \ {i} : due'[j] = due[j]
  BY DEF AddEntry, MapType
<1>10. MapType'
  BY <1>3, <1>6, <1>7, <1>8, <1>9 DEF MapType
<1>11. IdsAgree'
  <2>1. DOMAIN etidmap' = {j \in Ids : fate'[j] = "registered"}
    BY <1>7, <1>8 DEF IdsAgree
  <2>2. ASSUME NEW j \in Ids, NEW e \in Times
        PROVE  (j \in DOMAIN etidmap' /\ etidmap'[j] = e)
                  <=> (e \in DOMAIN etmap' /\ j \in etmap'[e].entries)
    <3>1. CASE j = i
      BY <1>1, <1>3, <1>5, <1>6, <1>7, <3>1 DEF IdsAgree
    <3>2. CASE j # i
      BY <1>1, <1>3, <1>5, <1>6, <1>7, <3>2 DEF IdsAgree
    <3> QED
      BY <3>1, <3>2
  <2> QED
    BY <2>1, <2>2 DEF IdsAgree
<1> QED
  BY <1>1, <1>3, <1>6, <1>7, <1>9, <1>10, <1>11 DEF MapType

\* The time at which a registration expires is not early.
LEMMA ExpireNotBefore ==
    ASSUME now \in Nat, NEW ms \in Nat
    PROVE  /\ ExpireTime(ms) \in Nat
           /\ ExpireTime(ms) >= (now + ms) - (IF RoundUp THEN 0 ELSE Resolution - 1)
<1>0. PICK x \in Nat : x = now + ms
  OBVIOUS
<1>1. x \in Nat /\ Resolution \in Nat \ {0} /\ RoundUp \in BOOLEAN
  BY Constants
<1>2. ExpireTime(ms) = (x \div Resolution + (IF RoundUp THEN 1 ELSE 0)) * Resolution
  BY <1>0 DEF ExpireTime
<1>3. /\ x \div Resolution \in Nat
      /\ (x \div Resolution) * Resolution \in Nat
      /\ (x \div Resolution) * Resolution >= x - (Resolution - 1)
      /\ (x \div Resolution + 1) * Resolution \in Nat
      /\ (x \div Resolution + 1) * Resolution >= x
  BY <1>1, Rounding
<1>4. ExpireTime(ms) \in Nat /\ ExpireTime(ms) >= x - (IF RoundUp THEN 0 ELSE Resolution - 1)
  <2>1. CASE RoundUp
    <3>1. ExpireTime(ms) = (x \div Resolution + 1) * Resolution
      BY <1>2, <2>1
    <3> QED
      BY <1>1, <1>3, <2>1, <3>1
  <2>2. CASE ~RoundUp
    <3>1. ExpireTime(ms) = (x \div Resolution) * Resolution
      BY <1>2, <1>3, <2>2
    <3> QED
      BY <1>1, <1>3, <2>2, <3>1
  <2> QED
    BY <2>1, <2>2
<1> QED
  BY <1>0, <1>4

\* Taking an id from both maps keeps them in agreement.
LEMMA DropIdFacts ==
    ASSUME MapType, IdsAgree, NEW i \in DOMAIN etidmap, NEW f \in {"notified", "unregistered"},
           etidmap' = Drop(etidmap, i), fate' = [fate EXCEPT ![i] = f], UNCHANGED due,
           DOMAIN etmap' \subseteq DOMAIN etmap,
           \A e \in DOMAIN etmap' :
              /\ etmap'[e] \in EntryRecords
              /\ etmap'[e].entries = etmap[e].entries \ {i},
           \A e \in DOMAIN etmap \ DOMAIN etmap' : etmap[e].entries \subseteq {i}
    PROVE  /\ MapType' /\ IdsAgree'
           /\ DOMAIN etidmap' = DOMAIN etidmap \ {i}
           /\ \A j \in DOMAIN etidmap' : etidmap'[j] = etidmap[j]
<1>1. /\ DOMAIN etidmap' = DOMAIN etidmap \ {i}
      /\ \A j \in DOMAIN etidmap' : etidmap'[j] = etidmap[j]
  BY DEF Drop, Restrict
<1>2. i \in Ids /\ f \in Fates /\ f # "registered"
  BY DEF MapType, Fates
<1>3. /\ fate' \in [Ids -> Fates] /\ fate'[i] = f
      /\ \A j \in Ids \ {i} : fate'[j] = fate[j]
  BY <1>2 DEF MapType
<1>4. MapType'
  BY <1>1, <1>3 DEF MapType
<1>5. IdsAgree'
  <2>1. DOMAIN etidmap' = {j \in Ids : fate'[j] = "registered"}
    BY <1>1, <1>2, <1>3 DEF IdsAgree
  <2>2. ASSUME NEW j \in Ids, NEW e \in Times
        PROVE  (j \in DOMAIN etidmap' /\ etidmap'[j] = e)
                  <=> (e \in DOMAIN etmap' /\ j \in etmap'[e].entries)
    BY <1>1 DEF IdsAgree
  <2> QED
    BY <2>1, <2>2 DEF IdsAgree
<1> QED
  BY <1>1, <1>4, <1>5

\* Removing an entry frees its timer and leaves the others as they are.
LEMMA RemoveEntryFacts ==
    ASSUME MapType, TimerType, TimersAgree, FreeAgree, EntriesCovered, Fresh, UNCHANGED now,
           \A t \in Timers : timer[t].at # Off => timer[t].at = timer[t].etep,
           NEW et \in DOMAIN etmap, RemoveExpirationTimeEntry(et),
           \A e \in DOMAIN etmap \ {et} : etmap[e].entries # {},
           \A u \in Timers : InHand(u)' => InHand(u),
           \A u \in Timers : u # etmap[et].timer /\ pool.timer = u => pool'.timer = u
    PROVE  /\ TimerType' /\ TimersAgree' /\ FreeAgree' /\ EntriesCovered' /\ Fresh'
           /\ \A t \in Timers : timer'[t].at # Off => timer'[t].at = timer'[t].etep
           /\ DOMAIN etmap' = DOMAIN etmap \ {et}
           /\ \A e \in DOMAIN etmap' : etmap'[e] = etmap[e]
<1> DEFINE t == etmap[et].timer
<1>1. t \in Timers /\ timer[t].etep = et /\ et \in Times /\ et # None
  BY Constants DEF MapType, EntryRecords, TimersAgree
<1>2. /\ DOMAIN etmap' = DOMAIN etmap \ {et}
      /\ \A e \in DOMAIN etmap' : etmap'[e] = etmap[e]
  BY DEF RemoveExpirationTimeEntry, Drop, Restrict
<1>3. Settime(t, Off, None) /\ freetimers' = Append(freetimers, t)
  BY DEF RemoveExpirationTimeEntry
<1> HIDE DEF t
<1>4. /\ timer' \in [Timers -> TimerRecords]
      /\ timer'[t] = [at |-> Off, etep |-> None]
      /\ timer'[t].at = Off /\ timer'[t].etep = None
      /\ \A u \in Timers \ {t} : timer'[u] = timer[u]
      /\ signals' \in Seq(Timers)
      /\ Range(signals') \subseteq Range(signals)
      /\ Range(signals) \subseteq Range(signals') \cup {t}
      /\ stale' \subseteq Timers
      /\ \A u \in Timers \ {t} : u \in stale' <=> u \in stale
      /\ t \in Range(signals') \/ InHand(t) => t \in stale'
  BY <1>1, <1>3, SettimeFacts
<1>5. t \notin Range(freetimers)
  BY <1>1 DEF FreeAgree
<1>6. /\ freetimers' \in Seq(Timers)
      /\ Range(freetimers') = Range(freetimers) \cup {t}
      /\ IsInjective(freetimers')
  BY <1>1, <1>3, <1>5, AppendFacts, RangeAppend, InjectiveAppend DEF FreeAgree, TimerType
<1>7. \A u \in Range(freetimers) : u \in Timers
  BY DEF Range, TimerType
<1>8. TimerType'
  BY <1>4, <1>6 DEF TimerType
<1>9. FreeAgree'
  BY <1>4, <1>5, <1>6, <1>7 DEF FreeAgree
<1>10. \A e \in DOMAIN etmap' :
          /\ etmap[e].timer \in Timers \ {t} /\ timer[etmap[e].timer].etep = e
          /\ etmap'[e] = etmap[e] /\ e \in DOMAIN etmap /\ etmap[e].entries # {}
          /\ timer'[etmap[e].timer] = timer[etmap[e].timer]
  BY <1>1, <1>2, <1>4 DEF MapType, EntryRecords, TimersAgree
<1>11. TimersAgree'
  <2>1. ASSUME NEW u \in Timers, timer'[u].etep # None
        PROVE  timer'[u].etep \in DOMAIN etmap' /\ etmap'[timer'[u].etep].timer = u
    <3>1. u # t /\ timer'[u] = timer[u]
      BY <1>4, <2>1
    <3>2. timer[u].etep \in DOMAIN etmap /\ etmap[timer[u].etep].timer = u
      BY <2>1, <3>1 DEF TimersAgree
    <3>3. timer[u].etep # et
      BY <3>1, <3>2 DEF t
    <3> QED
      BY <1>2, <3>1, <3>2, <3>3
  <2> QED
    BY <1>10, <2>1 DEF TimersAgree
<1>12. EntriesCovered'
  <2> SUFFICES ASSUME NEW e \in DOMAIN etmap', NEW u \in Timers, u = etmap'[e].timer
               PROVE  timer'[u].at = e \/ u \in Range(signals') \/ pool'.timer = u
    BY <1>10 DEF EntriesCovered
  <2>1. timer[u].at = e \/ u \in Range(signals) \/ pool.timer = u
    BY <1>10 DEF EntriesCovered
  <2> QED
    BY <1>4, <1>10, <2>1 DEF t
<1>13. Fresh'
  <2> SUFFICES ASSUME NEW u \in Timers \ stale', u \in Range(signals') \/ InHand(u)'
               PROVE  timer'[u].etep <= now
    BY DEF Fresh
  <2>1. u \in Range(signals') \/ InHand(u)
    OBVIOUS
  <2>2. u # t
    BY <1>4, <2>1
  <2> QED
    BY <1>4, <2>1, <2>2 DEF Fresh
<1>14. \A u \in Timers : timer'[u].at # Off => timer'[u].at = timer'[u].etep
  BY <1>4
<1> QED
  BY <1>2, <1>8, <1>9, <1>11, <1>12, <1>13, <1>14

-------------------------------------------------------------------------------
(* The calls of the pool. *)

\* PickTimer finds a timer that nothing points to.
LEMMA PickTimerFacts ==
    ASSUME TimerType, FreeAgree, NEW t \in Timers, PickTimer(t)
    PROVE  /\ timer[t].etep = None
           /\ freetimers' \in Seq(Timers) /\ IsInjective(freetimers')
           /\ Range(freetimers') \subseteq Range(freetimers) \ {t}
<1>1. CASE freetimers = << >>
  <2>1. timer[t].etep = None /\ freetimers' = freetimers
    BY <1>1 DEF PickTimer
  <2>2. Range(freetimers) = {}
    BY <1>1 DEF Range
  <2> QED
    BY <2>1, <2>2 DEF TimerType, FreeAgree
<1>2. CASE freetimers # << >>
  <2>1. t = Head(freetimers) /\ freetimers' = Tail(freetimers)
    BY <1>2 DEF PickTimer
  <2>2. /\ Range(freetimers) = Range(Tail(freetimers)) \cup {Head(freetimers)}
        /\ IsInjective(Tail(freetimers))
        /\ Head(freetimers) \notin Range(Tail(freetimers))
    BY <1>2, RangeTail DEF TimerType, FreeAgree
  <2>3. Tail(freetimers) \in Seq(Timers)
    BY <1>2, TailFacts DEF TimerType
  <2>4. timer[t] = [at |-> Off, etep |-> None]
    BY <2>1, <2>2 DEF FreeAgree
  <2> QED
    BY <2>1, <2>2, <2>3, <2>4
<1> QED
  BY <1>1, <1>2

\* registerTimer keeps the maps and the timers in order.
LEMMA RegisterKeeps ==
    ASSUME IInv, MutexFree, NEW i \in Ids, NEW ms \in Durations, Register(i, ms),
           UNCHANGED <<now, pool>>
    PROVE  Data'
<1>0. PICK et : et = ExpireTime(ms)
  OBVIOUS
<1>1. MapType /\ TimerType /\ now \in Nat /\ pool \in PoolRecords /\ ms \in Nat
  BY TypeParts, Constants DEF IInv, PoolType
<1>2. /\ IdsAgree /\ TimersAgree /\ FreeAgree /\ EntriesCovered /\ Armed /\ Fresh
      /\ pool.pc # "sending"
  BY MapsParts DEF IInv, MutexFree
<1>3. /\ et \in Times /\ et \in Nat /\ et # None /\ fate[i] = "unused"
      /\ et >= (now + ms) - (IF RoundUp THEN 0 ELSE Resolution - 1)
  BY <1>0, <1>1, ExpireNotBefore, Constants DEF Register
<1>9. /\ MapType /\ TimerType /\ IdsAgree /\ now \in Nat /\ ms \in Nat /\ et \in Times
       /\ fate[i] = "unused"
       /\ et \in Times \cup {Off} /\ et \in Times \cup {None}
  BY <1>1, <1>2, <1>3
<1>4. \/ et \in DOMAIN etmap /\ AddEntry(i, ms, et, etmap[et].timer) /\ UNCHANGED timers
      \/ /\ et \notin DOMAIN etmap
         /\ \E t \in Timers : PickTimer(t) /\ Settime(t, et, et) /\ AddEntry(i, ms, et, t)
  BY <1>0 DEF Register
<1>5. ASSUME NEW t \in Timers, AddEntry(i, ms, et, t)
      PROVE  \A j \in DOMAIN etidmap' : etidmap'[j] >= NotBefore(j)'
  <2>1. /\ MapType'
        /\ DOMAIN etidmap' = DOMAIN etidmap \cup {i} /\ etidmap'[i] = et
        /\ i \notin DOMAIN etidmap
        /\ \A j \in DOMAIN etidmap : etidmap'[j] = etidmap[j] /\ due'[j] = due[j]
        /\ due'[i] = now + ms
    BY ZenonT(40), <1>9, <1>5, AddEntryFacts
  <2>2. \A j \in DOMAIN etidmap : etidmap[j] >= due[j] - (IF RoundUp THEN 0 ELSE Resolution - 1)
    BY <1>2 DEF Armed, NotBefore
  <2> QED
    BY <1>3, <2>1, <2>2 DEF NotBefore
<1>6. CASE et \in DOMAIN etmap /\ AddEntry(i, ms, et, etmap[et].timer) /\ UNCHANGED timers
  <2>0. PICK t \in Timers : t = etmap[et].timer
    BY <1>1, <1>6 DEF MapType, EntryRecords
  <2>1. AddEntry(i, ms, et, t) /\ UNCHANGED <<timer, freetimers, signals, stale>>
    BY <1>6, <2>0 DEF timers
  <2>2. /\ MapType' /\ IdsAgree'
        /\ DOMAIN etmap' = DOMAIN etmap
        /\ \A e \in DOMAIN etmap : etmap'[e].timer = etmap[e].timer
        /\ etmap'[et].entries # {}
        /\ \A e \in DOMAIN etmap \ {et} : etmap'[e] = etmap[e]
    <3>1. /\ MapType' /\ IdsAgree'
          /\ DOMAIN etmap' = DOMAIN etmap \cup {et}
          /\ etmap'[et].timer = t /\ etmap'[et].entries # {}
          /\ \A e \in DOMAIN etmap \ {et} : etmap'[e] = etmap[e]
      BY ZenonT(40), <1>9, <2>1, AddEntryFacts
    <3> QED
      BY <1>6, <2>0, <3>1
  <2>3. TimersAgree' /\ FreeAgree'
    BY <1>2, <2>1, <2>2 DEF TimersAgree, FreeAgree, Sending
  <2>4. EntriesCovered' /\ Fresh' /\ TimerType'
    BY <1>1, <1>2, <2>1, <2>2 DEF EntriesCovered, Fresh, TimerType, InHand
  <2>5. Armed'
    BY <1>2, <1>5, <2>1 DEF Armed
  <2> QED
    BY <2>2, <2>3, <2>4, <2>5, MapsParts DEF Data
<1>7. ASSUME et \notin DOMAIN etmap, NEW t \in Timers, PickTimer(t), Settime(t, et, et),
             AddEntry(i, ms, et, t)
      PROVE  Data'
  <2>1. /\ MapType' /\ IdsAgree'
        /\ DOMAIN etmap' = DOMAIN etmap \cup {et}
        /\ etmap'[et].timer = t /\ etmap'[et].entries # {}
        /\ \A e \in DOMAIN etmap : etmap'[e] = etmap[e] /\ e # et
    <3>1. /\ MapType' /\ IdsAgree'
          /\ DOMAIN etmap' = DOMAIN etmap \cup {et}
          /\ etmap'[et].timer = t /\ etmap'[et].entries # {}
          /\ \A e \in DOMAIN etmap \ {et} : etmap'[e] = etmap[e]
      BY ZenonT(40), <1>7, <1>9, AddEntryFacts
    <3> QED
      BY <1>7, <3>1
  <2>2. /\ timer' \in [Timers -> TimerRecords]
        /\ timer'[t].at = et /\ timer'[t].etep = et
        /\ \A u \in Timers \ {t} : timer'[u] = timer[u]
        /\ signals' \in Seq(Timers)
        /\ Range(signals') \subseteq Range(signals)
        /\ Range(signals) \subseteq Range(signals') \cup {t}
        /\ stale' \subseteq Timers
        /\ \A u \in Timers \ {t} : u \in stale' <=> u \in stale
        /\ t \in Range(signals') \/ InHand(t) => t \in stale'
    <3>1. /\ TimerType /\ Settime(t, et, et)
          /\ et \in Times \cup {Off} /\ et \in Times \cup {None}
      BY <1>7, <1>9
    <3>2. timer' \in [Timers -> TimerRecords] /\ \A u \in Timers \ {t} : timer'[u] = timer[u]
      BY <3>1, SettimeFacts
    <3>5. timer'[t] = [at |-> et, etep |-> et]
      BY <3>1, SettimeFacts
    <3>3. /\ signals' \in Seq(Timers)
          /\ Range(signals') \subseteq Range(signals)
          /\ Range(signals) \subseteq Range(signals') \cup {t}
      BY <3>1, SettimeFacts
    <3>4. /\ stale' \subseteq Timers
          /\ \A u \in Timers \ {t} : u \in stale' <=> u \in stale
          /\ t \in Range(signals') \/ InHand(t) => t \in stale'
      BY <3>1, SettimeFacts
    <3> QED
      BY <3>2, <3>3, <3>4, <3>5
  <2>3. /\ timer[t].etep = None
        /\ freetimers' \in Seq(Timers) /\ IsInjective(freetimers')
        /\ Range(freetimers') \subseteq Range(freetimers) \ {t}
    BY <1>1, <1>2, <1>7, PickTimerFacts
  <2>4. FreeAgree'
    <3>1. \A u \in Range(freetimers) : u \in Timers
      BY <1>1 DEF Range, TimerType
    <3> QED
      BY <1>2, <2>2, <2>3, <3>1 DEF FreeAgree
  <2>5. \A e \in DOMAIN etmap :
           /\ etmap[e].timer \in Timers \ {t} /\ timer[etmap[e].timer].etep = e
           /\ etmap[e].entries # {}
           /\ timer'[etmap[e].timer] = timer[etmap[e].timer]
    <3>1. ASSUME NEW e \in DOMAIN etmap
          PROVE  /\ etmap[e].timer \in Timers /\ timer[etmap[e].timer].etep = e /\ e # None
                 /\ etmap[e].entries # {}
      BY <1>1, <1>2, Constants DEF MapType, EntryRecords, TimersAgree, Sending
    <3> QED
      BY <2>2, <2>3, <3>1
  <2>6. TimersAgree'
    <3>1. ASSUME NEW e \in DOMAIN etmap'
          PROVE  timer'[etmap'[e].timer].etep = e /\ etmap'[e].entries # {}
      <4>1. CASE e = et
        BY <2>1, <2>2, <4>1
      <4>2. CASE e \in DOMAIN etmap
        BY <2>1, <2>5, <4>2
      <4> QED
        BY <2>1, <4>1, <4>2
    <3>2. ASSUME NEW u \in Timers, timer'[u].etep # None
          PROVE  timer'[u].etep \in DOMAIN etmap' /\ etmap'[timer'[u].etep].timer = u
      BY <1>2, <2>1, <2>2, <3>2 DEF TimersAgree
    <3> QED
      BY <3>1, <3>2 DEF TimersAgree
  <2>7. EntriesCovered'
    <3> SUFFICES ASSUME NEW e \in DOMAIN etmap', NEW u \in Timers, u = etmap'[e].timer
                 PROVE  timer'[u].at = e \/ u \in Range(signals') \/ pool'.timer = u
      BY <2>1, <2>5 DEF EntriesCovered
    <3>1. CASE e = et
      BY <2>1, <2>2, <3>1
    <3>2. CASE e \in DOMAIN etmap
      <4>1. u = etmap[e].timer /\ u # t
        BY <2>1, <2>5, <3>2
      <4>2. timer[u].at = e \/ u \in Range(signals) \/ pool.timer = u
        BY <1>2, <3>2, <4>1 DEF EntriesCovered
      <4> QED
        BY <2>2, <4>1, <4>2
    <3> QED
      BY <2>1, <3>1, <3>2
  <2>8. Fresh'
    <3> SUFFICES ASSUME NEW u \in Timers \ stale', u \in Range(signals') \/ InHand(u)'
                 PROVE  timer'[u].etep <= now
      BY DEF Fresh
    <3>1. u \in Range(signals') \/ InHand(u)
      BY DEF InHand
    <3>2. u # t
      BY <2>2, <3>1
    <3> QED
      BY <1>2, <2>2, <3>1, <3>2 DEF Fresh
  <2>9. Armed'
    <3>1. \A u \in Timers : timer'[u].at # Off => timer'[u].at = timer'[u].etep
      BY <1>2, <2>2 DEF Armed
    <3> QED
      BY <1>5, <1>7, <3>1 DEF Armed
  <2>10. TimerType'
    BY <2>2, <2>3 DEF TimerType
  <2> QED
    BY <2>1, <2>4, <2>6, <2>7, <2>8, <2>9, <2>10, MapsParts DEF Data
<1> QED
  BY <1>4, <1>6, <1>7

\* What SetEntries changes.
LEMMA SetEntriesFacts ==
    ASSUME MapType, NEW et \in DOMAIN etmap, NEW S \in SUBSET Ids, SetEntries(et, S)
    PROVE  /\ DOMAIN etmap' = DOMAIN etmap
           /\ \A e \in DOMAIN etmap : etmap'[e] \in EntryRecords
           /\ \A e \in DOMAIN etmap : etmap'[e].timer = etmap[e].timer
           /\ etmap'[et].entries = S
           /\ \A e \in DOMAIN etmap \ {et} : etmap'[e] = etmap[e]
<1>1. PICK t \in Timers : t = etmap[et].timer
  BY DEF MapType, EntryRecords
<1> DEFINE r == [entries |-> S, timer |-> t]
<1>2. r \in EntryRecords /\ r.timer = t /\ r.entries = S
  BY DEF EntryRecords
<1>3. etmap' = [etmap EXCEPT ![et] = r]
  BY <1>1 DEF SetEntries
<1> HIDE DEF r
<1> QED
  BY <1>1, <1>2, <1>3 DEF MapType

\* The other ids of an entry than the one that is taken.
LEMMA OtherEntries ==
    ASSUME MapType, IdsAgree, NEW i \in DOMAIN etidmap, NEW et \in Times, etidmap[i] = et
    PROVE  /\ et \in DOMAIN etmap /\ i \in etmap[et].entries /\ etmap[et].entries \subseteq Ids
           /\ \A e \in DOMAIN etmap \ {et} : etmap[e].entries = etmap[e].entries \ {i}
<1>1. i \in Ids
  BY DEF MapType
<1>2. et \in DOMAIN etmap /\ i \in etmap[et].entries
  BY <1>1 DEF IdsAgree
<1>3. \A e \in DOMAIN etmap : e \in Times /\ etmap[e].entries \subseteq Ids
  BY DEF MapType, EntryRecords
<1>4. \A e \in DOMAIN etmap \ {et} : i \notin etmap[e].entries
  BY <1>1, <1>3 DEF IdsAgree
<1> QED
  BY <1>2, <1>3, <1>4

\* Nothing but the clock, the pool's thread and the other threads moves.
LEMMA DataSame ==
    ASSUME Data, UNCHANGED <<maps, timers, now, pool>>
    PROVE  Data'
<1>1. UNCHANGED <<etmap, etidmap, fate, due, timer, freetimers, signals, stale, now, pool>>
  BY DEF maps, timers
<1>2. IdsAgree' /\ TimersAgree' /\ FreeAgree'
  BY <1>1, MapsParts DEF Data, IdsAgree, TimersAgree, FreeAgree, Sending
<1>3. MapType' /\ TimerType' /\ EntriesCovered' /\ Armed' /\ Fresh'
  BY <1>1 DEF Data, MapType, TimerType, EntriesCovered, Armed, Fresh, InHand, NotBefore
<1> QED
  BY <1>2, <1>3, MapsParts DEF Data

\* unregisterTimer keeps the maps and the timers in order.
LEMMA UnregisterKeeps ==
    ASSUME IInv, MutexFree, NEW i \in Ids, Unregister(i), UNCHANGED <<now, pool>>
    PROVE  /\ Data' /\ DOMAIN etidmap' \subseteq DOMAIN etidmap
<1>1. MapType /\ TimerType /\ Data
  BY TypeParts DEF IInv, Data
<1>2. /\ IdsAgree /\ TimersAgree /\ FreeAgree /\ EntriesCovered /\ Armed /\ Fresh
      /\ pool.pc # "sending"
  BY MapsParts DEF IInv, MutexFree
<1>3. CASE i \notin DOMAIN etidmap
  <2>1. UNCHANGED <<maps, timers>>
    BY <1>3 DEF Unregister
  <2> QED
    BY <1>1, <2>1, DataSame DEF maps
<1>4. CASE i \in DOMAIN etidmap
  <2>1. PICK et \in Times : et = etidmap[i]
    BY <1>1, <1>4 DEF MapType
  <2>2. /\ et \in DOMAIN etmap /\ i \in etmap[et].entries /\ etmap[et].entries \subseteq Ids
        /\ \A e \in DOMAIN etmap \ {et} : etmap[e].entries = etmap[e].entries \ {i}
    BY <1>1, <1>2, <1>4, <2>1, OtherEntries
  <2>3. /\ etidmap' = Drop(etidmap, i)
        /\ fate' = [fate EXCEPT ![i] = "unregistered"] /\ UNCHANGED due
        /\ \/ etmap[et].entries = {i} /\ RemoveExpirationTimeEntry(et)
           \/ /\ etmap[et].entries # {i}
              /\ SetEntries(et, etmap[et].entries \ {i}) /\ UNCHANGED timers
    BY <1>4, <2>1 DEF Unregister
  <2>4. \A e \in DOMAIN etmap : etmap[e].entries # {}
    BY <1>2 DEF TimersAgree, Sending
  <2>5. CASE etmap[et].entries = {i} /\ RemoveExpirationTimeEntry(et)
    <3>1. /\ TimerType' /\ TimersAgree' /\ FreeAgree' /\ EntriesCovered' /\ Fresh'
          /\ \A t \in Timers : timer'[t].at # Off => timer'[t].at = timer'[t].etep
          /\ DOMAIN etmap' = DOMAIN etmap \ {et}
          /\ \A e \in DOMAIN etmap' : etmap'[e] = etmap[e]
      <4>1. \A u \in Timers : InHand(u)' => InHand(u)
        BY DEF InHand
      <4>2. \A t \in Timers : timer[t].at # Off => timer[t].at = timer[t].etep
        BY <1>2 DEF Armed
      <4> QED
        BY <1>1, <1>2, <2>2, <2>4, <2>5, <4>1, <4>2, RemoveEntryFacts
    <3>2. \A e \in DOMAIN etmap' :
             etmap'[e] \in EntryRecords /\ etmap'[e].entries = etmap[e].entries \ {i}
      BY <1>1, <2>2, <3>1 DEF MapType
    <3>3. \A e \in DOMAIN etmap \ DOMAIN etmap' : etmap[e].entries \subseteq {i}
      BY <2>5, <3>1
    <3>4. /\ MapType' /\ IdsAgree'
          /\ DOMAIN etidmap' = DOMAIN etidmap \ {i}
          /\ \A j \in DOMAIN etidmap' : etidmap'[j] = etidmap[j]
      BY <1>1, <1>2, <1>4, <2>3, <3>1, <3>2, <3>3, DropIdFacts
    <3>5. Armed'
      BY <1>2, <2>3, <3>1, <3>4 DEF Armed, NotBefore
    <3> QED
      BY <3>1, <3>4, <3>5, MapsParts DEF Data
  <2>6. CASE /\ etmap[et].entries # {i}
             /\ SetEntries(et, etmap[et].entries \ {i}) /\ UNCHANGED timers
    <3>1. PICK S \in SUBSET Ids : S = etmap[et].entries \ {i} /\ S # {}
      BY <2>2, <2>6
    <3>2. /\ DOMAIN etmap' = DOMAIN etmap
          /\ \A e \in DOMAIN etmap : etmap'[e] \in EntryRecords
          /\ \A e \in DOMAIN etmap : etmap'[e].timer = etmap[e].timer
          /\ etmap'[et].entries = S
          /\ \A e \in DOMAIN etmap \ {et} : etmap'[e] = etmap[e]
      BY <1>1, <2>2, <2>6, <3>1, SetEntriesFacts
    <3>3. \A e \in DOMAIN etmap' :
             etmap'[e] \in EntryRecords /\ etmap'[e].entries = etmap[e].entries \ {i}
      BY <2>2, <3>1, <3>2
    <3>4. /\ MapType' /\ IdsAgree'
          /\ DOMAIN etidmap' = DOMAIN etidmap \ {i}
          /\ \A j \in DOMAIN etidmap' : etidmap'[j] = etidmap[j]
      BY <1>1, <1>2, <1>4, <2>3, <3>2, <3>3, DropIdFacts
    <3>5. UNCHANGED <<timer, freetimers, signals, stale, pool, now, due>>
      BY <2>3, <2>6 DEF timers
    <3>6. TimersAgree' /\ FreeAgree'
      <4>1. \A e \in DOMAIN etmap : etmap'[e].entries # {}
        BY <2>4, <3>1, <3>2
      <4> QED
        BY <1>2, <3>2, <3>5, <4>1 DEF TimersAgree, FreeAgree
    <3>7. EntriesCovered' /\ Fresh' /\ TimerType'
      BY <1>1, <1>2, <3>2, <3>5 DEF EntriesCovered, Fresh, TimerType, InHand
    <3>8. Armed'
      BY <1>2, <3>4, <3>5 DEF Armed, NotBefore
    <3> QED
      BY <3>4, <3>6, <3>7, <3>8, MapsParts DEF Data
  <2> QED
    BY <2>3, <2>5, <2>6
<1> QED
  BY <1>3, <1>4

-------------------------------------------------------------------------------
(* The steps. *)

\* The inductive invariant by its parts, now and in the next state.
LEMMA IInvParts ==
    /\ IInv <=> Data /\ PoolType /\ RestType /\ PoolThreadOK /\ UninitOrder
    /\ IInv' <=> Data' /\ PoolType' /\ RestType' /\ PoolThreadOK' /\ UninitOrder'
BY TypeParts DEF IInv, Data

\* The invariant of the pool's thread does not depend on what others do with the
\* mutex.
LEMMA PoolSame ==
    ASSUME PoolThreadOK, UNCHANGED <<pool, now>>,
           \/ UNCHANGED <<timer, crashed>>
           \/ UNCHANGED crashed /\ MutexFree
           \/ UNCHANGED timer /\ crashed' = "endIterator"
    PROVE  PoolThreadOK'
BY DEF PoolThreadOK, MutexFree, Alive

\* The clock's step preserves the invariant.
LEMMA TickIInv ==
    ASSUME IInv, Tick
    PROVE  IInv'
<1>1. /\ now < MaxTime /\ now' = now + 1
      /\ UNCHANGED <<etmap, etidmap, fate, due, timer, freetimers, signals, stale, pool, queue,
                     handler, uninit, crashed>>
  BY DEF Tick, maps, timers, threads
<1>2. Data /\ PoolType /\ RestType /\ PoolThreadOK /\ UninitOrder
  BY IInvParts
<1>3. /\ now \in Nat /\ MaxTime \in Nat /\ now' \in Times
      /\ \A t \in Timers : timer[t].etep \in Nat
  BY <1>1, <1>2, TimerPoolAssumption DEF Data, TimerType, TimerRecords, PoolType, Times, None
<1>4. IdsAgree' /\ TimersAgree' /\ FreeAgree'
  BY <1>1, <1>2, MapsParts DEF Data, IdsAgree, TimersAgree, FreeAgree, Sending
<1>5. MapType' /\ TimerType' /\ EntriesCovered' /\ Armed'
  BY <1>1, <1>2 DEF Data, MapType, TimerType, EntriesCovered, Armed, NotBefore
<1>6. Fresh' /\ PoolThreadOK'
  BY <1>1, <1>2, <1>3 DEF Data, Fresh, InHand, PoolThreadOK, Alive
<1>7. PoolType' /\ RestType' /\ UninitOrder'
  BY <1>1, <1>2, <1>3 DEF PoolType, RestType, UninitOrder
<1> QED
  BY <1>4, <1>5, <1>6, <1>7, IInvParts, MapsParts DEF Data

\* The expiry of a timer preserves the invariant.
LEMMA ExpireIInv ==
    ASSUME IInv, NEW t \in Timers, Expire(t)
    PROVE  IInv'
<1> DEFINE r == [at |-> Off, etep |-> timer[t].etep]
<1>1. /\ timer[t].at <= now
      /\ timer' = [timer EXCEPT ![t] = r]
      /\ signals' = IF t \in Range(signals) THEN signals ELSE Append(signals, t)
      /\ UNCHANGED <<now, etmap, etidmap, fate, due, freetimers, stale, pool, queue, handler,
                     uninit, crashed>>
  BY DEF Expire, maps, threads
<1>2. Data /\ PoolType /\ RestType /\ PoolThreadOK /\ UninitOrder
  BY IInvParts
<1>3. IdsAgree /\ TimersAgree /\ FreeAgree /\ EntriesCovered /\ Armed /\ Fresh
  BY <1>2, MapsParts DEF Data
<1>4. /\ timer \in [Timers -> TimerRecords] /\ signals \in Seq(Timers)
      /\ freetimers \in Seq(Timers) /\ now \in Nat /\ now <= MaxTime
  BY <1>2, Constants DEF Data, TimerType, PoolType
<1>5. r \in TimerRecords /\ r.at = Off /\ r.etep = timer[t].etep
  BY <1>4 DEF TimerRecords
<1> HIDE DEF r
<1>6. /\ timer' \in [Timers -> TimerRecords] /\ timer'[t] = r
      /\ \A u \in Timers \ {t} : timer'[u] = timer[u]
      /\ \A u \in Timers : timer'[u].etep = timer[u].etep
  BY <1>1, <1>4, <1>5
<1>7. signals' \in Seq(Timers) /\ Range(signals') = Range(signals) \cup {t}
  <2>1. CASE t \in Range(signals)
    BY <1>1, <1>4, <2>1
  <2>2. CASE t \notin Range(signals)
    BY <1>1, <1>4, <2>2, AppendFacts, RangeAppend
  <2> QED
    BY <2>1, <2>2
<1>8. timer[t].at # Off /\ timer[t].at = timer[t].etep
  <2>1. ~(Off <= now)
    BY <1>4, Constants
  <2> QED
    BY <1>1, <1>3, <2>1 DEF Armed
<1>9. TimerType'
  BY <1>1, <1>2, <1>6, <1>7 DEF Data, TimerType
<1>10. IdsAgree' /\ MapType'
  BY <1>1, <1>2, <1>3 DEF Data, IdsAgree, MapType
<1>11. TimersAgree'
  <2>1. \A e \in DOMAIN etmap : etmap[e].timer \in Timers
    BY <1>2 DEF Data, MapType, EntryRecords
  <2>2. \A e \in Times : Sending(e) => Sending(e)'
    BY <1>1, <1>2, <1>6 DEF Sending, PoolThreadOK
  <2>3. \A e \in DOMAIN etmap : e \in Times
    BY <1>2 DEF Data, MapType
  <2> QED
    BY <1>1, <1>3, <1>6, <2>1, <2>2, <2>3 DEF TimersAgree
<1>12. FreeAgree'
  <2>1. \A u \in Range(freetimers) : u \in Timers
    BY <1>4 DEF Range
  <2>2. t \notin Range(freetimers)
    <3>1. timer[t].at # Off
      BY <1>8
    <3> QED
      BY <1>3, <3>1 DEF FreeAgree
  <2> QED
    BY <1>1, <1>3, <1>6, <2>1, <2>2 DEF FreeAgree
<1>13. EntriesCovered'
  BY <1>1, <1>2, <1>3, <1>6, <1>7 DEF EntriesCovered, Data, MapType, EntryRecords
<1>14. Armed'
  BY <1>1, <1>3, <1>5, <1>6 DEF Armed, NotBefore
<1>15. Fresh'
  <2> SUFFICES ASSUME NEW u \in Timers \ stale', u \in Range(signals') \/ InHand(u)'
               PROVE  timer'[u].etep <= now
    BY <1>1 DEF Fresh
  <2>1. CASE u = t
    BY <1>1, <1>6, <1>8, <2>1
  <2>2. CASE u # t
    BY <1>1, <1>3, <1>6, <1>7, <2>2 DEF Fresh, InHand
  <2> QED
    BY <2>1, <2>2
<1>16. PoolThreadOK'
  BY <1>1, <1>2, <1>6 DEF PoolThreadOK, Alive
<1>17. PoolType' /\ RestType' /\ UninitOrder'
  BY <1>1, <1>2 DEF PoolType, RestType, UninitOrder
<1> QED
  BY <1>9, <1>10, <1>11, <1>12, <1>13, <1>14, <1>15, <1>16, <1>17, IInvParts, MapsParts DEF Data

\* Taking a signal preserves the invariant.
LEMMA TakeSignalIInv ==
    ASSUME IInv, TakeSignal
    PROVE  IInv'
<1>1. /\ pool.pc = "wait" /\ signals # << >> /\ signals' = Tail(signals) /\ crashed = "no"
      /\ PoolAt("signalled", Head(signals), FALSE)
      /\ UNCHANGED <<now, etmap, etidmap, fate, due, timer, freetimers, stale, queue, handler,
                     uninit, crashed>>
  BY DEF TakeSignal, maps, Alive
<1>2. Data /\ PoolType /\ RestType /\ PoolThreadOK /\ UninitOrder
  BY IInvParts
<1>3. IdsAgree /\ TimersAgree /\ FreeAgree /\ EntriesCovered /\ Armed /\ Fresh
  BY <1>2, MapsParts DEF Data
<1>4. /\ Range(signals) = Range(Tail(signals)) \cup {Head(signals)}
      /\ Tail(signals) \in Seq(Timers) /\ Head(signals) \in Timers
  BY <1>1, <1>2, RangeTail, TailFacts DEF Data, TimerType
<1>5. /\ pool' \in PoolRecords
      /\ pool'.pc = "signalled" /\ pool'.timer = Head(signals) /\ pool'.stale = FALSE
  <2>1. PICK h \in Timers : h = Head(signals)
    BY <1>4
  <2>2. pool' = [pc |-> "signalled", timer |-> h, stale |-> FALSE]
    BY <1>1, <2>1 DEF PoolAt
  <2> QED
    BY <2>1, <2>2 DEF PoolRecords
<1>6. pool.timer \notin Timers
  BY <1>1, <1>2 DEF PoolThreadOK
<1>7. TimerType' /\ MapType' /\ IdsAgree' /\ FreeAgree'
  BY <1>1, <1>2, <1>3, <1>4 DEF Data, TimerType, MapType, IdsAgree, FreeAgree
<1>8. TimersAgree'
  BY <1>1, <1>3 DEF TimersAgree, Sending
<1>9. EntriesCovered'
  BY <1>1, <1>2, <1>3, <1>4, <1>5, <1>6 DEF EntriesCovered, Data, MapType, EntryRecords
<1>10. Armed'
  BY <1>1, <1>3 DEF Armed, NotBefore
<1>11. Fresh'
  BY <1>1, <1>3, <1>4, <1>5 DEF Fresh, InHand
<1>12. PoolThreadOK' /\ PoolType' /\ RestType' /\ UninitOrder'
  BY <1>1, <1>2, <1>4, <1>5 DEF PoolThreadOK, PoolType, RestType, UninitOrder
<1> QED
  BY <1>7, <1>8, <1>9, <1>10, <1>11, <1>12, IInvParts, MapsParts DEF Data

\* Locking the mutex and reading the entry preserves the invariant.
LEMMA LockPoolIInv ==
    ASSUME IInv, LockPool
    PROVE  IInv'
<1> DEFINE t == pool.timer
<1>1. /\ pool.pc = "signalled" /\ crashed = "no"
      /\ PoolAt("sending", t, t \in stale)
      /\ crashed' = IF timer[t].etep = None THEN "nullEntry" ELSE crashed
      /\ stale' = IF t \in Range(signals) THEN stale ELSE stale \ {t}
      /\ UNCHANGED <<now, etmap, etidmap, fate, due, timer, freetimers, signals, queue, handler,
                     uninit>>
  BY DEF LockPool, maps, Alive
<1>2. Data /\ PoolType /\ RestType /\ PoolThreadOK /\ UninitOrder
  BY IInvParts
<1>3. IdsAgree /\ TimersAgree /\ FreeAgree /\ EntriesCovered /\ Armed /\ Fresh
  BY <1>2, MapsParts DEF Data
<1>4. /\ t \in Timers /\ InHand(t)
  BY <1>1, <1>2 DEF PoolThreadOK, InHand
<1>5. /\ pool' \in PoolRecords /\ pool'.pc = "sending" /\ pool'.timer = t
      /\ pool'.stale <=> t \in stale
  <2>1. PICK u \in Timers : u = t
    BY <1>4
  <2>2. PICK b \in BOOLEAN : b <=> t \in stale
    OBVIOUS
  <2>3. pool' = [pc |-> "sending", timer |-> u, stale |-> b]
    BY <1>1, <2>1, <2>2 DEF PoolAt
  <2> QED
    BY <2>1, <2>2, <2>3 DEF PoolRecords
<1>6. t \notin stale => timer[t].etep <= now /\ timer[t].etep # None
  <2>1. t \notin stale => timer[t].etep <= now
    BY <1>3, <1>4 DEF Fresh
  <2>2. ~(None <= now)
    BY <1>2, Constants DEF PoolType
  <2> QED
    BY <2>1, <2>2
<1> HIDE DEF t
<1>7. TimerType' /\ MapType' /\ IdsAgree' /\ FreeAgree'
  BY <1>1, <1>2, <1>3 DEF Data, TimerType, MapType, IdsAgree, FreeAgree
<1>8. TimersAgree'
  BY <1>1, <1>3 DEF TimersAgree, Sending
<1>9. EntriesCovered'
  BY <1>1, <1>3, <1>5 DEF EntriesCovered, t
<1>10. Armed'
  BY <1>1, <1>3 DEF Armed, NotBefore
<1>11. Fresh'
  BY <1>1, <1>3, <1>5 DEF Fresh, InHand
<1>12. PoolThreadOK'
  <2>1. CASE timer[t].etep = None
    BY <1>1, <1>4, <1>5, <1>6, <2>1 DEF PoolThreadOK, Alive
  <2>2. CASE timer[t].etep # None
    BY <1>1, <1>4, <1>5, <1>6, <2>2 DEF PoolThreadOK, Alive
  <2> QED
    BY <2>1, <2>2
<1>13. PoolType' /\ RestType' /\ UninitOrder'
  BY <1>1, <1>2, <1>5 DEF PoolType, RestType, UninitOrder
<1> QED
  BY <1>7, <1>8, <1>9, <1>10, <1>11, <1>12, <1>13, IInvParts, MapsParts DEF Data

\* The initial state satisfies the invariant.
LEMMA InitIInv ==
    ASSUME Init
    PROVE  IInv
<1>1. /\ now = 0 /\ etmap = << >> /\ etidmap = << >>
      /\ freetimers = << >> /\ signals = << >> /\ queue = << >> /\ handler = "idle"
      /\ crashed = "no" /\ stale = {}
      /\ timer = [t \in Timers |-> [at |-> Off, etep |-> None]]
      /\ pool = [pc |-> "wait", timer |-> NoTimer, stale |-> FALSE]
      /\ uninit = [pc |-> "running", id |-> 0]
      /\ fate = [i \in Ids |-> "unused"] /\ due = [i \in Ids |-> 0]
  BY DEF Init
<1>2. /\ DOMAIN etmap = {} /\ DOMAIN etidmap = {}
      /\ Range(freetimers) = {} /\ Range(signals) = {} /\ IsInjective(freetimers)
  BY <1>1 DEF Range, IsInjective
<1>3. /\ timer \in [Timers -> TimerRecords]
      /\ \A t \in Timers : timer[t].at = Off /\ timer[t].etep = None
  <2> DEFINE r == [at |-> Off, etep |-> None]
  <2>1. r \in TimerRecords /\ r.at = Off /\ r.etep = None
    BY DEF TimerRecords
  <2>2. timer = [t \in Timers |-> r]
    BY <1>1
  <2> HIDE DEF r
  <2> QED
    BY <2>1, <2>2
<1>4. /\ pool \in PoolRecords
      /\ pool.pc = "wait" /\ pool.timer = NoTimer
  BY <1>1 DEF PoolRecords
<1>5. uninit \in UninitRecords /\ uninit.pc = "running"
  BY <1>1 DEF UninitRecords
<1>6. fate \in [Ids -> Fates] /\ \A i \in Ids : fate[i] = "unused"
  BY <1>1 DEF Fates
<1>7. MapType /\ TimerType
  BY <1>1, <1>2, <1>3, <1>6 DEF MapType, TimerType
<1>8. PoolType /\ RestType
  <2>1. Len(queue) <= QueueSize /\ queue \in Seq(Ids)
    BY <1>1, Constants
  <2> QED
    BY <1>1, <1>4, <1>5, <2>1, Constants DEF PoolType, RestType
<1>9. IdsAgree /\ TimersAgree /\ FreeAgree
  BY <1>2, <1>3, <1>6 DEF IdsAgree, TimersAgree, FreeAgree
<1>10. EntriesCovered /\ Armed /\ Fresh
  BY <1>2, <1>3, <1>4 DEF EntriesCovered, Armed, Fresh, InHand
<1>11. PoolThreadOK /\ UninitOrder
  BY <1>1, <1>4, <1>5, Constants DEF PoolThreadOK, UninitOrder
<1> QED
  BY <1>7, <1>8, <1>9, <1>10, <1>11, IInvParts, MapsParts DEF Data

\* The entry that is being sent.
LEMMA SendingEntry ==
    ASSUME IInv, pool.pc = "sending", Alive
    PROVE  \E et \in DOMAIN etmap :
              /\ et \in Times /\ et = timer[pool.timer].etep
              /\ pool.timer \in Timers /\ etmap[et].timer = pool.timer
              /\ \A e \in DOMAIN etmap \ {et} : etmap[e].entries # {}
              /\ Sending(et)
<1>1. Data /\ PoolThreadOK /\ TimersAgree
  BY IInvParts, MapsParts DEF Data
<1>2. pool.timer \in Timers /\ timer[pool.timer].etep # None
  BY <1>1 DEF PoolThreadOK
<1>3. /\ timer[pool.timer].etep \in DOMAIN etmap
      /\ etmap[timer[pool.timer].etep].timer = pool.timer
  BY <1>1, <1>2 DEF TimersAgree
<1>4. timer[pool.timer].etep \in Times
  BY <1>1, <1>3 DEF Data, MapType
<1>5. \A e \in DOMAIN etmap \ {timer[pool.timer].etep} : etmap[e].entries # {}
  BY <1>1 DEF TimersAgree, Sending
<1> QED
  BY <1>2, <1>3, <1>4, <1>5 DEF Sending

\* A notification preserves the invariant.
LEMMA NotifyIInv ==
    ASSUME IInv, NEW i \in Ids, Notify(i)
    PROVE  IInv'
<1>1. /\ Alive /\ pool.pc = "sending" /\ i \in etmap[timer[pool.timer].etep].entries
      /\ \/ UNCHANGED queue
         \/ Len(queue) < QueueSize /\ queue' = Append(queue, i)
      /\ etidmap' = Drop(etidmap, i)
      /\ SetEntries(timer[pool.timer].etep, etmap[timer[pool.timer].etep].entries \ {i})
      /\ fate' = [fate EXCEPT ![i] = "notified"]
      /\ UNCHANGED <<now, due, timer, freetimers, signals, stale, pool, handler, uninit, crashed>>
  BY DEF Notify, timers
<1>2. Data /\ PoolType /\ RestType /\ PoolThreadOK /\ UninitOrder
  BY IInvParts
<1>3. /\ MapType /\ TimerType
      /\ IdsAgree /\ TimersAgree /\ FreeAgree /\ EntriesCovered /\ Armed /\ Fresh
  BY <1>2, MapsParts DEF Data
<1>4. PICK et \in DOMAIN etmap :
         /\ et \in Times /\ et = timer[pool.timer].etep
         /\ pool.timer \in Timers /\ etmap[et].timer = pool.timer
         /\ \A e \in DOMAIN etmap \ {et} : etmap[e].entries # {}
         /\ Sending(et)
  BY <1>1, SendingEntry
<1>5. i \in DOMAIN etidmap /\ etidmap[i] = et
  BY <1>1, <1>3, <1>4 DEF IdsAgree
<1>6. /\ etmap[et].entries \subseteq Ids
      /\ \A e \in DOMAIN etmap \ {et} : etmap[e].entries = etmap[e].entries \ {i}
  BY <1>3, <1>4, <1>5, OtherEntries
<1>7. PICK S \in SUBSET Ids : S = etmap[et].entries \ {i}
  BY <1>6
<1>8. /\ DOMAIN etmap' = DOMAIN etmap
      /\ \A e \in DOMAIN etmap : etmap'[e] \in EntryRecords
      /\ \A e \in DOMAIN etmap : etmap'[e].timer = etmap[e].timer
      /\ etmap'[et].entries = S
      /\ \A e \in DOMAIN etmap \ {et} : etmap'[e] = etmap[e]
  <2>1. SetEntries(et, S)
    BY <1>1, <1>4, <1>7
  <2> QED
    BY <1>3, <2>1, SetEntriesFacts
<1>9. /\ MapType' /\ IdsAgree'
      /\ DOMAIN etidmap' = DOMAIN etidmap \ {i}
      /\ \A j \in DOMAIN etidmap' : etidmap'[j] = etidmap[j]
  <2>1. /\ \A e \in DOMAIN etmap' :
              etmap'[e] \in EntryRecords /\ etmap'[e].entries = etmap[e].entries \ {i}
        /\ DOMAIN etmap' \subseteq DOMAIN etmap
        /\ \A e \in DOMAIN etmap \ DOMAIN etmap' : etmap[e].entries \subseteq {i}
    BY <1>6, <1>7, <1>8
  <2>2. /\ etidmap' = Drop(etidmap, i) /\ fate' = [fate EXCEPT ![i] = "notified"]
        /\ UNCHANGED due
    BY <1>1
  <2> QED
    BY <1>3, <1>5, <2>1, <2>2, DropIdFacts
<1>10. TimersAgree' /\ FreeAgree'
  <2>1. Sending(et)'
    BY <1>1, <1>4 DEF Sending
  <2>2. \A e \in DOMAIN etmap' : etmap'[e].entries = {} => e = et
    BY <1>4, <1>8
  <2>3. TimersAgree'
    BY <1>1, <1>3, <1>8, <2>1, <2>2 DEF TimersAgree
  <2> QED
    BY <1>1, <1>3, <2>3 DEF FreeAgree
<1>11. EntriesCovered' /\ Fresh' /\ TimerType'
  BY <1>1, <1>3, <1>8 DEF EntriesCovered, Fresh, TimerType, InHand
<1>12. Armed'
  BY <1>1, <1>3, <1>9 DEF Armed, NotBefore
<1>13. PoolThreadOK' /\ PoolType' /\ UninitOrder'
  <2>1. PoolThreadOK'
    BY <1>1, <1>2, PoolSame
  <2> QED
    BY <1>1, <1>2, <1>9, <2>1 DEF PoolType, UninitOrder
<1>14. RestType'
  <2>1. queue' \in Seq(Ids) /\ Len(queue') <= QueueSize
    <3>1. CASE UNCHANGED queue
      BY <1>2, <3>1 DEF RestType
    <3>2. CASE Len(queue) < QueueSize /\ queue' = Append(queue, i)
      <4>1. queue' \in Seq(Ids) /\ Len(queue') = Len(queue) + 1 /\ Len(queue) \in Nat
        BY <1>2, <3>2, AppendFacts DEF RestType
      <4> QED
        BY <3>2, <4>1, Constants
    <3> QED
      BY <1>1, <3>1, <3>2
  <2> QED
    BY <1>1, <1>2, <2>1 DEF RestType
<1> QED
  BY <1>9, <1>10, <1>11, <1>12, <1>13, <1>14, IInvParts, MapsParts DEF Data

\* The end of sending preserves the invariant.
LEMMA SendingEndsIInv ==
    ASSUME IInv, SendingEnds
    PROVE  IInv'
<1>1. /\ Alive /\ pool.pc = "sending" /\ etmap[timer[pool.timer].etep].entries = {}
      /\ RemoveExpirationTimeEntry(timer[pool.timer].etep)
      /\ PoolAt("wait", NoTimer, FALSE)
      /\ UNCHANGED <<now, etidmap, fate, due, queue, handler, uninit, crashed>>
  BY DEF SendingEnds
<1>2. Data /\ PoolType /\ RestType /\ PoolThreadOK /\ UninitOrder
  BY IInvParts
<1>3. /\ MapType /\ TimerType
      /\ IdsAgree /\ TimersAgree /\ FreeAgree /\ EntriesCovered /\ Armed /\ Fresh
  BY <1>2, MapsParts DEF Data
<1>4. PICK et \in DOMAIN etmap :
         /\ et \in Times /\ et = timer[pool.timer].etep
         /\ pool.timer \in Timers /\ etmap[et].timer = pool.timer
         /\ \A e \in DOMAIN etmap \ {et} : etmap[e].entries # {}
  BY <1>1, SendingEntry
<1>5. /\ pool' \in PoolRecords
      /\ pool'.pc = "wait" /\ pool'.timer = NoTimer
  BY <1>1 DEF PoolAt, PoolRecords
<1>6. /\ TimerType' /\ TimersAgree' /\ FreeAgree' /\ EntriesCovered' /\ Fresh'
      /\ \A t \in Timers : timer'[t].at # Off => timer'[t].at = timer'[t].etep
      /\ DOMAIN etmap' = DOMAIN etmap \ {et}
      /\ \A e \in DOMAIN etmap' : etmap'[e] = etmap[e]
  <2>1. /\ RemoveExpirationTimeEntry(et) /\ UNCHANGED now
        /\ \A e \in DOMAIN etmap \ {et} : etmap[e].entries # {}
    BY <1>1, <1>4
  <2>2. /\ \A u \in Timers : InHand(u)' => InHand(u)
        /\ \A u \in Timers : u # etmap[et].timer /\ pool.timer = u => pool'.timer = u
    BY <1>4, <1>5 DEF InHand
  <2>3. \A t \in Timers : timer[t].at # Off => timer[t].at = timer[t].etep
    BY <1>3 DEF Armed
  <2> QED
    BY <1>3, <2>1, <2>2, <2>3, RemoveEntryFacts
<1>7. MapType'
  BY <1>1, <1>3, <1>6 DEF MapType
<1>8. IdsAgree'
  <2>1. etmap[et].entries = {}
    BY <1>1, <1>4
  <2> QED
    BY <1>1, <1>3, <1>6, <2>1 DEF IdsAgree
<1>9. Armed'
  BY <1>1, <1>3, <1>6 DEF Armed, NotBefore
<1>10. PoolThreadOK' /\ PoolType' /\ RestType' /\ UninitOrder'
  <2>1. PoolThreadOK'
    BY <1>1, <1>5, Constants DEF PoolThreadOK, Alive
  <2> QED
    BY <1>1, <1>2, <1>5, <2>1 DEF PoolType, RestType, UninitOrder
<1> QED
  BY <1>6, <1>7, <1>8, <1>9, <1>10, IInvParts, MapsParts DEF Data

\* The exit of the thread preserves the invariant.
LEMMA TakeQuitIInv ==
    ASSUME IInv, TakeQuit
    PROVE  IInv'
<1>1. /\ Alive /\ pool.pc = "wait" /\ signals = << >> /\ uninit.pc = "join"
      /\ PoolAt("exited", NoTimer, FALSE)
      /\ UNCHANGED <<now, etmap, etidmap, fate, due, timer, freetimers, signals, stale, queue,
                     handler, uninit, crashed>>
  BY DEF TakeQuit, maps, timers
<1>2. Data /\ PoolType /\ RestType /\ PoolThreadOK /\ UninitOrder
  BY IInvParts
<1>3. IdsAgree /\ TimersAgree /\ FreeAgree /\ EntriesCovered /\ Armed /\ Fresh
  BY <1>2, MapsParts DEF Data
<1>4. /\ pool' \in PoolRecords
      /\ pool'.pc = "exited" /\ pool'.timer = NoTimer
  BY <1>1 DEF PoolAt, PoolRecords
<1>5. pool.timer \notin Timers
  BY <1>1, <1>2 DEF PoolThreadOK
<1>6. TimerType' /\ MapType' /\ IdsAgree' /\ FreeAgree' /\ Armed'
  BY <1>1, <1>2, <1>3 DEF Data, TimerType, MapType, IdsAgree, FreeAgree, Armed, NotBefore
<1>7. TimersAgree'
  BY <1>1, <1>3 DEF TimersAgree, Sending
<1>8. EntriesCovered'
  BY <1>1, <1>2, <1>3, <1>5 DEF EntriesCovered, Data, MapType, EntryRecords
<1>9. Fresh'
  BY <1>1, <1>3, <1>4 DEF Fresh, InHand
<1>10. PoolThreadOK'
  BY <1>1, <1>4, Constants DEF PoolThreadOK, Alive
<1>11. PoolType' /\ RestType' /\ UninitOrder'
  BY <1>1, <1>2, <1>4 DEF PoolType, RestType, UninitOrder
<1> QED
  BY <1>6, <1>7, <1>8, <1>9, <1>10, <1>11, IInvParts, MapsParts DEF Data

\* A call of another thread preserves the invariant.
LEMMA CallIInv ==
    ASSUME IInv, Call
    PROVE  IInv'
<1>1. /\ MutexFree /\ uninit.pc = "running"
      /\ \/ \E i \in Ids, ms \in Durations : Register(i, ms)
         \/ \E i \in DOMAIN etidmap : Unregister(i)
      /\ UNCHANGED <<now, pool, queue, handler, uninit, crashed>>
  BY DEF Call, threads
<1>2. Data /\ PoolType /\ RestType /\ PoolThreadOK /\ UninitOrder
  BY IInvParts
<1>3. Data'
  <2>1. CASE \E i \in Ids, ms \in Durations : Register(i, ms)
    BY <1>1, <2>1, RegisterKeeps
  <2>2. CASE \E i \in DOMAIN etidmap : Unregister(i)
    BY <1>1, <1>2, <2>2, UnregisterKeeps DEF Data, MapType
  <2> QED
    BY <1>1, <2>1, <2>2
<1>4. PoolThreadOK'
  BY <1>1, <1>2, PoolSame
<1>5. PoolType' /\ RestType' /\ UninitOrder'
  BY <1>1, <1>2 DEF PoolType, RestType, UninitOrder
<1> QED
  BY <1>3, <1>4, <1>5, IInvParts

\* Taking a message from the queue preserves the invariant.
LEMMA HandleMessageIInv ==
    ASSUME IInv, HandleMessage
    PROVE  IInv'
<1>1. /\ queue # << >> /\ queue' = Tail(queue) /\ handler' \in {"idle", "calling"}
      /\ UNCHANGED <<now, maps, timers, timer, pool, uninit, crashed>>
  BY DEF HandleMessage, timers
<1>2. Data /\ PoolType /\ RestType /\ PoolThreadOK /\ UninitOrder
  BY IInvParts
<1>3. Data' /\ PoolThreadOK'
  BY <1>1, <1>2, DataSame, PoolSame
<1>4. RestType'
  <2>1. queue \in Seq(Ids) /\ Len(queue) <= QueueSize
    BY <1>2 DEF RestType
  <2>2. queue' \in Seq(Ids) /\ Len(queue') = Len(queue) - 1 /\ Len(queue) \in Nat
    BY <1>1, <2>1, TailFacts
  <2> QED
    BY <1>1, <1>2, <2>1, <2>2, Constants DEF RestType
<1>5. PoolType' /\ UninitOrder'
  BY <1>1, <1>2 DEF PoolType, UninitOrder, maps
<1> QED
  BY <1>3, <1>4, <1>5, IInvParts

\* A call of a handler preserves the invariant.
LEMMA HandlerCallsIInv ==
    ASSUME IInv, HandlerCalls
    PROVE  IInv'
<1>1. /\ MutexFree /\ handler' = "idle"
      /\ \/ \E i \in Ids : Unregister(i)
         \/ uninit.pc = "running" /\ \E i \in Ids, ms \in Durations : Register(i, ms)
      /\ UNCHANGED <<now, pool, queue, uninit, crashed>>
  BY DEF HandlerCalls
<1>2. Data /\ PoolType /\ RestType /\ PoolThreadOK /\ UninitOrder
  BY IInvParts
<1>3. Data' /\ UninitOrder'
  <2>1. CASE uninit.pc = "running" /\ \E i \in Ids, ms \in Durations : Register(i, ms)
    <3>1. Data'
      BY <1>1, <2>1, RegisterKeeps
    <3> QED
      BY <1>1, <2>1, <3>1 DEF UninitOrder
  <2>2. CASE \E i \in Ids : Unregister(i)
    <3>1. Data' /\ DOMAIN etidmap' \subseteq DOMAIN etidmap
      BY <1>1, <2>2, UnregisterKeeps
    <3> QED
      BY <1>1, <1>2, <3>1 DEF UninitOrder
  <2> QED
    BY <1>1, <2>1, <2>2
<1>4. PoolThreadOK'
  BY <1>1, <1>2, PoolSame
<1>5. PoolType' /\ RestType'
  BY <1>1, <1>2 DEF PoolType, RestType
<1> QED
  BY <1>3, <1>4, <1>5, IInvParts

\* The steps of uninit that read the map without the mutex preserve the invariant.
LEMMA UninitReadsIInv ==
    ASSUME IInv, UninitTests \/ UninitReadsFirst
    PROVE  IInv'
<1>1. /\ Alive /\ UNCHANGED <<now, maps, timers, timer, etidmap, pool, queue, handler>>
      /\ \/ /\ UNCHANGED crashed
            /\ UninitAt(IF DOMAIN etidmap = {} THEN "join" ELSE "first", 0)
         \/ crashed' = "endIterator" /\ UNCHANGED uninit
         \/ UNCHANGED crashed /\ \E i \in DOMAIN etidmap : UninitAt("unregister", i)
  BY DEF UninitTests, UninitReadsFirst, timers, maps
<1>2. Data /\ PoolType /\ RestType /\ PoolThreadOK /\ UninitOrder
  BY IInvParts
<1>3. Data' /\ PoolThreadOK'
  BY <1>1, <1>2, DataSame, PoolSame
<1>4. /\ uninit' \in UninitRecords
      /\ uninit'.pc \in {"join", "done"} => DOMAIN etidmap = {}
      /\ uninit'.pc = "done" => pool.pc = "exited"
  <2>1. CASE UninitAt(IF DOMAIN etidmap = {} THEN "join" ELSE "first", 0)
    BY <2>1 DEF UninitAt, UninitRecords
  <2>2. CASE UNCHANGED uninit
    BY <1>2, <2>2 DEF RestType, UninitOrder
  <2>3. CASE \E i \in DOMAIN etidmap : UninitAt("unregister", i)
    BY <1>2, <2>3 DEF UninitAt, UninitRecords, Data, MapType
  <2> QED
    BY <1>1, <2>1, <2>2, <2>3
<1>5. PoolType' /\ RestType' /\ UninitOrder'
  BY <1>1, <1>2, <1>4 DEF PoolType, RestType, UninitOrder
<1> QED
  BY <1>3, <1>5, IInvParts

\* The call of unregisterTimer in uninit preserves the invariant.
LEMMA UninitUnregistersIInv ==
    ASSUME IInv, UninitUnregisters
    PROVE  IInv'
<1>1. /\ MutexFree /\ Unregister(uninit.id) /\ UninitAt("test", 0)
      /\ UNCHANGED <<now, pool, queue, handler, crashed>>
  BY DEF UninitUnregisters
<1>2. Data /\ PoolType /\ RestType /\ PoolThreadOK /\ UninitOrder
  BY IInvParts
<1>3. Data'
  <2>1. CASE uninit.id \in Ids
    <3>1. PICK i \in Ids : i = uninit.id
      BY <2>1
    <3>2. Unregister(i)
      BY <1>1, <3>1
    <3> QED
      BY <1>1, <3>2, UnregisterKeeps
  <2>2. CASE uninit.id \notin Ids
    <3>1. UNCHANGED <<maps, timers>>
      BY <1>1, <1>2, <2>2 DEF Unregister, Data, MapType
    <3> QED
      BY <1>1, <1>2, <3>1, DataSame
  <2> QED
    BY <2>1, <2>2
<1>4. PoolThreadOK'
  BY <1>1, <1>2, PoolSame
<1>5. uninit' \in UninitRecords /\ uninit'.pc = "test"
  BY <1>1 DEF UninitAt, UninitRecords
<1>6. PoolType' /\ RestType' /\ UninitOrder'
  BY <1>1, <1>2, <1>5 DEF PoolType, RestType, UninitOrder
<1> QED
  BY <1>3, <1>4, <1>6, IInvParts

\* The end of uninit preserves the invariant.
LEMMA UninitDeletesIInv ==
    ASSUME IInv, UninitDeletes
    PROVE  IInv'
<1>1. /\ uninit.pc = "join" /\ pool.pc = "exited" /\ UninitAt("done", 0) /\ freetimers' = << >>
      /\ UNCHANGED <<now, etmap, etidmap, fate, due, timer, signals, stale, pool, queue, handler,
                     crashed>>
  BY DEF UninitDeletes, maps
<1>2. Data /\ PoolType /\ RestType /\ PoolThreadOK /\ UninitOrder
  BY IInvParts
<1>3. IdsAgree /\ TimersAgree /\ EntriesCovered /\ Armed /\ Fresh
  BY <1>2, MapsParts DEF Data
<1>4. freetimers' \in Seq(Timers) /\ IsInjective(freetimers') /\ Range(freetimers') = {}
  BY <1>1 DEF IsInjective, Range
<1>5. TimerType' /\ FreeAgree'
  BY <1>1, <1>2, <1>4 DEF Data, TimerType, FreeAgree
<1>6. MapType' /\ IdsAgree' /\ TimersAgree'
  BY <1>1, <1>2, <1>3 DEF Data, MapType, IdsAgree, TimersAgree, Sending
<1>7. EntriesCovered' /\ Armed' /\ Fresh'
  BY <1>1, <1>3 DEF EntriesCovered, Armed, Fresh, InHand, NotBefore
<1>8. PoolThreadOK'
  BY <1>1, <1>2, PoolSame
<1>9. uninit' \in UninitRecords /\ uninit'.pc = "done"
  BY <1>1 DEF UninitAt, UninitRecords
<1>10. PoolType' /\ RestType' /\ UninitOrder'
  BY <1>1, <1>2, <1>9 DEF PoolType, RestType, UninitOrder
<1> QED
  BY <1>5, <1>6, <1>7, <1>8, <1>10, IInvParts, MapsParts DEF Data

\* The invariant is inductive.
LEMMA NextIInv ==
    ASSUME IInv, [Next]_vars
    PROVE  IInv'
<1>1. CASE Tick
  BY <1>1, TickIInv
<1>2. CASE PoolThread
  <2>1. CASE TakeSignal
    BY <2>1, TakeSignalIInv
  <2>2. CASE LockPool
    BY <2>2, LockPoolIInv
  <2>3. CASE SendingEnds
    BY <2>3, SendingEndsIInv
  <2>4. CASE TakeQuit
    BY <2>4, TakeQuitIInv
  <2>5. CASE \E i \in Ids : Notify(i)
    BY <2>5, NotifyIInv
  <2> QED
    BY <1>2, <2>1, <2>2, <2>3, <2>4, <2>5 DEF PoolThread
<1>3. CASE Call
  BY <1>3, CallIInv
<1>4. CASE EventThread
  BY <1>4, HandleMessageIInv, HandlerCallsIInv DEF EventThread
<1>5. CASE Uninit
  BY <1>5, UninitReadsIInv, UninitUnregistersIInv, UninitDeletesIInv DEF Uninit
<1>6. CASE \E t \in Timers : Expire(t)
  BY <1>6, ExpireIInv
<1>7. CASE UNCHANGED vars
  <2>1. UNCHANGED <<now, maps, timers, timer, pool, etidmap, queue, handler, uninit, crashed>>
    BY <1>7 DEF vars, threads, maps, timers
  <2>2. Data /\ PoolType /\ RestType /\ PoolThreadOK /\ UninitOrder
    BY IInvParts
  <2>3. Data' /\ PoolThreadOK'
    BY <2>1, <2>2, DataSame, PoolSame
  <2>4. PoolType' /\ RestType' /\ UninitOrder'
    BY <2>1, <2>2 DEF PoolType, RestType, UninitOrder
  <2> QED
    BY <2>3, <2>4, IInvParts
<1> QED
  BY <1>1, <1>2, <1>3, <1>4, <1>5, <1>6, <1>7 DEF Next

-------------------------------------------------------------------------------
(* The theorems. *)

\* Every state the pool can reach satisfies the inductive invariant.
THEOREM Invariant == Spec => []IInv
BY InitIInv, NextIInv, PTL DEF Spec

\* Every variable keeps its type; the queue that is notified is never overfull.
THEOREM TypeCorrect == Spec => []TypeOK
<1>1. IInv => TypeOK
  BY DEF IInv
<1> QED
  BY <1>1, Invariant, PTL

\* The two maps, the timers and the free list agree, whichever thread registers,
\* unregisters or is notified, and whenever the signals come.
THEOREM MapsAgreement == Spec => []MapsAgree
<1>1. IInv => MapsAgree
  BY DEF IInv
<1> QED
  BY <1>1, Invariant, PTL

\* No registration is forgotten: the timer of its entry is armed, or has a signal
\* on its way to the pool's thread, or is being handled by it.
THEOREM NoneForgotten == Spec => []EntriesCovered
<1>1. IInv => EntriesCovered
  BY DEF IInv
<1> QED
  BY <1>1, Invariant, PTL

\* sendNotifications is without an entry only on a signal that was in flight when
\* the last registration of its timer was removed.
THEOREM NullEntryIsStale == Spec => []NullEntryNeedsStaleSignal
<1>1. IInv => NullEntryNeedsStaleSignal
  BY DEF IInv, PoolThreadOK, NullEntryNeedsStaleSignal
<1> QED
  BY <1>1, Invariant, PTL

\* uninit returns with both maps empty, no timer armed and no registration waiting.
THEOREM UninitClears == Spec => []UninitLeavesNothing
<1>1. IInv => UninitLeavesNothing
  <2> SUFFICES ASSUME IInv, uninit.pc = "done"
               PROVE  /\ DOMAIN etmap = {} /\ DOMAIN etidmap = {}
                      /\ \A t \in Timers : timer[t].at = Off
                      /\ \A i \in Ids : fate[i] # "registered"
    BY DEF UninitLeavesNothing
  <2>1. /\ MapType /\ TimerType /\ IdsAgree /\ TimersAgree /\ Armed
        /\ PoolThreadOK /\ UninitOrder
    BY IInvParts, MapsParts DEF Data
  <2>2. DOMAIN etidmap = {} /\ pool.pc = "exited"
    BY <2>1 DEF UninitOrder
  <2>3. \A i \in Ids : fate[i] # "registered"
    BY <2>1, <2>2 DEF IdsAgree
  <2>4. DOMAIN etmap = {}
    <3>1. \A e \in DOMAIN etmap : e \in Times /\ etmap[e].entries \subseteq Ids
      BY <2>1 DEF MapType, EntryRecords
    <3>2. \A e \in DOMAIN etmap : etmap[e].entries # {}
      BY <2>1, <2>2 DEF TimersAgree, Sending
    <3>3. \A e \in DOMAIN etmap, i \in Ids : i \notin etmap[e].entries
      BY <2>1, <2>2, <3>1 DEF IdsAgree
    <3> QED
      BY <3>1, <3>2, <3>3
  <2>5. \A t \in Timers : timer[t].etep = None
    BY <2>1, <2>4 DEF TimersAgree
  <2>6. \A t \in Timers : timer[t].at \in Times \cup {Off}
    BY <2>1 DEF TimerType, TimerRecords
  <2>7. \A t \in Timers : timer[t].at = Off
    BY <2>1, <2>5, <2>6, Constants DEF Armed
  <2> QED
    BY <2>2, <2>3, <2>4, <2>7
<1> QED
  BY <1>1, Invariant, PTL

\* Only a notification makes a registration notified.
LEMMA OnlyNotify ==
    ASSUME IInv, [Next]_vars, NEW i \in Ids, fate'[i] = "notified", fate[i] # "notified"
    PROVE  Notify(i)
<1>1. MapType
  BY IInvParts DEF Data
<1>2. ~UNCHANGED fate
  OBVIOUS
<1>3. ASSUME NEW j \in Ids, NEW ms \in Durations, Register(j, ms)
      PROVE  FALSE
  <2>1. fate' = [fate EXCEPT ![j] = "registered"]
    BY <1>3 DEF Register, AddEntry
  <2> QED
    BY <1>1, <2>1 DEF MapType
<1>4. ASSUME NEW j, Unregister(j)
      PROVE  FALSE
  <2>1. CASE fate' = [fate EXCEPT ![j] = "unregistered"]
    BY <1>1, <2>1 DEF MapType
  <2>2. CASE UNCHANGED maps
    BY <1>2, <2>2 DEF maps
  <2> QED
    BY <1>4, <2>1, <2>2 DEF Unregister
<1>5. ASSUME NEW j \in Ids, Notify(j)
      PROVE  j = i
  <2>1. fate' = [fate EXCEPT ![j] = "notified"]
    BY <1>5 DEF Notify
  <2> QED
    BY <1>1, <2>1 DEF MapType
<1>6. CASE Tick \/ (\E t \in Timers : Expire(t)) \/ UNCHANGED vars
  BY <1>2, <1>6 DEF Tick, Expire, vars, maps
<1>7. CASE PoolThread
  <2>1. CASE \E j \in Ids : Notify(j)
    BY <1>5, <2>1
  <2>2. CASE TakeSignal \/ LockPool \/ SendingEnds \/ TakeQuit
    BY <1>2, <2>2 DEF TakeSignal, LockPool, SendingEnds, TakeQuit, maps
  <2> QED
    BY <1>7, <2>1, <2>2 DEF PoolThread
<1>8. CASE Call
  BY <1>3, <1>4, <1>8 DEF Call
<1>9. CASE EventThread
  <2>1. CASE HandleMessage
    BY <1>2, <2>1 DEF HandleMessage, maps
  <2>2. CASE HandlerCalls
    BY <1>3, <1>4, <2>2 DEF HandlerCalls
  <2> QED
    BY <1>9, <2>1, <2>2 DEF EventThread
<1>10. CASE Uninit
  <2>1. CASE UninitTests \/ UninitReadsFirst \/ UninitDeletes
    BY <1>2, <2>1 DEF UninitTests, UninitReadsFirst, UninitDeletes, maps
  <2>2. CASE UninitUnregisters
    BY <1>4, <2>2 DEF UninitUnregisters
  <2> QED
    BY <1>10, <2>1, <2>2 DEF Uninit
<1> QED
  BY <1>6, <1>7, <1>8, <1>9, <1>10 DEF Next

\* A registration is notified once, not after it was unregistered, and not before it
\* is due by more than the rounding, unless the signal is left from an earlier use
\* of its timer.
THEOREM NoticesOnTime == Spec => NoticesJustified
<1>1. ASSUME IInv, [Next]_vars, NEW i \in Ids, fate'[i] = "notified", fate[i] # "notified"
      PROVE  fate[i] = "registered" /\ (now >= NotBefore(i) \/ pool.stale)
  <2>1. Notify(i)
    BY <1>1, OnlyNotify
  <2>2. Alive /\ pool.pc = "sending" /\ i \in etmap[timer[pool.timer].etep].entries
    BY <2>1 DEF Notify
  <2>3. PICK et \in DOMAIN etmap : et \in Times /\ et = timer[pool.timer].etep
    BY <1>1, <2>2, SendingEntry
  <2>4. IdsAgree /\ Armed /\ MapType /\ PoolThreadOK /\ PoolType
    BY <1>1, IInvParts, MapsParts DEF Data
  <2>5. i \in DOMAIN etidmap /\ etidmap[i] = et /\ fate[i] = "registered"
    BY <2>2, <2>3, <2>4 DEF IdsAgree
  <2>6. et >= NotBefore(i)
    BY <2>4, <2>5 DEF Armed
  <2>7. ~pool.stale => et <= now
    BY <2>2, <2>3, <2>4 DEF PoolThreadOK
  <2>8. et \in Nat /\ now \in Nat /\ NotBefore(i) \in Int
    BY <2>3, <2>4, Constants DEF PoolType, NotBefore, MapType
  <2> QED
    BY <2>5, <2>6, <2>7, <2>8
<1>2. ASSUME IInv, [Next]_vars
      PROVE  [\A i \in Ids : fate'[i] = "notified" /\ fate[i] # "notified" =>
                fate[i] = "registered" /\ (now >= NotBefore(i) \/ pool.stale)]_vars
  BY <1>1, <1>2
<1> QED
  BY <1>2, Invariant, PTL DEF Spec, NoticesJustified
===============================================================================
