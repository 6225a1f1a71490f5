-------------------------- MODULE EThreadEventProofs --------------------------
(***************************************************************************)
(* The safety of EThreadEvent, proved for any number of callers and        *)
(* workers, any size of the queue and any number of messages and           *)
(* suspensions.                                                            *)
(***************************************************************************)
EXTENDS EThreadEvent, CountingLemmas

USE DEF suspension, uses, sync, group, faults

\* The suspensions not yet resumed: the k-th of caller c, for k up to holds[c].
Held == {x \in Callers \X (1 .. MaxSuspends) : x[2] <= holds[x[1]]}

\* m_suspendCnt is the number of suspensions not yet resumed, and the history
\* variables count what they say.
Suspensions ==
    /\ cnt = Cardinality(Held)
    /\ \A c \in Callers : holds[c] <= suspends
    /\ epoch <= suspends
    /\ cnt > 0 => epoch > 0 /\ kind # "group"

\* The thread waits for a token that was posted, or for one that the count owes it.
Asleep ==
    surplus = 0 => ThreadsAt("suspended") = tokens + (IF sem < 0 THEN -sem ELSE 0)

\* A message of the present suspension is behind its EM_SUSPEND.
SuspendFirst ==
    \A k \in DOMAIN queue :
        /\ queue[k].epoch <= epoch
        /\ queue[k].epoch = epoch /\ cnt > 0 =>
              /\ \A c \in Callers : call[c].pc # "suspend"
              /\ \A l \in DOMAIN queue : l > k => queue[l].type # "suspend"

\* A worker that is being added is the last one, and one at a time: its place in
\* m_workers is null until it is created, and idle until it runs.
Workers ==
    /\ \A c \in Callers :
          call[c].pc \in {"create", "run"} => call[c].i = actv /\ kind = "group"
    /\ \A c, d \in Callers :
          call[c].pc \in {"create", "run"} /\ call[d].pc \in {"create", "run"} => c = d
    /\ \A i \in Slots :
          /\ thread[i] = "none" <=>
                i > actv \/ (i = actv /\ \E c \in Callers : call[c].pc = "create")
          /\ thread[i] = "waiting" <=>
                i = actv /\ \E c \in Callers : call[c].pc = "run"

\* Only Main quits; a worker is added during that only with overlap.
Quits ==
    /\ \A c \in Callers : call[c].pc \in {"quit", "join", "joined"} => c = Main
    /\ call[Main].pc = "quit" => call[Main].i <= actv
    /\ overlap => Quitting
    /\ Quitting /\ ~overlap => ~Adding

\* The workers that join has waited for.
Joins ==
    ~overlap =>
        /\ call[Main].pc = "join" =>
              /\ call[Main].i >= 1
              /\ \A i \in Slots : i < call[Main].i => thread[i] = "done"
        /\ call[Main].pc = "joined" => \A i \in 1 .. Size : thread[i] = "done"
        /\ crashed => actv < Size

\* What was sent before quit is in front of every EM_QUIT, and is gone when a
\* worker has taken one.
LateLast ==
    /\ \A k, l \in DOMAIN queue : k < l /\ queue[k].late => queue[l].late
    /\ \A k \in DOMAIN queue : queue[k].late => Quitting
    /\ \A k \in DOMAIN queue : queue[k].type = "quit" => queue[k].late
    /\ (\E i \in Slots : thread[i] = "done") =>
          Quitting /\ \A k \in DOMAIN queue : queue[k].late

\* The inductive invariant.
IInv ==
    /\ TypeOK
    /\ Suspensions
    /\ SuspendBalance /\ Asleep
    /\ SuspendFirst
    /\ Workers
    /\ Quits
    /\ QuitsMatch
    /\ Joins
    /\ LateLast

-------------------------------------------------------------------------------
MsgRecords == [type : {"user", "suspend", "quit"}, late : BOOLEAN, epoch : 0 .. MaxSuspends]
States == {"none", "waiting", "pump", "handling", "suspended", "done"}
Pcs == {"none", "send", "suspend", "resume", "create", "run", "quit", "join", "joined"}
CallRecords == [pc : Pcs, i : 0 .. Size + 1]

\* The parts of the type.
QueueType == queue \in Seq(MsgRecords) /\ Len(queue) <= QueueSize
ThreadType == thread \in [Slots -> States] /\ actv \in 1 .. Size
CallType == call \in [Callers -> CallRecords]
CountType ==
    /\ cnt \in Nat /\ sem \in Int /\ tokens \in Nat /\ surplus \in Nat
    /\ holds \in [Callers -> Nat]
    /\ suspends \in 0 .. MaxSuspends /\ epoch \in 0 .. MaxSuspends
RestType ==
    /\ kind \in {"thread", "group"} /\ posts \in 0 .. MaxPosts
    /\ crashed \in BOOLEAN /\ strayed \in BOOLEAN /\ overlap \in BOOLEAN
    /\ signals \in 0 .. MaxSignals /\ lostQuits \in Nat

\* TypeOK is all of them, now and in the next state.
LEMMA TypeParts ==
    /\ TypeOK <=> QueueType /\ ThreadType /\ CallType /\ CountType /\ RestType
    /\ TypeOK' <=> QueueType' /\ ThreadType' /\ CallType' /\ CountType' /\ RestType'
BY DEF TypeOK, QueueType, ThreadType, CallType, CountType, RestType, MsgRecords, States,
       CallRecords, Pcs

\* A part stays true when its variables do.
LEMMA TypesSame ==
    ASSUME TypeOK, UNCHANGED kind
    PROVE  /\ UNCHANGED queue => QueueType'
           /\ UNCHANGED <<thread, actv>> => ThreadType'
           /\ UNCHANGED call => CallType'
           /\ UNCHANGED <<cnt, sem, tokens, surplus, holds, suspends, epoch>> => CountType'
           /\ UNCHANGED <<posts, crashed, strayed, signals, lostQuits, overlap>> => RestType'
           /\ Size' = Size /\ Slots' = Slots /\ CallRecords' = CallRecords
<1>1. Size' = Size /\ Slots' = Slots /\ CallRecords' = CallRecords
  BY DEF Size, Slots, CallRecords
<1> QED
  BY <1>1, TypeParts DEF QueueType, ThreadType, CallType, CountType, RestType

\* The place of each caller.
CallPc == [c \in Callers |-> call[c].pc]

\* What the assumptions on the constants say, one fact at a time.
LEMMA Constants ==
    /\ IsFiniteSet(Callers) /\ Main \in Callers
    /\ MinWorkers \in Nat /\ MinWorkers >= 1 /\ MaxWorkers \in Nat /\ MinWorkers <= MaxWorkers
    /\ QueueSize \in Nat /\ QueueSize >= 1 /\ MaxPosts \in Nat /\ MaxSuspends \in Nat
    /\ MaxSignals \in Nat
    /\ IsFiniteSet(Slots) /\ Slots = 1 .. MaxWorkers
    /\ Size \in Nat /\ Size >= 1 /\ 1 .. Size \subseteq Slots
    /\ kind # "group" => Size = 1
    /\ kind = "group" => Size = MaxWorkers
<1>1. Slots = 1 .. MaxWorkers
  BY EventThreadAssumption DEF Slots
<1>2. IsFiniteSet(1 .. MaxWorkers)
  BY EventThreadAssumption, FS_Interval
<1> QED
  BY <1>1, <1>2, EventThreadAssumption DEF Size

\* The counts of callers and threads are those of CountingLemmas.
LEMMA AtPlaces ==
    /\ \A pc : CallersAt(pc) = Cardinality(Places(Callers, CallPc, {pc}))
    /\ \A st : ThreadsAt(st) = Cardinality(Places(Slots, thread, {st}))
    /\ \A ty : Queued(ty) = Cardinality(Typed(queue, ty))
<1>1. ASSUME NEW pc PROVE CallersAt(pc) = Cardinality(Places(Callers, CallPc, {pc}))
  <2>1. {c \in Callers : call[c].pc = pc} = Places(Callers, CallPc, {pc})
    BY DEF Places, CallPc
  <2> QED
    BY <2>1 DEF CallersAt
<1>2. ASSUME NEW st PROVE ThreadsAt(st) = Cardinality(Places(Slots, thread, {st}))
  <2>1. {i \in Slots : thread[i] = st} = Places(Slots, thread, {st})
    BY DEF Places
  <2> QED
    BY <2>1 DEF ThreadsAt
<1>3. ASSUME NEW ty PROVE Queued(ty) = Cardinality(Typed(queue, ty))
  BY DEF Queued, Typed
<1> QED
  BY <1>1, <1>2, <1>3

\* They are natural numbers.
LEMMA CountTypes ==
    ASSUME TypeOK
    PROVE  /\ CallersAt("suspend") \in Nat /\ CallersAt("resume") \in Nat
           /\ ThreadsAt("suspended") \in Nat /\ ThreadsAt("done") \in Nat
           /\ Queued("suspend") \in Nat /\ Queued("quit") \in Nat
           /\ cnt \in Nat /\ sem \in Int /\ tokens \in Nat /\ surplus \in Nat
           /\ lostQuits \in Nat
           /\ \A k \in DOMAIN queue : queue[k].epoch \in Nat
<1>1. \A ty : Queued(ty) \in Nat
  BY AtPlaces, TypedCount DEF TypeOK
<1>2. cnt \in Nat /\ sem \in Int /\ tokens \in Nat /\ surplus \in Nat /\ lostQuits \in Nat
  BY DEF TypeOK
<1>3. \A k \in DOMAIN queue : queue[k].epoch \in Nat
  <2>1. queue \in Seq(MsgRecords)
    BY DEF TypeOK, MsgRecords
  <2>2. \A k \in DOMAIN queue : queue[k] \in MsgRecords
    BY <2>1
  <2> QED
    BY <2>2, Constants DEF MsgRecords
<1> QED
  BY <1>1, <1>2, <1>3, AtPlaces, PlacesCount, Constants

\* A call that goes on changes the counts of callers accordingly.
LEMMA CallerGoes ==
    ASSUME TypeOK, NEW c \in Callers, NEW pc \in Pcs, NEW i \in 0 .. Size + 1,
           Goto(c, pc, i), UNCHANGED kind
    PROVE  /\ call' \in [Callers -> CallRecords]
           /\ call' \in [Callers -> CallRecords']
           /\ call'[c].pc = pc /\ call'[c].i = i
           /\ \A d \in Callers \ {c} : call'[d] = call[d]
           /\ CallersAt("suspend")' =
                CallersAt("suspend") - Is(call[c].pc, {"suspend"}) + Is(pc, {"suspend"})
           /\ CallersAt("resume")' =
                CallersAt("resume") - Is(call[c].pc, {"resume"}) + Is(pc, {"resume"})
<1> DEFINE r == [pc |-> pc, i |-> i]
<1>1. call \in [Callers -> CallRecords]
  BY DEF TypeOK, CallRecords, Pcs
<1>2. r \in CallRecords /\ r.pc = pc /\ r.i = i
  BY DEF CallRecords
<1>3. call' = [call EXCEPT ![c] = r]
  BY DEF Goto
<1> HIDE DEF r
<1>4. /\ call' \in [Callers -> CallRecords]
      /\ call'[c] = r
      /\ \A d \in Callers \ {c} : call'[d] = call[d]
  BY <1>1, <1>2, <1>3
<1>5. Moves(Callers, CallPc, CallPc', c, call[c].pc, pc)
  BY <1>2, <1>4 DEF Moves, CallPc
<1>6. ASSUME NEW p
      PROVE  Cardinality(Places(Callers, CallPc', {p})) =
               Cardinality(Places(Callers, CallPc, {p})) - Is(call[c].pc, {p}) + Is(pc, {p})
  BY <1>5, PlacesMove, Constants
<1>7. \A p : CallersAt(p)' = Cardinality(Places(Callers, CallPc', {p}))
  <2> SUFFICES ASSUME NEW p
               PROVE  CallersAt(p)' = Cardinality(Places(Callers, CallPc', {p}))
    OBVIOUS
  <2>1. {d \in Callers : call'[d].pc = p} = Places(Callers, CallPc', {p})
    BY DEF Places, CallPc
  <2> QED
    BY <2>1 DEF CallersAt
<1>8. CallRecords' = CallRecords
  BY DEF CallRecords, Size
<1> QED
  BY <1>2, <1>4, <1>6, <1>7, <1>8, AtPlaces

\* The calls that begin and end, one place at a time.
LEMMA CallerTurns ==
    ASSUME TypeOK, NEW c \in Callers, NEW pc \in Pcs, Goto(c, pc, 0), UNCHANGED kind
    PROVE  /\ call' \in [Callers -> CallRecords']
           /\ call'[c].pc = pc
           /\ \A d \in Callers \ {c} : call'[d] = call[d]
           /\ call[c].pc # "suspend" =>
                 /\ pc = "suspend" => CallersAt("suspend")' = CallersAt("suspend") + 1
                 /\ pc # "suspend" => CallersAt("suspend")' = CallersAt("suspend")
           /\ call[c].pc = "suspend" /\ pc = "none" =>
                 CallersAt("suspend")' = CallersAt("suspend") - 1
           /\ call[c].pc # "resume" =>
                 /\ pc = "resume" => CallersAt("resume")' = CallersAt("resume") + 1
                 /\ pc # "resume" => CallersAt("resume")' = CallersAt("resume")
           /\ call[c].pc = "resume" /\ pc = "none" =>
                 CallersAt("resume")' = CallersAt("resume") - 1
<1>1. 0 \in 0 .. Size + 1
  BY Constants
<1>2. /\ call' \in [Callers -> CallRecords']
      /\ call'[c].pc = pc
      /\ \A d \in Callers \ {c} : call'[d] = call[d]
      /\ CallersAt("suspend")' =
            CallersAt("suspend") - Is(call[c].pc, {"suspend"}) + Is(pc, {"suspend"})
      /\ CallersAt("resume")' =
            CallersAt("resume") - Is(call[c].pc, {"resume"}) + Is(pc, {"resume"})
  BY <1>1, CallerGoes
<1>3. /\ \A p : (p = "suspend" => Is(p, {"suspend"}) = 1)
                /\ (p # "suspend" => Is(p, {"suspend"}) = 0)
      /\ \A p : (p = "resume" => Is(p, {"resume"}) = 1)
                /\ (p # "resume" => Is(p, {"resume"}) = 0)
  BY DEF Is
<1>4. CallersAt("suspend") \in Nat /\ CallersAt("resume") \in Nat
  BY CountTypes
<1> QED
  BY <1>2, <1>3, <1>4

\* A thread that goes on changes the counts of threads accordingly.
LEMMA ThreadGoes ==
    ASSUME TypeOK, NEW i \in Slots, NEW st \in States, thread' = [thread EXCEPT ![i] = st]
    PROVE  /\ thread' \in [Slots -> States]
           /\ thread'[i] = st
           /\ \A j \in Slots \ {i} : thread'[j] = thread[j]
           /\ ThreadsAt("suspended")' =
                ThreadsAt("suspended") - Is(thread[i], {"suspended"}) + Is(st, {"suspended"})
           /\ ThreadsAt("done")' =
                ThreadsAt("done") - Is(thread[i], {"done"}) + Is(st, {"done"})
<1>1. thread \in [Slots -> States]
  BY DEF TypeOK, States
<1>2. /\ thread' \in [Slots -> States]
      /\ thread'[i] = st
      /\ \A j \in Slots \ {i} : thread'[j] = thread[j]
  BY <1>1
<1>3. Moves(Slots, thread, thread', i, thread[i], st)
  BY <1>2 DEF Moves
<1>4. ASSUME NEW s
      PROVE  Cardinality(Places(Slots, thread', {s})) =
               Cardinality(Places(Slots, thread, {s})) - Is(thread[i], {s}) + Is(st, {s})
  BY <1>3, PlacesMove, Constants
<1>5. \A s : ThreadsAt(s)' = Cardinality(Places(Slots, thread', {s}))
  <2> SUFFICES ASSUME NEW s
               PROVE  ThreadsAt(s)' = Cardinality(Places(Slots, thread', {s}))
    OBVIOUS
  <2>1. {j \in Slots : thread'[j] = s} = Places(Slots, thread', {s})
    BY DEF Places
  <2> QED
    BY <2>1 DEF ThreadsAt, Slots
<1> QED
  BY <1>2, <1>4, <1>5, AtPlaces

\* A thread that neither was nor becomes suspended or done changes no count.
LEMMA ThreadNeutral ==
    ASSUME TypeOK, NEW i \in Slots, NEW st \in States, thread' = [thread EXCEPT ![i] = st],
           thread[i] \notin {"suspended", "done"}, st \notin {"suspended", "done"}
    PROVE  /\ thread' \in [Slots -> States]
           /\ thread'[i] = st
           /\ \A j \in Slots \ {i} : thread'[j] = thread[j]
           /\ ThreadsAt("suspended")' = ThreadsAt("suspended")
           /\ ThreadsAt("done")' = ThreadsAt("done")
<1>1. /\ Is(thread[i], {"suspended"}) = 0 /\ Is(st, {"suspended"}) = 0
      /\ Is(thread[i], {"done"}) = 0 /\ Is(st, {"done"}) = 0
  BY DEF Is
<1>2. /\ thread' \in [Slots -> States]
      /\ thread'[i] = st
      /\ \A j \in Slots \ {i} : thread'[j] = thread[j]
      /\ ThreadsAt("suspended")' =
            ThreadsAt("suspended") - Is(thread[i], {"suspended"}) + Is(st, {"suspended"})
      /\ ThreadsAt("done")' =
            ThreadsAt("done") - Is(thread[i], {"done"}) + Is(st, {"done"})
  BY ThreadGoes
<1> QED
  BY <1>1, <1>2, CountTypes

\* A suspended thread that goes on is one suspended thread less.
LEMMA ThreadWakes ==
    ASSUME TypeOK, NEW i \in Slots, thread[i] = "suspended",
           thread' = [thread EXCEPT ![i] = "pump"]
    PROVE  ThreadsAt("suspended")' = ThreadsAt("suspended") - 1
<1>1. "pump" \in States
  BY DEF States
<1>2. Is(thread[i], {"suspended"}) = 1 /\ Is("pump", {"suspended"}) = 0
  BY DEF Is
<1>3. ThreadsAt("suspended")' =
        ThreadsAt("suspended") - Is(thread[i], {"suspended"}) + Is("pump", {"suspended"})
  BY <1>1, ThreadGoes
<1> QED
  BY <1>2, <1>3, CountTypes

\* A message that is pushed is the last one, and is counted.
LEMMA QueuePushed ==
    ASSUME TypeOK, NEW m \in MsgRecords, Push(m)
    PROVE  /\ queue' \in Seq(MsgRecords) /\ Len(queue') <= QueueSize
           /\ Len(queue) \in Nat /\ DOMAIN queue = 1 .. Len(queue)
           /\ DOMAIN queue' = 1 .. Len(queue) + 1
           /\ \A k \in 1 .. Len(queue) : queue'[k] = queue[k]
           /\ queue'[Len(queue) + 1] = m
           /\ m.type = "suspend" => Queued("suspend")' = Queued("suspend") + 1
           /\ m.type # "suspend" => Queued("suspend")' = Queued("suspend")
           /\ m.type = "quit" => Queued("quit")' = Queued("quit") + 1
           /\ m.type # "quit" => Queued("quit")' = Queued("quit")
<1>1. queue \in Seq(MsgRecords)
  BY DEF TypeOK, MsgRecords
<1>2. queue' = Append(queue, m) /\ Len(queue) < QueueSize
  BY DEF Push
<1>3. ASSUME NEW ty
      PROVE  /\ m.type = ty => Queued(ty)' = Queued(ty) + 1
             /\ m.type # ty => Queued(ty)' = Queued(ty)
  <2>1. /\ Queued(ty) = Cardinality(Typed(queue, ty))
        /\ Queued(ty)' = Cardinality(Typed(Append(queue, m), ty))
    BY <1>2 DEF Queued, Typed
  <2>2. Cardinality(Typed(Append(queue, m), ty)) = Cardinality(Typed(queue, ty)) + Is(m.type, {ty})
    BY <1>1, TypedAppend, Zenon
  <2>3. Is(m.type, {ty}) = IF m.type = ty THEN 1 ELSE 0
    BY DEF Is
  <2>4. Queued(ty) \in Nat
    BY <1>1, <2>1, TypedCount
  <2> QED
    BY <2>1, <2>2, <2>3, <2>4
<1>4. /\ queue' \in Seq(MsgRecords) /\ Len(queue') <= QueueSize
      /\ Len(queue) \in Nat /\ DOMAIN queue = 1 .. Len(queue)
      /\ DOMAIN queue' = 1 .. Len(queue) + 1
      /\ \A k \in 1 .. Len(queue) : queue'[k] = queue[k]
      /\ queue'[Len(queue) + 1] = m
  BY <1>1, <1>2, AppendFacts, Constants
<1> QED
  BY <1>3, <1>4

\* The message that is taken is the first one, and is no longer counted.
LEMMA QueueTaken ==
    ASSUME TypeOK, queue # << >>, queue' = Tail(queue)
    PROVE  /\ queue' \in Seq(MsgRecords) /\ Len(queue') <= QueueSize
           /\ Len(queue) \in Nat \ {0} /\ DOMAIN queue = 1 .. Len(queue)
           /\ DOMAIN queue' = 1 .. Len(queue) - 1
           /\ \A k \in 1 .. Len(queue) - 1 : queue'[k] = queue[k + 1]
           /\ Head(queue) = queue[1] /\ Head(queue) \in MsgRecords
           /\ Queued("suspend")' = Queued("suspend") - Is(Head(queue).type, {"suspend"})
           /\ Queued("quit")' = Queued("quit") - Is(Head(queue).type, {"quit"})
<1>1. queue \in Seq(MsgRecords) /\ Len(queue) <= QueueSize
  BY DEF TypeOK, MsgRecords
<1>2. ASSUME NEW ty PROVE Queued(ty)' = Queued(ty) - Is(Head(queue).type, {ty})
  BY <1>1, TypedTail DEF Queued, Typed
<1> QED
  BY <1>1, <1>2, TailFacts, Constants

\* What is not changed is counted as before.
LEMMA CountsSame ==
    /\ UNCHANGED queue =>
          Queued("suspend")' = Queued("suspend") /\ Queued("quit")' = Queued("quit")
    /\ UNCHANGED thread =>
          ThreadsAt("suspended")' = ThreadsAt("suspended") /\ ThreadsAt("done")' = ThreadsAt("done")
    /\ UNCHANGED call =>
          CallersAt("suspend")' = CallersAt("suspend") /\ CallersAt("resume")' = CallersAt("resume")
BY DEF Queued, ThreadsAt, CallersAt, Slots

\* The number of suspensions grows and shrinks by one.
LEMMA HeldCount ==
    ASSUME TypeOK, NEW c \in Callers
    PROVE  /\ Cardinality(Held) \in Nat
           /\ holds[c] > 0 /\ holds[c] <= MaxSuspends => Cardinality(Held) > 0
           /\ holds' = [holds EXCEPT ![c] = @ + 1] /\ holds[c] < MaxSuspends =>
                 Cardinality(Held)' = Cardinality(Held) + 1
           /\ holds' = [holds EXCEPT ![c] = @ - 1] /\ holds[c] > 0 /\ holds[c] <= MaxSuspends =>
                 Cardinality(Held)' = Cardinality(Held) - 1
<1>1. holds \in [Callers -> Nat] /\ MaxSuspends \in Nat
  BY Constants DEF TypeOK
<1>2. IsFiniteSet(Held)
  <2>1. IsFiniteSet(1 .. MaxSuspends)
    BY <1>1, FS_Interval
  <2>2. IsFiniteSet(Callers \X (1 .. MaxSuspends))
    BY <2>1, Constants, FS_Product
  <2> QED
    BY <2>2, FS_Subset DEF Held
<1>3. ASSUME holds[c] > 0, holds[c] <= MaxSuspends
      PROVE  Cardinality(Held) > 0
  <2>1. <<c, holds[c]>> \in Held
    BY <1>1, <1>3 DEF Held
  <2> QED
    BY <1>2, <2>1, FS_EmptySet, FS_CardinalityType
<1>4. ASSUME holds' = [holds EXCEPT ![c] = @ + 1], holds[c] < MaxSuspends
      PROVE  Cardinality(Held)' = Cardinality(Held) + 1
  <2>1. Held' = Held \cup {<<c, holds[c] + 1>>}
    BY <1>1, <1>4 DEF Held
  <2>2. <<c, holds[c] + 1>> \notin Held
    BY <1>1 DEF Held
  <2> QED
    BY <1>2, <2>1, <2>2, FS_AddElement
<1>5. ASSUME holds' = [holds EXCEPT ![c] = @ - 1], holds[c] > 0, holds[c] <= MaxSuspends
      PROVE  Cardinality(Held)' = Cardinality(Held) - 1
  <2>1. Held' = Held \ {<<c, holds[c]>>}
    BY <1>1, <1>5 DEF Held
  <2>2. <<c, holds[c]>> \in Held
    BY <1>1, <1>5 DEF Held
  <2> QED
    BY <1>2, <2>1, <2>2, FS_RemoveElement
<1> QED
  BY <1>2, <1>3, <1>4, <1>5, FS_CardinalityType

\* The parts of the invariant that only the calls, the workers and quit disturb.
LEMMA CallsUntouched ==
    ASSUME Workers, Quits, Joins, UNCHANGED <<call, actv, kind, overlap, crashed>>,
           \A i \in Slots :
              /\ thread'[i] = "none" <=> thread[i] = "none"
              /\ thread'[i] = "waiting" <=> thread[i] = "waiting"
              /\ thread[i] = "done" => thread'[i] = "done"
    PROVE  Workers' /\ Quits' /\ Joins'
<1>1. Slots' = Slots /\ Size' = Size
  BY DEF Slots, Size
<1>2. Workers'
  BY <1>1 DEF Workers
<1>3. Quits'
  BY DEF Quits, Quitting, Adding
<1>4. Joins'
  BY <1>1, Constants DEF Joins
<1> QED
  BY <1>2, <1>3, <1>4

-------------------------------------------------------------------------------
(* The messages and the suspensions. *)

\* The initial states satisfy the inductive invariant.
LEMMA InitIInv == Init => IInv
<1> SUFFICES ASSUME Init PROVE IInv
  OBVIOUS
<1>1. /\ queue = << >> /\ cnt = 0 /\ sem = 0 /\ suspends = 0 /\ epoch = 0 /\ posts = 0
      /\ tokens = 0 /\ surplus = 0 /\ signals = 0 /\ lostQuits = 0
      /\ actv \in Nat /\ actv \in 1 .. Size
      /\ kind \in {"thread", "group"}
      /\ \A i \in Slots : thread[i] = IF i <= actv THEN "pump" ELSE "none"
      /\ thread \in [Slots -> States]
      /\ \A c \in Callers : call[c].pc = "none" /\ call[c].i = 0
      /\ \A c \in Callers : holds[c] = 0
  BY Constants DEF Init, Size, States
<1>2. crashed = FALSE /\ strayed = FALSE /\ overlap = FALSE
  BY DEF Init
<1>3. TypeOK
  <2>1. crashed \in BOOLEAN /\ strayed \in BOOLEAN /\ overlap \in BOOLEAN
    BY Zenon DEF Init
  <2>2. call \in [Callers -> CallRecords]
    BY Constants DEF Init, CallRecords, Pcs
  <2>3. holds \in [Callers -> Nat]
    BY DEF Init
  <2>4. queue \in Seq(MsgRecords) /\ Len(queue) = 0
    BY <1>1
  <2> QED
    BY <1>1, <2>1, <2>2, <2>3, <2>4, Constants
    DEF TypeOK, MsgRecords, States, CallRecords, Pcs
<1>4. Suspensions /\ SuspendFirst
  <2>1. Held = {}
    BY <1>1, Constants DEF Held
  <2> QED
    BY <1>1, <2>1, FS_EmptySet DEF Suspensions, SuspendFirst
<1>5. /\ CallersAt("suspend") = 0 /\ CallersAt("resume") = 0
      /\ ThreadsAt("suspended") = 0 /\ ThreadsAt("done") = 0
      /\ Queued("suspend") = 0 /\ Queued("quit") = 0
  <2>1. /\ {c \in Callers : call[c].pc = "suspend"} = {}
        /\ {c \in Callers : call[c].pc = "resume"} = {}
        /\ {i \in Slots : thread[i] = "suspended"} = {}
        /\ {i \in Slots : thread[i] = "done"} = {}
        /\ {k \in DOMAIN queue : queue[k].type = "suspend"} = {}
        /\ {k \in DOMAIN queue : queue[k].type = "quit"} = {}
    BY <1>1
  <2> QED
    BY <2>1, FS_EmptySet DEF CallersAt, ThreadsAt, Queued
<1>6. SuspendBalance /\ Asleep /\ QuitsMatch
  BY <1>1, <1>5, Constants DEF SuspendBalance, Asleep, QuitsMatch, One
<1>7. Workers /\ Quits /\ Joins /\ LateLast
  BY <1>1, <1>2, Constants DEF Workers, Quits, Joins, LateLast, Quitting, Adding
<1> QED
  BY <1>3, <1>4, <1>6, <1>7 DEF IInv

\* A message pushed while no message of the present suspension is overtaken.
LEMMA FirstPushed ==
    ASSUME TypeOK, SuspendFirst, NEW m \in MsgRecords, Push(m), UNCHANGED <<epoch, cnt>>,
           \A d \in Callers : call'[d].pc = "suspend" => call[d].pc = "suspend",
           m.type = "suspend" => \E d \in Callers : call[d].pc = "suspend",
           m.epoch <= epoch,
           m.epoch = epoch /\ cnt > 0 => \A d \in Callers : call[d].pc # "suspend"
    PROVE  SuspendFirst'
<1>1. /\ Len(queue) \in Nat /\ DOMAIN queue = 1 .. Len(queue)
      /\ DOMAIN queue' = 1 .. Len(queue) + 1
      /\ \A k \in 1 .. Len(queue) : queue'[k] = queue[k]
      /\ queue'[Len(queue) + 1] = m
  BY QueuePushed
<1> SUFFICES ASSUME NEW k \in DOMAIN queue'
             PROVE  /\ queue'[k].epoch <= epoch
                    /\ queue'[k].epoch = epoch /\ cnt > 0 =>
                          /\ \A d \in Callers : call[d].pc # "suspend"
                          /\ \A l \in DOMAIN queue' : l > k => queue'[l].type # "suspend"
  BY DEF SuspendFirst
<1>2. CASE k \in 1 .. Len(queue)
  BY <1>1, <1>2 DEF SuspendFirst
<1>3. CASE k = Len(queue) + 1
  BY <1>1, <1>3
<1> QED
  BY <1>1, <1>2, <1>3

\* A message pushed remembers whether quit was called.
LEMMA LatePushed ==
    ASSUME TypeOK, LateLast, NEW m \in MsgRecords, Push(m), UNCHANGED thread,
           m.late = Quitting, Quitting' = Quitting, m.type = "quit" => Quitting
    PROVE  LateLast'
<1>1. /\ Len(queue) \in Nat /\ DOMAIN queue = 1 .. Len(queue)
      /\ DOMAIN queue' = 1 .. Len(queue) + 1
      /\ \A k \in 1 .. Len(queue) : queue'[k] = queue[k]
      /\ queue'[Len(queue) + 1] = m
  BY QueuePushed
<1>2. Slots' = Slots /\ (thread' = thread)
  BY DEF Slots
<1> QED
  BY <1>1, <1>2 DEF LateLast

Free == {"none", "send", "suspend", "resume"}

\* The parts of the invariant about workers and quit do not depend on the calls of
\* suspend and resume.
LEMMA CallNeutral ==
    ASSUME TypeOK, Workers, Quits, Joins, QuitsMatch,
           UNCHANGED <<thread, actv, kind, overlap, crashed, lostQuits>>,
           Queued("quit")' = Queued("quit"),
           NEW c \in Callers, call[c].pc \in Free, call'[c].pc \in Free,
           \A d \in Callers \ {c} : call'[d] = call[d]
    PROVE  Workers' /\ Quits' /\ Joins' /\ QuitsMatch' /\ Quitting' = Quitting
<1>1. /\ Slots' = Slots /\ Size' = Size /\ Main \in Callers
      /\ ThreadsAt("done")' = ThreadsAt("done")
  BY Constants, CountsSame DEF Slots, Size
<1>2. \A d \in Callers : call[d].pc \notin Free => call'[d] = call[d]
  OBVIOUS
<1>3. \A d \in Callers : call'[d].pc \notin Free => call'[d] = call[d]
  OBVIOUS
<1>4. \A d \in Callers : call'[d].pc \in Free <=> call[d].pc \in Free
  OBVIOUS
<1>5. Quitting' = Quitting
  BY <1>1, <1>2, <1>3 DEF Quitting, Free
<1>6. Workers'
  <2>1. \A d \in Callers : \A p \in {"create", "run"} : call'[d].pc = p <=> call[d].pc = p
    BY <1>2, <1>3 DEF Free
  <2>2. \A d \in Callers : call'[d].pc \in {"create", "run"} => call'[d] = call[d]
    BY <1>3 DEF Free
  <2>3. \A d \in Callers : call'[d].pc \in {"create", "run"} => call[d].pc \in {"create", "run"}
    BY <2>1
  <2> QED
    BY <1>1, <2>1, <2>2, <2>3 DEF Workers
<1>7. Quits'
  BY <1>1, <1>2, <1>3, <1>5 DEF Quits, Adding, Free
<1>8. Joins' /\ QuitsMatch'
  <2>1. call'[Main] = call[Main] \/ (call'[Main].pc \in Free /\ call[Main].pc \in Free)
    BY <1>1, <1>2, <1>4
  <2> QED
    BY <1>1, <2>1 DEF Joins, QuitsMatch, Free
<1> QED
  BY <1>5, <1>6, <1>7, <1>8

\* The messages in the queue and the threads as they are.
LEMMA LateSame ==
    ASSUME LateLast, UNCHANGED <<queue, thread>>, Quitting' = Quitting
    PROVE  LateLast'
BY DEF LateLast, Slots

\* The suspended thread and its tokens as they are.
LEMMA AsleepSame ==
    ASSUME Asleep, UNCHANGED <<sem, tokens, surplus>>,
           ThreadsAt("suspended")' = ThreadsAt("suspended")
    PROVE  Asleep'
BY DEF Asleep

\* The parts about suspensions do not depend on the other calls.
LEMMA SuspendNeutral ==
    ASSUME TypeOK, Suspensions, SuspendFirst, SuspendBalance, Asleep,
           UNCHANGED <<kind, queue, cnt, sem, holds, suspends, epoch, tokens, surplus>>,
           ThreadsAt("suspended")' = ThreadsAt("suspended"),
           NEW c \in Callers, NEW pc \in Pcs \ {"suspend", "resume"}, NEW i \in 0 .. Size + 1,
           call[c].pc \notin {"suspend", "resume"}, Goto(c, pc, i)
    PROVE  Suspensions' /\ SuspendFirst' /\ SuspendBalance' /\ Asleep' /\ CallType'
<1>1. /\ call' \in [Callers -> CallRecords']
      /\ call'[c].pc = pc
      /\ \A d \in Callers \ {c} : call'[d] = call[d]
      /\ CallersAt("suspend")' = CallersAt("suspend")
      /\ CallersAt("resume")' = CallersAt("resume")
  BY CallerGoes, CountTypes DEF Is
<1>2. Held' = Held
  BY DEF Held
<1>3. Suspensions'
  BY <1>2 DEF Suspensions
<1>4. SuspendFirst'
  BY <1>1 DEF SuspendFirst
<1>5. SuspendBalance'
  BY <1>1, CountsSame DEF SuspendBalance
<1> QED
  BY <1>1, <1>3, <1>4, <1>5, AsleepSame DEF CallType

\* sendMessage, up to its push, preserves the invariant.
LEMMA SendMessageIInv ==
    ASSUME IInv, NEW c \in Callers, SendMessage(c)
    PROVE  IInv'
<1>1. /\ TypeOK /\ call[c].pc = "none" /\ posts' = posts + 1 /\ posts < MaxPosts
      /\ Goto(c, "send", 0)
      /\ UNCHANGED <<kind, queue, thread, crashed, strayed, signals, lostQuits, cnt, sem,
                     holds, suspends, epoch, tokens, surplus, actv, overlap>>
  BY DEF SendMessage, IInv, At
<1>2. Workers /\ Quits /\ Joins /\ QuitsMatch /\ LateLast /\ SuspendFirst /\ SuspendBalance
      /\ Asleep /\ Suspensions
  BY DEF IInv
<1>3. ThreadsAt("suspended")' = ThreadsAt("suspended") /\ Queued("quit")' = Queued("quit")
  BY <1>1, CountsSame
<1>4. Suspensions' /\ SuspendFirst' /\ SuspendBalance' /\ Asleep' /\ CallType'
  BY <1>1, <1>2, <1>3, Constants, SuspendNeutral DEF Pcs
<1>5. TypeOK'
  <2>1. RestType'
    BY <1>1, Constants DEF TypeOK, RestType
  <2> QED
    BY <1>1, <1>4, <2>1, TypesSame, TypeParts
<1>6. Workers' /\ Quits' /\ Joins' /\ QuitsMatch' /\ Quitting' = Quitting
  <2>1. call'[c].pc = "send" /\ \A d \in Callers \ {c} : call'[d] = call[d]
    BY <1>1, CallerTurns DEF Pcs
  <2> QED
    BY <1>1, <1>2, <1>3, <2>1, CallNeutral DEF Free
<1> QED
  BY <1>1, <1>2, <1>4, <1>5, <1>6, LateSame DEF IInv

\* So does the push.
LEMMA PushMessageIInv ==
    ASSUME IInv, NEW c \in Callers, PushMessage(c)
    PROVE  IInv'
<1>1. /\ TypeOK /\ call[c].pc = "send" /\ Push(UserMsg) /\ Goto(c, "none", 0)
      /\ UNCHANGED <<kind, thread, crashed, strayed, signals, lostQuits, posts, cnt, sem,
                     holds, suspends, epoch, tokens, surplus, actv, overlap>>
  BY DEF PushMessage, IInv, At
<1>2. /\ UserMsg \in MsgRecords /\ UserMsg.type = "user" /\ UserMsg.late = Quitting
      /\ UserMsg.epoch \in {0, epoch}
      /\ UserMsg.epoch = epoch /\ cnt > 0 => \A d \in Callers : call[d].pc # "suspend"
  <2> DEFINE told == \A d \in Callers : call[d].pc # "suspend"
             e == IF cnt > 0 /\ told THEN epoch ELSE 0
  <2>1. Quitting \in BOOLEAN
    BY DEF Quitting
  <2>2. epoch \in 0 .. MaxSuspends /\ (cnt > 0 => epoch > 0)
    BY DEF IInv, Suspensions, TypeOK
  <2>3. UserMsg = [type |-> "user", late |-> Quitting, epoch |-> e]
    BY DEF UserMsg
  <2> HIDE DEF told
  <2>4. e \in 0 .. MaxSuspends /\ e \in {0, epoch} /\ (e = epoch /\ cnt > 0 => told)
    BY <2>2, Constants
  <2> HIDE DEF e
  <2> QED
    BY <2>1, <2>3, <2>4 DEF MsgRecords, told
<1>3. /\ queue' \in Seq(MsgRecords) /\ Len(queue') <= QueueSize
      /\ Queued("suspend")' = Queued("suspend") /\ Queued("quit")' = Queued("quit")
  BY <1>1, <1>2, QueuePushed
<1> HIDE DEF UserMsg
<1>4. Workers /\ Quits /\ Joins /\ QuitsMatch /\ LateLast /\ SuspendFirst /\ SuspendBalance
      /\ Asleep /\ Suspensions
  BY DEF IInv
<1>5. /\ call' \in [Callers -> CallRecords']
      /\ call'[c].pc = "none"
      /\ \A d \in Callers \ {c} : call'[d] = call[d]
      /\ CallersAt("suspend")' = CallersAt("suspend")
      /\ CallersAt("resume")' = CallersAt("resume")
  BY <1>1, CallerTurns DEF Pcs
<1>6. TypeOK'
  <2>1. QueueType' /\ CallType'
    BY <1>3, <1>5 DEF QueueType, CallType
  <2> QED
    BY <1>1, <2>1, TypesSame, TypeParts
<1>7. Suspensions'
  <2>1. Held' = Held
    BY <1>1 DEF Held
  <2> QED
    BY <1>1, <1>4, <2>1 DEF Suspensions
<1>8. SuspendFirst'
  <2>1. epoch \in Nat
    BY <1>1, Constants DEF TypeOK
  <2>2. UserMsg.epoch <= epoch
    BY <1>2, <2>1
  <2>3. \A d \in Callers : call'[d].pc = "suspend" => call[d].pc = "suspend"
    BY <1>5
  <2> QED
    BY <1>1, <1>2, <1>4, <2>2, <2>3, FirstPushed
<1>9. SuspendBalance' /\ Asleep'
  <2>1. One(cnt > 0)' = One(cnt > 0) /\ ThreadsAt("suspended")' = ThreadsAt("suspended")
    BY <1>1, CountsSame DEF One
  <2>2. SuspendBalance'
    BY <1>1, <1>3, <1>4, <1>5, <2>1 DEF SuspendBalance
  <2> QED
    BY <1>1, <1>4, <2>1, <2>2, AsleepSame
<1>10. Workers' /\ Quits' /\ Joins' /\ QuitsMatch' /\ Quitting' = Quitting
  BY <1>1, <1>3, <1>4, <1>5, CallNeutral DEF Free
<1>11. LateLast'
  BY <1>1, <1>2, <1>4, <1>10, LatePushed
<1> QED
  BY <1>6, <1>7, <1>8, <1>9, <1>10, <1>11 DEF IInv

\* suspend, up to its message, preserves the invariant.
LEMMA SuspendIInv ==
    ASSUME IInv, NEW c \in Callers, Suspend(c)
    PROVE  IInv'
<1>1. /\ TypeOK /\ call[c].pc = "none" /\ kind # "group" /\ suspends < MaxSuspends
      /\ cnt' = cnt + 1 /\ suspends' = suspends + 1
      /\ holds' = [holds EXCEPT ![c] = @ + 1]
      /\ UNCHANGED <<kind, queue, thread, crashed, strayed, signals, lostQuits, posts, sem,
                     tokens, surplus, actv, overlap>>
  BY DEF Suspend, IInv, At
<1>2. /\ cnt \in Nat /\ suspends \in Nat /\ suspends < MaxSuspends /\ epoch \in Nat
      /\ epoch <= suspends
      /\ holds \in [Callers -> Nat] /\ holds[c] <= suspends
      /\ MaxSuspends \in Nat
  BY <1>1, Constants DEF IInv, TypeOK, Suspensions
<1>3. Workers /\ Quits /\ Joins /\ QuitsMatch /\ LateLast /\ SuspendFirst /\ SuspendBalance
      /\ Asleep /\ Suspensions
  BY DEF IInv
<1>4. Cardinality(Held)' = Cardinality(Held) + 1
  <2>1. holds[c] < MaxSuspends
    BY <1>2
  <2> QED
    BY <1>1, <2>1, HeldCount, Zenon
<1>5. \/ cnt = 0 /\ epoch' = epoch + 1 /\ Goto(c, "suspend", 0)
      \/ cnt > 0 /\ UNCHANGED <<epoch, call>>
  BY <1>1, <1>2 DEF Suspend
<1>6. CountType'
  <2>1. holds' \in [Callers -> Nat]
    BY <1>1, <1>2
  <2>2. sem' \in Int /\ tokens' \in Nat /\ surplus' \in Nat
    BY <1>1, CountTypes
  <2> QED
    BY <1>1, <1>2, <1>5, <2>1, <2>2 DEF CountType
<1>7. Suspensions'
  BY <1>1, <1>2, <1>3, <1>4, <1>5 DEF Suspensions
<1>8. /\ Queued("quit")' = Queued("quit") /\ Queued("suspend")' = Queued("suspend")
      /\ ThreadsAt("suspended")' = ThreadsAt("suspended")
  BY <1>1, CountsSame
<1>9. CASE cnt = 0 /\ epoch' = epoch + 1 /\ Goto(c, "suspend", 0)
  <2>1. /\ call' \in [Callers -> CallRecords']
        /\ call'[c].pc = "suspend"
        /\ \A d \in Callers \ {c} : call'[d] = call[d]
        /\ CallersAt("suspend")' = CallersAt("suspend") + 1
        /\ CallersAt("resume")' = CallersAt("resume")
    BY <1>1, <1>9, CallerTurns DEF Pcs
  <2>2. TypeOK'
    BY <1>1, <1>6, <2>1, TypesSame, TypeParts DEF CallType
  <2>3. SuspendFirst'
    <3>1. \A k \in DOMAIN queue : queue[k].epoch \in Nat /\ queue[k].epoch <= epoch
      BY <1>1, <1>3, CountTypes DEF SuspendFirst
    <3>2. \A k \in DOMAIN queue : queue[k].epoch <= epoch + 1 /\ queue[k].epoch # epoch + 1
      BY <1>2, <3>1
    <3> QED
      BY <1>1, <1>9, <3>2 DEF SuspendFirst
  <2>4. SuspendBalance'
    BY <1>1, <1>3, <1>8, <1>9, <2>1, CountTypes DEF SuspendBalance, One
  <2>5. Workers' /\ Quits' /\ Joins' /\ QuitsMatch' /\ Quitting' = Quitting
    BY <1>1, <1>3, <1>8, <2>1, CallNeutral DEF Free
  <2> QED
    BY <1>1, <1>3, <1>7, <1>8, <2>2, <2>3, <2>4, <2>5, LateSame, AsleepSame DEF IInv
<1>10. CASE cnt > 0 /\ UNCHANGED <<epoch, call>>
  <2>1. TypeOK'
    BY <1>1, <1>6, <1>10, TypesSame, TypeParts
  <2>2. SuspendFirst'
    BY <1>1, <1>2, <1>3, <1>10 DEF SuspendFirst
  <2>3. SuspendBalance'
    BY <1>1, <1>2, <1>3, <1>8, <1>10, CountsSame DEF SuspendBalance, One
  <2>4. Workers' /\ Quits' /\ Joins' /\ QuitsMatch' /\ Quitting' = Quitting
    BY <1>1, <1>3, <1>8, <1>10, CallNeutral DEF Free
  <2> QED
    BY <1>1, <1>3, <1>7, <1>8, <2>1, <2>2, <2>3, <2>4, LateSame, AsleepSame DEF IInv
<1> QED
  BY <1>5, <1>9, <1>10

\* So does its message.
LEMMA SendSuspendIInv ==
    ASSUME IInv, NEW c \in Callers, SendSuspend(c)
    PROVE  IInv'
<1> DEFINE m == Control("suspend")
<1>1. /\ TypeOK /\ call[c].pc = "suspend" /\ Push(m) /\ Goto(c, "none", 0)
      /\ UNCHANGED <<kind, thread, crashed, strayed, signals, lostQuits, posts, cnt, sem,
                     holds, suspends, epoch, tokens, surplus, actv, overlap>>
  BY DEF SendSuspend, IInv, At
<1>2. m \in MsgRecords /\ m.type = "suspend" /\ m.late = Quitting /\ m.epoch = 0
  <2>1. Quitting \in BOOLEAN
    BY DEF Quitting
  <2> QED
    BY <2>1, Constants DEF Control, MsgRecords
<1> HIDE DEF m
<1>3. Workers /\ Quits /\ Joins /\ QuitsMatch /\ LateLast /\ SuspendFirst /\ SuspendBalance
      /\ Asleep /\ Suspensions
  BY DEF IInv
<1>4. /\ queue' \in Seq(MsgRecords) /\ Len(queue') <= QueueSize
      /\ Queued("suspend")' = Queued("suspend") + 1 /\ Queued("quit")' = Queued("quit")
  BY <1>1, <1>2, QueuePushed
<1>5. /\ call' \in [Callers -> CallRecords']
      /\ call'[c].pc = "none"
      /\ \A d \in Callers \ {c} : call'[d] = call[d]
      /\ CallersAt("suspend")' = CallersAt("suspend") - 1
      /\ CallersAt("resume")' = CallersAt("resume")
  BY <1>1, CallerTurns DEF Pcs
<1>6. TypeOK'
  <2>1. QueueType' /\ CallType'
    BY <1>4, <1>5 DEF QueueType, CallType
  <2> QED
    BY <1>1, <2>1, TypesSame, TypeParts
<1>7. Suspensions'
  <2>1. Held' = Held
    BY <1>1 DEF Held
  <2> QED
    BY <1>1, <1>3, <2>1 DEF Suspensions
<1>8. SuspendFirst'
  <2>1. epoch \in Nat /\ (cnt > 0 => epoch > 0)
    BY <1>1, <1>3, Constants DEF TypeOK, Suspensions
  <2>2. m.epoch <= epoch /\ ~(m.epoch = epoch /\ cnt > 0)
    BY <1>2, <2>1
  <2>3. \A d \in Callers : call'[d].pc = "suspend" => call[d].pc = "suspend"
    BY <1>5
  <2> QED
    BY <1>1, <1>2, <1>3, <2>2, <2>3, FirstPushed
<1>9. SuspendBalance' /\ Asleep'
  <2>1. ThreadsAt("suspended")' = ThreadsAt("suspended")
    BY <1>1, CountsSame
  <2>2. SuspendBalance'
    BY <1>1, <1>3, <1>4, <1>5, CountTypes DEF SuspendBalance
  <2> QED
    BY <1>1, <1>3, <2>1, <2>2, AsleepSame
<1>10. Workers' /\ Quits' /\ Joins' /\ QuitsMatch' /\ Quitting' = Quitting
  BY <1>1, <1>3, <1>4, <1>5, CallNeutral DEF Free
<1>11. LateLast'
  BY <1>1, <1>2, <1>3, <1>10, LatePushed
<1> QED
  BY <1>6, <1>7, <1>8, <1>9, <1>10, <1>11 DEF IInv

\* resume, up to its Increment, preserves the invariant.
LEMMA ResumeIInv ==
    ASSUME IInv, NEW c \in Callers, Resume(c)
    PROVE  IInv'
<1>1. /\ TypeOK /\ call[c].pc = "none" /\ holds[c] > 0
      /\ cnt' = cnt - 1
      /\ holds' = [holds EXCEPT ![c] = @ - 1]
      /\ UNCHANGED <<kind, queue, thread, crashed, strayed, signals, lostQuits, posts, sem,
                     suspends, epoch, tokens, surplus, actv, overlap>>
  BY DEF Resume, IInv, At
<1>2. Workers /\ Quits /\ Joins /\ QuitsMatch /\ LateLast /\ SuspendFirst /\ SuspendBalance
      /\ Asleep /\ Suspensions
  BY DEF IInv
<1>3. /\ cnt \in Nat /\ suspends \in Nat /\ suspends <= MaxSuspends /\ epoch \in Nat
      /\ holds \in [Callers -> Nat] /\ holds[c] <= suspends
      /\ MaxSuspends \in Nat
  BY <1>1, <1>2, Constants DEF TypeOK, Suspensions
<1>4. Cardinality(Held)' = Cardinality(Held) - 1 /\ Cardinality(Held) > 0
  <2>1. holds[c] <= MaxSuspends
    BY <1>3
  <2> QED
    BY <1>1, <2>1, HeldCount, Zenon
<1>5. cnt > 0 /\ cnt' \in Nat
  BY <1>1, <1>2, <1>3, <1>4 DEF Suspensions
<1>6. CountType'
  <2>1. holds' \in [Callers -> Nat]
    BY <1>1, <1>3
  <2> QED
    BY <1>1, <1>5, <2>1 DEF CountType, TypeOK
<1>7. Suspensions'
  BY <1>1, <1>2, <1>3, <1>4, <1>5 DEF Suspensions
<1>8. /\ Queued("quit")' = Queued("quit") /\ Queued("suspend")' = Queued("suspend")
      /\ ThreadsAt("suspended")' = ThreadsAt("suspended")
  BY <1>1, CountsSame
<1>9. CASE cnt' = 0 /\ Goto(c, "resume", 0)
  <2>1. /\ call' \in [Callers -> CallRecords']
        /\ call'[c].pc = "resume"
        /\ \A d \in Callers \ {c} : call'[d] = call[d]
        /\ CallersAt("suspend")' = CallersAt("suspend")
        /\ CallersAt("resume")' = CallersAt("resume") + 1
    BY <1>1, <1>9, CallerTurns DEF Pcs
  <2>2. TypeOK'
    BY <1>1, <1>6, <2>1, TypesSame, TypeParts DEF CallType
  <2>3. SuspendFirst'
    BY <1>1, <1>2, <1>9 DEF SuspendFirst
  <2>4. SuspendBalance'
    BY <1>1, <1>2, <1>5, <1>8, <1>9, <2>1, CountTypes DEF SuspendBalance, One
  <2>5. Workers' /\ Quits' /\ Joins' /\ QuitsMatch' /\ Quitting' = Quitting
    BY <1>1, <1>2, <1>8, <2>1, CallNeutral DEF Free
  <2> QED
    BY <1>1, <1>2, <1>7, <1>8, <2>2, <2>3, <2>4, <2>5, LateSame, AsleepSame DEF IInv
<1>10. CASE cnt' # 0 /\ UNCHANGED call
  <2>1. TypeOK'
    BY <1>1, <1>6, <1>10, TypesSame, TypeParts
  <2>2. SuspendFirst'
    BY <1>1, <1>2, <1>5, <1>10 DEF SuspendFirst
  <2>3. SuspendBalance'
    BY <1>1, <1>2, <1>3, <1>5, <1>8, <1>10, CountsSame DEF SuspendBalance, One
  <2>4. Workers' /\ Quits' /\ Joins' /\ QuitsMatch' /\ Quitting' = Quitting
    BY <1>1, <1>2, <1>8, <1>10, CallNeutral DEF Free
  <2> QED
    BY <1>1, <1>2, <1>7, <1>8, <2>1, <2>2, <2>3, <2>4, LateSame, AsleepSame DEF IInv
<1> QED
  BY <1>9, <1>10 DEF Resume

\* So does its Increment.
LEMMA IncrementSemIInv ==
    ASSUME IInv, NEW c \in Callers, IncrementSem(c)
    PROVE  IInv'
<1>1. /\ TypeOK /\ call[c].pc = "resume" /\ sem' = sem + 1 /\ Goto(c, "none", 0)
      /\ tokens' = IF sem + 1 <= 0 THEN tokens + 1 ELSE tokens
      /\ UNCHANGED <<kind, queue, thread, crashed, strayed, signals, lostQuits, posts, cnt,
                     holds, suspends, epoch, surplus, actv, overlap>>
  BY DEF IncrementSem, IInv, At
<1>2. Workers /\ Quits /\ Joins /\ QuitsMatch /\ LateLast /\ SuspendFirst /\ SuspendBalance
      /\ Asleep /\ Suspensions
  BY DEF IInv
<1>3. /\ Queued("quit")' = Queued("quit") /\ Queued("suspend")' = Queued("suspend")
      /\ ThreadsAt("suspended")' = ThreadsAt("suspended")
  BY <1>1, CountsSame
<1>4. /\ call' \in [Callers -> CallRecords']
      /\ call'[c].pc = "none"
      /\ \A d \in Callers \ {c} : call'[d] = call[d]
      /\ CallersAt("suspend")' = CallersAt("suspend")
      /\ CallersAt("resume")' = CallersAt("resume") - 1
  BY <1>1, CallerTurns DEF Pcs
<1>5. TypeOK'
  <2>1. tokens' \in Nat /\ sem' \in Int
    BY <1>1, CountTypes
  <2>2. CountType' /\ CallType'
    BY <1>1, <1>4, <2>1 DEF CountType, CallType, TypeOK
  <2> QED
    BY <1>1, <2>2, TypesSame, TypeParts
<1>6. Suspensions' /\ SuspendFirst'
  <2>1. Held' = Held
    BY <1>1 DEF Held
  <2> QED
    BY <1>1, <1>2, <1>4, <2>1 DEF Suspensions, SuspendFirst
<1>7. SuspendBalance' /\ Asleep'
  <2>1. SuspendBalance'
    BY <1>1, <1>2, <1>3, <1>4, CountTypes DEF SuspendBalance
  <2>2. Asleep'
    BY <1>1, <1>2, <1>3, CountTypes DEF Asleep
  <2> QED
    BY <2>1, <2>2
<1>8. Workers' /\ Quits' /\ Joins' /\ QuitsMatch' /\ Quitting' = Quitting
  BY <1>1, <1>2, <1>3, <1>4, CallNeutral DEF Free
<1> QED
  BY <1>1, <1>2, <1>5, <1>6, <1>7, <1>8, LateSame DEF IInv

-------------------------------------------------------------------------------
(* The workers. *)

\* The calls after one of them goes on.
LEMMA CallsAfter ==
    ASSUME TypeOK, NEW c \in Callers, NEW pc, NEW i, Goto(c, pc, i)
    PROVE  /\ call'[c].pc = pc /\ call'[c].i = i
           /\ \A d \in Callers : d # c => call'[d] = call[d]
BY DEF Goto, TypeOK

\* addWorker, when it raises the number of workers, preserves the invariant.
LEMMA AddWorkerIInv ==
    ASSUME IInv, NEW c \in Callers, AddWorker(c)
    PROVE  IInv'
<1>1. /\ TypeOK /\ call[c].pc = "none" /\ kind = "group" /\ actv < MaxWorkers /\ ~Adding
      /\ ~crashed
      /\ actv' = actv + 1 /\ overlap' = Quitting /\ Goto(c, "create", actv + 1)
      /\ UNCHANGED <<kind, queue, thread, crashed, strayed, signals, lostQuits, posts, cnt,
                     sem, holds, suspends, epoch, tokens, surplus>>
  BY DEF AddWorker, IInv, At, Live
<1>2. Workers /\ Quits /\ Joins /\ QuitsMatch /\ LateLast /\ SuspendFirst /\ SuspendBalance
      /\ Asleep /\ Suspensions
  BY DEF IInv
<1>3. /\ actv \in 1 .. Size /\ actv + 1 \in 1 .. Size /\ Size' = Size /\ Slots' = Slots
      /\ actv + 1 \in 0 .. Size + 1
      /\ Slots = 1 .. MaxWorkers /\ Size = MaxWorkers /\ MaxWorkers \in Nat /\ Main \in Callers
  BY <1>1, Constants, TypesSame DEF TypeOK
<1>4. /\ call'[c].pc = "create" /\ call'[c].i = actv + 1
      /\ \A d \in Callers : d # c => call'[d] = call[d]
  BY <1>1, CallsAfter
<1>5. \A d \in Callers : call[d].pc \notin {"create", "run"}
  BY <1>1 DEF Adding
<1>6. ThreadsAt("done")' = ThreadsAt("done") /\ ThreadsAt("suspended")' = ThreadsAt("suspended")
      /\ Queued("quit")' = Queued("quit")
  BY <1>1, CountsSame
<1>7. Suspensions' /\ SuspendFirst' /\ SuspendBalance' /\ Asleep' /\ CallType'
  BY <1>1, <1>2, <1>3, <1>6, SuspendNeutral DEF Pcs
<1>8. TypeOK'
  <2>1. ThreadType'
    BY <1>1, <1>3 DEF TypeOK, ThreadType, States
  <2>2. RestType'
    BY <1>1 DEF TypeOK, RestType, Quitting
  <2> QED
    BY <1>1, <1>7, <2>1, <2>2, TypesSame, TypeParts
<1>9. Quitting' = Quitting
  BY <1>1, <1>3, <1>4 DEF Quitting
<1>10. Workers'
  BY <1>1, <1>2, <1>3, <1>4, <1>5 DEF Workers
<1>11. Quits'
  <2>1. \A d \in Callers : call'[d].pc \in {"quit", "join", "joined"} => d = Main
    BY <1>2, <1>4 DEF Quits
  <2>2. call'[Main].pc = "quit" => call'[Main].i <= actv'
    <3>1. call[Main].i \in Nat
      BY <1>1, <1>3 DEF TypeOK
    <3> QED
      BY <1>1, <1>2, <1>3, <1>4, <3>1 DEF Quits
  <2>3. (overlap' => Quitting') /\ (Quitting' => overlap')
    BY <1>1, <1>9
  <2> QED
    BY <2>1, <2>2, <2>3 DEF Quits
<1>12. QuitsMatch'
  BY <1>1, <1>2, <1>3, <1>4, <1>6 DEF QuitsMatch, Quitting, Quits
<1>13. Joins'
  BY <1>1, <1>2, <1>3, <1>4 DEF Joins, Quitting, Quits
<1> QED
  BY <1>1, <1>2, <1>7, <1>8, <1>9, <1>10, <1>11, <1>12, <1>13, LateSame DEF IInv

\* addWorker, when it creates the worker, preserves the invariant.
LEMMA CreateWorkerIInv ==
    ASSUME IInv, NEW c \in Callers, CreateWorker(c)
    PROVE  IInv'
<1>1. /\ TypeOK /\ call[c].pc = "create"
      /\ thread' = [thread EXCEPT ![call[c].i] = "waiting"] /\ Goto(c, "run", call[c].i)
      /\ UNCHANGED <<kind, queue, crashed, strayed, signals, lostQuits, posts, cnt, sem,
                     holds, suspends, epoch, tokens, surplus, actv, overlap>>
  BY DEF CreateWorker, IInv, At
<1>2. Workers /\ Quits /\ Joins /\ QuitsMatch /\ LateLast /\ SuspendFirst /\ SuspendBalance
      /\ Asleep /\ Suspensions
  BY DEF IInv
<1>3. /\ actv \in 1 .. Size /\ Size' = Size /\ Slots' = Slots /\ Main \in Callers
      /\ Slots = 1 .. MaxWorkers /\ actv \in Slots /\ actv \in 0 .. Size + 1 /\ Size \in Nat
  BY <1>1, Constants, TypesSame DEF TypeOK
<1>4. call[c].i = actv /\ thread[actv] = "none"
  BY <1>1, <1>2, <1>3 DEF Workers
<1>5. /\ call'[c].pc = "run" /\ call'[c].i = actv
      /\ \A d \in Callers : d # c => call'[d] = call[d]
  BY <1>1, <1>4, CallsAfter
<1>6. /\ thread' \in [Slots -> States]
      /\ thread'[actv] = "waiting"
      /\ \A j \in Slots \ {actv} : thread'[j] = thread[j]
      /\ ThreadsAt("suspended")' = ThreadsAt("suspended")
      /\ ThreadsAt("done")' = ThreadsAt("done")
  <2>1. thread' = [thread EXCEPT ![actv] = "waiting"] /\ "waiting" \in States
    BY <1>1, <1>4 DEF States
  <2>2. TypeOK /\ actv \in Slots
    BY <1>1, <1>3
  <2> QED
    BY <1>4, <2>1, <2>2, ThreadNeutral
<1>7. Suspensions' /\ SuspendFirst' /\ SuspendBalance' /\ Asleep' /\ CallType'
  BY <1>1, <1>2, <1>3, <1>4, <1>6, SuspendNeutral DEF Pcs
<1>8. TypeOK'
  <2>1. ThreadType'
    BY <1>1, <1>3, <1>6 DEF ThreadType, States
  <2> QED
    BY <1>1, <1>7, <2>1, TypesSame, TypeParts
<1>9. Quitting' = Quitting
  BY <1>1, <1>3, <1>5 DEF Quitting
<1>10. Workers'
  <2>1. \A d \in Callers : call'[d].pc \in {"create", "run"} => d = c
    BY <1>1, <1>2, <1>5 DEF Workers
  <2> QED
    BY <1>1, <1>2, <1>3, <1>5, <1>6, <2>1 DEF Workers
<1>11. Quits'
  BY <1>1, <1>2, <1>3, <1>5, <1>9 DEF Quits, Adding, Quitting
<1>12. QuitsMatch'
  <2>1. Queued("quit")' = Queued("quit")
    BY <1>1, CountsSame
  <2> QED
    BY <1>1, <1>2, <1>3, <1>5, <1>6, <2>1 DEF QuitsMatch
<1>13. Joins'
  BY <1>1, <1>2, <1>3, <1>4, <1>5, <1>6 DEF Joins, Quits, Quitting, Adding
<1>14. LateLast'
  <2>1. \A i \in Slots : thread'[i] = "done" => thread[i] = "done"
    BY <1>3, <1>6
  <2> QED
    BY <1>1, <1>2, <1>3, <1>9, <2>1 DEF LateLast
<1> QED
  BY <1>7, <1>8, <1>10, <1>11, <1>12, <1>13, <1>14 DEF IInv

\* addWorker, when the worker's thread runs, preserves the invariant.
LEMMA RunWorkerIInv ==
    ASSUME IInv, NEW c \in Callers, RunWorker(c)
    PROVE  IInv'
<1>1. /\ TypeOK /\ call[c].pc = "run"
      /\ thread' = [thread EXCEPT ![call[c].i] = "pump"] /\ Goto(c, "none", 0)
      /\ UNCHANGED <<kind, queue, crashed, strayed, signals, lostQuits, posts, cnt, sem,
                     holds, suspends, epoch, tokens, surplus, actv, overlap>>
  BY DEF RunWorker, IInv, At
<1>2. Workers /\ Quits /\ Joins /\ QuitsMatch /\ LateLast /\ SuspendFirst /\ SuspendBalance
      /\ Asleep /\ Suspensions
  BY DEF IInv
<1>3. /\ actv \in 1 .. Size /\ Size' = Size /\ Slots' = Slots /\ Main \in Callers
      /\ Slots = 1 .. MaxWorkers /\ actv \in Slots /\ 0 \in 0 .. Size + 1 /\ Size \in Nat
  BY <1>1, Constants, TypesSame DEF TypeOK
<1>4. call[c].i = actv /\ thread[actv] = "waiting"
  BY <1>1, <1>2, <1>3 DEF Workers
<1>5. /\ call'[c].pc = "none"
      /\ \A d \in Callers : d # c => call'[d] = call[d]
  BY <1>1, CallsAfter
<1>6. /\ thread' \in [Slots -> States]
      /\ thread'[actv] = "pump"
      /\ \A j \in Slots \ {actv} : thread'[j] = thread[j]
      /\ ThreadsAt("suspended")' = ThreadsAt("suspended")
      /\ ThreadsAt("done")' = ThreadsAt("done")
  <2>1. thread' = [thread EXCEPT ![actv] = "pump"] /\ "pump" \in States
    BY <1>1, <1>4 DEF States
  <2>2. TypeOK /\ actv \in Slots
    BY <1>1, <1>3
  <2> QED
    BY <1>4, <2>1, <2>2, ThreadNeutral
<1>7. Suspensions' /\ SuspendFirst' /\ SuspendBalance' /\ Asleep' /\ CallType'
  BY <1>1, <1>2, <1>3, <1>6, SuspendNeutral DEF Pcs
<1>8. TypeOK'
  <2>1. ThreadType'
    BY <1>1, <1>3, <1>6 DEF ThreadType, States
  <2> QED
    BY <1>1, <1>7, <2>1, TypesSame, TypeParts
<1>9. Quitting' = Quitting
  BY <1>1, <1>3, <1>5 DEF Quitting
<1>10. Workers'
  <2>1. \A d \in Callers : call'[d].pc \notin {"create", "run"}
    BY <1>1, <1>2, <1>5 DEF Workers
  <2> QED
    BY <1>1, <1>2, <1>3, <1>6, <2>1 DEF Workers
<1>11. Quits'
  BY <1>1, <1>2, <1>3, <1>5, <1>9 DEF Quits, Adding, Quitting
<1>12. QuitsMatch'
  <2>1. Queued("quit")' = Queued("quit")
    BY <1>1, CountsSame
  <2> QED
    BY <1>1, <1>2, <1>3, <1>5, <1>6, <2>1 DEF QuitsMatch
<1>13. Joins'
  BY <1>1, <1>2, <1>3, <1>4, <1>5, <1>6 DEF Joins, Quits, Quitting, Adding
<1>14. LateLast'
  <2>1. \A i \in Slots : thread'[i] = "done" => thread[i] = "done"
    BY <1>3, <1>6
  <2> QED
    BY <1>1, <1>2, <1>3, <1>9, <2>1 DEF LateLast
<1> QED
  BY <1>7, <1>8, <1>10, <1>11, <1>12, <1>13, <1>14 DEF IInv

-------------------------------------------------------------------------------
(* quit and join. *)

\* Main goes on with quit or join: nobody else is disturbed.
LEMMA MainGoes ==
    ASSUME TypeOK, Workers, Quits, UNCHANGED <<thread, actv, kind, overlap>>,
           NEW pc \in {"quit", "join", "joined"}, NEW i \in 0 .. Size + 1, Goto(Main, pc, i),
           call[Main].pc \in {"quit", "join"}, pc = "quit" => i <= actv
    PROVE  /\ Workers' /\ Quits' /\ Quitting' = Quitting /\ Quitting
           /\ call'[Main].pc = pc /\ call'[Main].i = i
<1>1. /\ call'[Main].pc = pc /\ call'[Main].i = i /\ Main \in Callers
      /\ \A d \in Callers : d # Main => call'[d] = call[d]
      /\ Slots' = Slots
  BY CallsAfter, Constants, TypesSame
<1>2. Quitting /\ Quitting'
  BY <1>1 DEF Quitting
<1>3. \A d \in Callers : \A p \in {"create", "run"} : call'[d].pc = p <=> call[d].pc = p
  BY <1>1
<1>4. \A d \in Callers : call'[d].pc \in {"create", "run"} => call'[d] = call[d]
  BY <1>1
<1>5. Workers'
  <2>1. \A d \in Callers : call'[d].pc \in {"create", "run"} => call[d].pc \in {"create", "run"}
    BY <1>3
  <2> QED
    BY <1>1, <1>3, <1>4, <2>1 DEF Workers
<1>6. Quits'
  <2>1. Adding' <=> Adding
    BY <1>3 DEF Adding
  <2> QED
    BY <1>1, <1>2, <2>1 DEF Quits
<1> QED
  BY <1>1, <1>2, <1>5, <1>6

\* quit, up to its messages, preserves the invariant.
LEMMA QuitIInv ==
    ASSUME IInv, Quit
    PROVE  IInv'
<1>1. /\ TypeOK /\ call[Main].pc = "none" /\ Goto(Main, "quit", 0) /\ overlap' = Adding
      /\ ~crashed
      /\ UNCHANGED <<kind, queue, thread, crashed, strayed, signals, lostQuits, posts, cnt,
                     sem, holds, suspends, epoch, tokens, surplus, actv>>
  BY DEF Quit, IInv, At, Live
<1>2. Workers /\ Quits /\ Joins /\ QuitsMatch /\ LateLast /\ SuspendFirst /\ SuspendBalance
      /\ Asleep /\ Suspensions
  BY DEF IInv
<1>3. /\ Main \in Callers /\ Slots' = Slots /\ Size' = Size /\ 0 \in 0 .. Size + 1
      /\ actv \in 1 .. Size /\ Size \in Nat
  BY <1>1, Constants, TypesSame DEF TypeOK
<1>4. /\ call'[Main].pc = "quit" /\ call'[Main].i = 0
      /\ \A d \in Callers : d # Main => call'[d] = call[d]
  BY <1>1, <1>3, CallsAfter
<1>5. ThreadsAt("done")' = ThreadsAt("done") /\ ThreadsAt("suspended")' = ThreadsAt("suspended")
      /\ Queued("quit")' = Queued("quit")
  BY <1>1, CountsSame
<1>6. Suspensions' /\ SuspendFirst' /\ SuspendBalance' /\ Asleep' /\ CallType'
  BY <1>1, <1>2, <1>3, <1>5, SuspendNeutral DEF Pcs
<1>7. TypeOK'
  <2>1. RestType'
    BY <1>1 DEF TypeOK, RestType, Adding
  <2> QED
    BY <1>1, <1>6, <2>1, TypesSame, TypeParts
<1>8. ~Quitting /\ Quitting' /\ ~overlap
  BY <1>1, <1>2, <1>4 DEF Quitting, Quits
<1>9. /\ \A d \in Callers : \A p \in {"create", "run"} : call'[d].pc = p <=> call[d].pc = p
      /\ \A d \in Callers : call'[d].pc \in {"create", "run"} =>
            call'[d] = call[d] /\ call[d].pc \in {"create", "run"}
  BY <1>1, <1>4
<1>10. Workers'
  BY <1>1, <1>2, <1>3, <1>9 DEF Workers
<1>11. Quits'
  <2>1. Adding' <=> Adding
    BY <1>9 DEF Adding
  <2> QED
    BY <1>1, <1>2, <1>3, <1>4, <1>8, <2>1 DEF Quits
<1>12. QuitsMatch'
  BY <1>1, <1>2, <1>4, <1>5, <1>8 DEF QuitsMatch
<1>13. Joins'
  BY <1>1, <1>4 DEF Joins
<1>14. LateLast'
  BY <1>1, <1>2, <1>3, <1>8 DEF LateLast
<1> QED
  BY <1>6, <1>7, <1>10, <1>11, <1>12, <1>13, <1>14 DEF IInv

\* So does each of its messages.
LEMMA SendQuitIInv ==
    ASSUME IInv, SendQuit
    PROVE  IInv'
<1> DEFINE m == Control("quit")
           i == call[Main].i
<1>1. /\ TypeOK /\ call[Main].pc = "quit" /\ i < actv /\ Push(m) /\ Goto(Main, "quit", i + 1)
      /\ UNCHANGED <<kind, thread, crashed, strayed, signals, lostQuits, posts, cnt, sem,
                     holds, suspends, epoch, tokens, surplus, actv, overlap>>
  BY DEF SendQuit, IInv, At
<1>2. Workers /\ Quits /\ Joins /\ QuitsMatch /\ LateLast /\ SuspendFirst /\ SuspendBalance
      /\ Asleep /\ Suspensions
  BY DEF IInv
<1>3. /\ Main \in Callers /\ Slots' = Slots /\ Size' = Size /\ Size \in Nat
      /\ actv \in 1 .. Size /\ i \in Nat
  BY <1>1, Constants, TypesSame DEF TypeOK
<1>4. i + 1 \in 0 .. Size + 1 /\ i + 1 <= actv
  BY <1>1, <1>3
<1>5. m \in MsgRecords /\ m.type = "quit" /\ m.late = Quitting /\ m.epoch = 0
  <2>1. Quitting \in BOOLEAN
    BY DEF Quitting
  <2> QED
    BY <2>1, Constants DEF Control, MsgRecords
<1> HIDE DEF m, i
<1>6. /\ Workers' /\ Quits' /\ Quitting' = Quitting /\ Quitting
      /\ call'[Main].pc = "quit" /\ call'[Main].i = i + 1
  BY <1>1, <1>2, <1>4, MainGoes
<1>7. /\ queue' \in Seq(MsgRecords) /\ Len(queue') <= QueueSize
      /\ Queued("suspend")' = Queued("suspend") /\ Queued("quit")' = Queued("quit") + 1
  BY <1>1, <1>5, QueuePushed
<1>8. /\ call' \in [Callers -> CallRecords']
      /\ \A d \in Callers \ {Main} : call'[d] = call[d]
      /\ CallersAt("suspend")' = CallersAt("suspend")
      /\ CallersAt("resume")' = CallersAt("resume")
  BY <1>1, <1>3, <1>4, CallerGoes, CountTypes DEF Pcs, Is
<1>9. ThreadsAt("done")' = ThreadsAt("done") /\ ThreadsAt("suspended")' = ThreadsAt("suspended")
  BY <1>1, CountsSame
<1>10. TypeOK'
  <2>1. QueueType' /\ CallType'
    BY <1>7, <1>8 DEF QueueType, CallType
  <2> QED
    BY <1>1, <2>1, TypesSame, TypeParts
<1>11. Suspensions'
  <2>1. Held' = Held
    BY <1>1 DEF Held
  <2> QED
    BY <1>1, <1>2, <2>1 DEF Suspensions
<1>12. SuspendFirst'
  <2>1. epoch \in Nat /\ (cnt > 0 => epoch > 0)
    BY <1>1, <1>2, Constants DEF TypeOK, Suspensions
  <2>2. m.epoch <= epoch /\ ~(m.epoch = epoch /\ cnt > 0)
    BY <1>5, <2>1
  <2>3. \A d \in Callers : call'[d].pc = "suspend" => call[d].pc = "suspend"
    BY <1>6, <1>8
  <2> QED
    BY <1>1, <1>2, <1>5, <2>2, <2>3, FirstPushed
<1>13. SuspendBalance' /\ Asleep'
  <2>1. One(cnt > 0)' = One(cnt > 0)
    BY <1>1 DEF One
  <2>2. SuspendBalance'
    BY <1>1, <1>2, <1>7, <1>8, <2>1 DEF SuspendBalance
  <2> QED
    BY <1>1, <1>2, <1>9, <2>2, AsleepSame
<1>14. QuitsMatch'
  <2>1. ~overlap => Queued("quit") + ThreadsAt("done") + lostQuits = i
    BY <1>1, <1>2 DEF QuitsMatch, i
  <2>2. Queued("quit") \in Nat /\ ThreadsAt("done") \in Nat /\ lostQuits \in Nat
    BY <1>1, CountTypes
  <2>3. ~overlap => (Queued("quit") + 1) + ThreadsAt("done") + lostQuits = i + 1
    BY <1>3, <2>1, <2>2 DEF i
  <2> QED
    BY <1>1, <1>6, <1>7, <1>9, <2>3 DEF QuitsMatch
<1>15. Joins'
  BY <1>1, <1>2, <1>3, <1>6 DEF Joins
<1>16. LateLast'
  BY <1>1, <1>2, <1>5, <1>6, LatePushed
<1> QED
  BY <1>6, <1>10, <1>11, <1>12, <1>13, <1>14, <1>15, <1>16 DEF IInv

\* So does the return of quit, after as many messages as there are workers.
LEMMA QuitReturnsIInv ==
    ASSUME IInv, QuitReturns
    PROVE  IInv'
<1>1. /\ TypeOK /\ call[Main].pc = "quit" /\ call[Main].i >= actv /\ Goto(Main, "join", 1)
      /\ UNCHANGED <<kind, queue, thread, crashed, strayed, signals, lostQuits, posts, cnt,
                     sem, holds, suspends, epoch, tokens, surplus, actv, overlap>>
  BY DEF QuitReturns, IInv, At
<1>2. Workers /\ Quits /\ Joins /\ QuitsMatch /\ LateLast /\ SuspendFirst /\ SuspendBalance
      /\ Asleep /\ Suspensions
  BY DEF IInv
<1>3. /\ Main \in Callers /\ Slots' = Slots /\ Slots = 1 .. MaxWorkers /\ Size' = Size
      /\ Size \in Nat /\ Size >= 1 /\ 1 \in 0 .. Size + 1
      /\ actv \in Nat /\ call[Main].i \in Nat
  BY <1>1, Constants, TypesSame DEF TypeOK
<1>4. /\ Workers' /\ Quits' /\ Quitting' = Quitting
      /\ call'[Main].pc = "join" /\ call'[Main].i = 1
  BY <1>1, <1>2, <1>3, MainGoes
<1>5. ThreadsAt("done")' = ThreadsAt("done") /\ ThreadsAt("suspended")' = ThreadsAt("suspended")
      /\ Queued("quit")' = Queued("quit")
  BY <1>1, CountsSame
<1>6. Suspensions' /\ SuspendFirst' /\ SuspendBalance' /\ Asleep' /\ CallType'
  BY <1>1, <1>2, <1>3, <1>5, SuspendNeutral DEF Pcs
<1>7. TypeOK'
  BY <1>1, <1>6, TypesSame, TypeParts
<1>8. QuitsMatch'
  <2>1. call[Main].i = actv
    BY <1>1, <1>2, <1>3 DEF Quits
  <2> QED
    BY <1>1, <1>2, <1>4, <1>5, <2>1 DEF QuitsMatch
<1>9. Joins'
  <2>1. \A j \in Slots : ~(j < 1)
    BY <1>3, Constants
  <2> QED
    BY <1>1, <1>2, <1>3, <1>4, <2>1 DEF Joins
<1> QED
  BY <1>1, <1>2, <1>4, <1>6, <1>7, <1>8, <1>9, LateSame DEF IInv

\* join, of one more worker or upon a null pointer, preserves the invariant.
LEMMA JoinIInv ==
    ASSUME IInv, Join
    PROVE  IInv'
<1> DEFINE i == call[Main].i
<1>1. /\ TypeOK /\ call[Main].pc = "join" /\ i <= Size
      /\ UNCHANGED <<kind, queue, thread, strayed, signals, lostQuits, posts, cnt, sem,
                     holds, suspends, epoch, tokens, surplus, actv, overlap>>
      /\ \/ thread[i] = "none" /\ crashed' = TRUE /\ UNCHANGED call
         \/ thread[i] \in {"waiting", "done"} /\ Goto(Main, "join", i + 1) /\ UNCHANGED crashed
  BY DEF Join, IInv, At
<1>2. Workers /\ Quits /\ Joins /\ QuitsMatch /\ LateLast /\ SuspendFirst /\ SuspendBalance
      /\ Asleep /\ Suspensions
  BY DEF IInv
<1>3. /\ Main \in Callers /\ Slots' = Slots /\ Slots = 1 .. MaxWorkers /\ Size' = Size
      /\ Size \in Nat /\ 1 .. Size \subseteq Slots /\ MaxWorkers \in Nat
      /\ actv \in Nat /\ i \in Nat
  BY <1>1, Constants, TypesSame DEF TypeOK
<1>4. i + 1 \in 0 .. Size + 1
  BY <1>1, <1>3
<1>5. ~overlap => ~Adding /\ i >= 1 /\ i \in Slots
  BY <1>1, <1>2, <1>3 DEF Quits, Quitting, Joins
<1>6. ThreadsAt("done")' = ThreadsAt("done") /\ ThreadsAt("suspended")' = ThreadsAt("suspended")
      /\ Queued("quit")' = Queued("quit") /\ Queued("suspend")' = Queued("suspend")
  BY <1>1, CountsSame
<1>7. CASE thread[i] = "none" /\ crashed' = TRUE /\ UNCHANGED call
  <2>1. TypeOK'
    <3>1. RestType'
      BY <1>1, <1>7 DEF TypeOK, RestType
    <3> QED
      BY <1>1, <1>7, <3>1, TypesSame, TypeParts
  <2>2. Suspensions' /\ SuspendFirst' /\ SuspendBalance' /\ Asleep'
    <3>1. Held' = Held
      BY <1>1 DEF Held
    <3>2. Suspensions' /\ SuspendFirst' /\ SuspendBalance'
      BY <1>1, <1>2, <1>6, <1>7, <3>1, CountsSame DEF Suspensions, SuspendFirst, SuspendBalance
    <3> QED
      BY <1>1, <1>2, <1>6, <3>2, AsleepSame
  <2>3. Workers' /\ Quits' /\ QuitsMatch' /\ Quitting' = Quitting
    BY <1>1, <1>2, <1>3, <1>6, <1>7 DEF Workers, Quits, QuitsMatch, Quitting, Adding
  <2>4. ~overlap => actv < Size
    BY <1>1, <1>2, <1>3, <1>5, <1>7 DEF Workers, Adding
  <2>5. Joins'
    BY <1>1, <1>2, <1>3, <1>7, <2>4 DEF Joins
  <2> QED
    BY <1>1, <1>2, <2>1, <2>2, <2>3, <2>5, LateSame DEF IInv
<1>8. CASE thread[i] \in {"waiting", "done"} /\ Goto(Main, "join", i + 1) /\ UNCHANGED crashed
  <2> HIDE DEF i
  <2>1. /\ Workers' /\ Quits' /\ Quitting' = Quitting
        /\ call'[Main].pc = "join" /\ call'[Main].i = i + 1
    BY <1>1, <1>2, <1>4, <1>8, MainGoes
  <2>2. Suspensions' /\ SuspendFirst' /\ SuspendBalance' /\ Asleep' /\ CallType'
    BY <1>1, <1>2, <1>3, <1>4, <1>6, <1>8, SuspendNeutral DEF Pcs
  <2>3. TypeOK'
    BY <1>1, <1>8, <2>2, TypesSame, TypeParts
  <2>4. QuitsMatch'
    BY <1>1, <1>2, <1>6, <2>1 DEF QuitsMatch
  <2>5. ~overlap => thread[i] = "done"
    BY <1>2, <1>5, <1>8 DEF Workers, Adding
  <2>6. Joins'
    <3>1. \A j \in Slots : j < i + 1 => j < i \/ j = i
      BY <1>3
    <3> QED
      BY <1>1, <1>2, <1>3, <1>8, <2>1, <2>5, <3>1 DEF Joins, i
  <2> QED
    BY <1>1, <1>2, <2>1, <2>2, <2>3, <2>4, <2>6, LateSame DEF IInv
<1> QED
  BY <1>1, <1>7, <1>8

\* So does its return.
LEMMA JoinReturnsIInv ==
    ASSUME IInv, JoinReturns
    PROVE  IInv'
<1>1. /\ TypeOK /\ call[Main].pc = "join" /\ call[Main].i > Size /\ Goto(Main, "joined", 0)
      /\ UNCHANGED <<kind, queue, thread, crashed, strayed, signals, lostQuits, posts, cnt,
                     sem, holds, suspends, epoch, tokens, surplus, actv, overlap>>
  BY DEF JoinReturns, IInv, At
<1>2. Workers /\ Quits /\ Joins /\ QuitsMatch /\ LateLast /\ SuspendFirst /\ SuspendBalance
      /\ Asleep /\ Suspensions
  BY DEF IInv
<1>3. /\ Main \in Callers /\ Size' = Size /\ Size \in Nat /\ 1 .. Size \subseteq Slots
      /\ 0 \in 0 .. Size + 1 /\ call[Main].i \in Nat
  BY <1>1, Constants, TypesSame DEF TypeOK
<1>4. /\ Workers' /\ Quits' /\ Quitting' = Quitting
      /\ call'[Main].pc = "joined" /\ call'[Main].i = 0
  BY <1>1, <1>2, <1>3, MainGoes
<1>5. ThreadsAt("done")' = ThreadsAt("done") /\ ThreadsAt("suspended")' = ThreadsAt("suspended")
      /\ Queued("quit")' = Queued("quit")
  BY <1>1, CountsSame
<1>6. Suspensions' /\ SuspendFirst' /\ SuspendBalance' /\ Asleep' /\ CallType'
  BY <1>1, <1>2, <1>3, <1>5, SuspendNeutral DEF Pcs
<1>7. TypeOK'
  BY <1>1, <1>6, TypesSame, TypeParts
<1>8. QuitsMatch'
  BY <1>1, <1>2, <1>4, <1>5 DEF QuitsMatch
<1>9. Joins'
  <2>1. \A j \in 1 .. Size : j < call[Main].i /\ j \in Slots
    BY <1>1, <1>3
  <2> QED
    BY <1>1, <1>2, <1>3, <1>4, <2>1 DEF Joins
<1> QED
  BY <1>1, <1>2, <1>4, <1>6, <1>7, <1>8, <1>9, LateSame DEF IInv

-------------------------------------------------------------------------------
(* The threads. *)

\* A thread that goes on without a message, and not to its end, disturbs only the
\* suspensions.
LEMMA ThreadFree ==
    ASSUME IInv, NEW i \in Slots, NEW st \in {"pump", "handling", "suspended"},
           thread' = [thread EXCEPT ![i] = st], thread[i] \in {"pump", "handling", "suspended"},
           UNCHANGED <<kind, queue, call, crashed, strayed, lostQuits, posts, cnt, holds,
                       suspends, epoch, actv, overlap>>,
           signals' \in 0 .. MaxSignals
    PROVE  /\ QueueType' /\ ThreadType' /\ CallType' /\ RestType'
           /\ Suspensions' /\ SuspendFirst' /\ Workers' /\ Quits' /\ QuitsMatch' /\ Joins'
           /\ LateLast'
           /\ Queued("suspend")' = Queued("suspend")
           /\ CallersAt("suspend")' = CallersAt("suspend")
           /\ CallersAt("resume")' = CallersAt("resume")
<1>1. TypeOK /\ Workers /\ Quits /\ Joins /\ QuitsMatch /\ LateLast /\ SuspendFirst /\ Suspensions
  BY DEF IInv
<1>2. /\ Slots' = Slots /\ Size' = Size /\ st \in States /\ actv \in 1 .. Size
  BY <1>1, TypesSame DEF States, TypeOK
<1>3. /\ thread' \in [Slots -> States]
      /\ thread'[i] = st
      /\ \A j \in Slots \ {i} : thread'[j] = thread[j]
      /\ ThreadsAt("done")' =
            ThreadsAt("done") - Is(thread[i], {"done"}) + Is(st, {"done"})
  BY <1>1, <1>2, ThreadGoes
<1>4. ThreadsAt("done")' = ThreadsAt("done")
  <2>1. Is(thread[i], {"done"}) = 0 /\ Is(st, {"done"}) = 0
    BY DEF Is
  <2> QED
    BY <1>1, <1>3, <2>1, CountTypes
<1>5. \A j \in Slots :
         /\ thread'[j] = "none" <=> thread[j] = "none"
         /\ thread'[j] = "waiting" <=> thread[j] = "waiting"
         /\ thread'[j] = "done" <=> thread[j] = "done"
  BY <1>3
<1>6. Workers' /\ Quits' /\ Joins'
  BY <1>1, <1>2, <1>5, CallsUntouched
<1>7. QueueType' /\ ThreadType' /\ CallType' /\ RestType'
  <2>1. ThreadType'
    BY <1>2, <1>3 DEF ThreadType, States
  <2>2. RestType'
    BY <1>1 DEF RestType, TypeOK
  <2> QED
    BY <1>1, <1>2, <2>1, <2>2, TypesSame
<1>8. Suspensions' /\ SuspendFirst'
  <2>1. Held' = Held
    BY DEF Held
  <2> QED
    BY <1>1, <2>1 DEF Suspensions, SuspendFirst
<1>9. QuitsMatch' /\ LateLast'
  <2>1. Quitting' = Quitting
    BY DEF Quitting
  <2>2. Queued("quit")' = Queued("quit")
    BY CountsSame
  <2> QED
    BY <1>1, <1>2, <1>4, <1>5, <2>1, <2>2 DEF QuitsMatch, LateLast
<1> QED
  BY <1>6, <1>7, <1>8, <1>9, CountsSame

\* The return of a handler preserves the invariant.
LEMMA HandlerReturnsIInv ==
    ASSUME IInv, NEW i \in Slots, HandlerReturns(i)
    PROVE  IInv'
<1>1. /\ thread[i] = "handling" /\ thread' = [thread EXCEPT ![i] = "pump"] /\ TypeOK
      /\ UNCHANGED <<kind, queue, call, crashed, strayed, signals, lostQuits, posts, cnt,
                     sem, holds, suspends, epoch, tokens, surplus, actv, overlap>>
  BY DEF HandlerReturns, Turns, IInv
<1>2. /\ QueueType' /\ ThreadType' /\ CallType' /\ RestType'
      /\ Suspensions' /\ SuspendFirst' /\ Workers' /\ Quits' /\ QuitsMatch' /\ Joins'
      /\ LateLast'
      /\ Queued("suspend")' = Queued("suspend")
      /\ CallersAt("suspend")' = CallersAt("suspend")
      /\ CallersAt("resume")' = CallersAt("resume")
  <2>1. signals' \in 0 .. MaxSignals
    BY <1>1 DEF TypeOK
  <2> QED
    BY <1>1, <2>1, ThreadFree
<1>3. TypeOK'
  BY <1>1, <1>2, TypesSame, TypeParts
<1>4. ThreadsAt("suspended")' = ThreadsAt("suspended")
  <2>1. "pump" \in States
    BY DEF States
  <2> QED
    BY <1>1, <2>1, ThreadNeutral
<1>5. SuspendBalance' /\ Asleep'
  BY <1>1, <1>2, <1>4, AsleepSame DEF IInv, SuspendBalance
<1> QED
  BY <1>2, <1>3, <1>5 DEF IInv

\* The end of a suspension preserves the invariant.
LEMMA WakeSemIInv ==
    ASSUME IInv, NEW i \in Slots, WakeSem(i)
    PROVE  IInv'
<1>1. /\ thread[i] = "suspended" /\ thread' = [thread EXCEPT ![i] = "pump"] /\ TypeOK
      /\ tokens > 0 /\ tokens' = tokens - 1
      /\ UNCHANGED <<kind, queue, call, crashed, strayed, signals, lostQuits, posts, cnt,
                     sem, holds, suspends, epoch, surplus, actv, overlap>>
  BY DEF WakeSem, Turns, IInv
<1>2. /\ QueueType' /\ ThreadType' /\ CallType' /\ RestType'
      /\ Suspensions' /\ SuspendFirst' /\ Workers' /\ Quits' /\ QuitsMatch' /\ Joins'
      /\ LateLast'
      /\ Queued("suspend")' = Queued("suspend")
      /\ CallersAt("suspend")' = CallersAt("suspend")
      /\ CallersAt("resume")' = CallersAt("resume")
  <2>1. signals' \in 0 .. MaxSignals
    BY <1>1 DEF TypeOK
  <2> QED
    BY <1>1, <2>1, ThreadFree
<1>3. TypeOK'
  <2>1. CountType'
    BY <1>1 DEF TypeOK, CountType
  <2> QED
    BY <1>2, <2>1, TypeParts
<1>4. ThreadsAt("suspended")' = ThreadsAt("suspended") - 1
  BY <1>1, ThreadWakes
<1>5. SuspendBalance'
  BY <1>1, <1>2 DEF IInv, SuspendBalance
<1>6. Asleep'
  BY <1>1, <1>4, CountTypes DEF IInv, Asleep
<1> QED
  BY <1>2, <1>3, <1>5, <1>6 DEF IInv

\* A message taken and dispatched preserves the invariant.
LEMMA PumpMessageIInv ==
    ASSUME IInv, NEW i \in Slots, PumpMessage(i)
    PROVE  IInv'
<1> DEFINE h == Head(queue)
<1>1. /\ thread[i] = "pump" /\ queue # << >> /\ queue' = Tail(queue) /\ TypeOK
      /\ UNCHANGED <<kind, call, crashed, strayed, signals, lostQuits, posts, cnt, holds,
                     suspends, epoch, tokens, surplus, actv, overlap>>
  BY DEF PumpMessage, IInv
<1>2. PICK st \in States :
         /\ thread' = [thread EXCEPT ![i] = st]
         /\ \/ h.type = "user" /\ st = "handling" /\ sem' = sem
            \/ h.type = "quit" /\ st = "done" /\ sem' = sem
            \/ h.type = "suspend" /\ st = "suspended" /\ sem' = sem - 1 /\ sem <= 0
            \/ h.type = "suspend" /\ st = "pump" /\ sem' = sem - 1 /\ sem > 0
  <2>1. sem \in Int
    BY <1>1 DEF TypeOK
  <2> QED
    BY <2>1 DEF PumpMessage, Turns, States
<1>3. Workers /\ Quits /\ Joins /\ QuitsMatch /\ LateLast /\ SuspendFirst /\ SuspendBalance
      /\ Asleep /\ Suspensions
  BY DEF IInv
<1>4. /\ queue' \in Seq(MsgRecords) /\ Len(queue') <= QueueSize
      /\ Len(queue) \in Nat \ {0} /\ DOMAIN queue = 1 .. Len(queue)
      /\ DOMAIN queue' = 1 .. Len(queue) - 1
      /\ \A k \in 1 .. Len(queue) - 1 : queue'[k] = queue[k + 1]
      /\ h = queue[1] /\ h \in MsgRecords
      /\ Queued("suspend")' = Queued("suspend") - Is(h.type, {"suspend"})
      /\ Queued("quit")' = Queued("quit") - Is(h.type, {"quit"})
  BY <1>1, QueueTaken
<1> HIDE DEF h
<1>5. Slots' = Slots /\ Size' = Size /\ actv \in 1 .. Size
  BY <1>1, TypesSame DEF TypeOK
<1>6. /\ thread' \in [Slots -> States]
      /\ thread'[i] = st
      /\ \A j \in Slots \ {i} : thread'[j] = thread[j]
      /\ ThreadsAt("suspended")' =
            ThreadsAt("suspended") - Is(thread[i], {"suspended"}) + Is(st, {"suspended"})
      /\ ThreadsAt("done")' =
            ThreadsAt("done") - Is(thread[i], {"done"}) + Is(st, {"done"})
  BY <1>1, <1>2, ThreadGoes
<1>7. \A j \in Slots :
         /\ thread'[j] = "none" <=> thread[j] = "none"
         /\ thread'[j] = "waiting" <=> thread[j] = "waiting"
         /\ thread[j] = "done" => thread'[j] = "done"
         /\ thread'[j] = "done" => thread[j] = "done" \/ h.type = "quit"
  BY <1>1, <1>2, <1>6
<1>8. Workers' /\ Quits' /\ Joins'
  BY <1>1, <1>3, <1>7, CallsUntouched
<1>9. TypeOK'
  <2>1. ThreadType' /\ QueueType'
    BY <1>1, <1>4, <1>5, <1>6 DEF ThreadType, QueueType
  <2>2. CountType'
    <3>1. sem' \in Int
      BY <1>1, <1>2, CountTypes
    <3> QED
      BY <1>1, <3>1 DEF CountType, TypeOK
  <2> QED
    BY <1>1, <2>1, <2>2, TypesSame, TypeParts
<1>10. Suspensions' /\ SuspendFirst'
  <2>1. Held' = Held
    BY <1>1 DEF Held
  <2>2. Suspensions'
    BY <1>1, <1>3, <2>1 DEF Suspensions
  <2>3. \A k \in DOMAIN queue' : k + 1 \in DOMAIN queue /\ queue'[k] = queue[k + 1]
    BY <1>4
  <2>4. \A k, l \in DOMAIN queue' : l > k => l + 1 > k + 1
    BY <1>4
  <2>5. SuspendFirst'
    BY <1>1, <1>3, <2>3, <2>4 DEF SuspendFirst
  <2> QED
    BY <2>2, <2>5
<1>11. SuspendBalance'
  <2> DEFINE one == One(cnt > 0)
             x == Is(h.type, {"suspend"})
  <2>1. one \in Nat
    BY DEF One
  <2>2. x \in Nat /\ sem' = sem - x
    BY <1>1, <1>2, CountTypes DEF Is
  <2>3. Queued("suspend")' = Queued("suspend") - x /\ surplus' = surplus
    BY <1>1, <1>4
  <2>4. Queued("suspend") + CallersAt("suspend") + surplus = sem + CallersAt("resume") + one
    BY <1>3 DEF SuspendBalance
  <2> HIDE DEF one, x
  <2>5. /\ Queued("suspend") \in Nat /\ CallersAt("suspend") \in Nat /\ surplus \in Nat
        /\ sem \in Int /\ CallersAt("resume") \in Nat
    BY <1>1, CountTypes
  <2>6. Queued("suspend") - x + CallersAt("suspend") + surplus
          = sem - x + CallersAt("resume") + one
    BY <2>1, <2>2, <2>4, <2>5
  <2>7. /\ CallersAt("suspend")' = CallersAt("suspend")
        /\ CallersAt("resume")' = CallersAt("resume")
        /\ One(cnt > 0)' = one
    BY <1>1, CountsSame DEF One, one
  <2> QED
    BY <2>2, <2>3, <2>6, <2>7 DEF SuspendBalance
<1>12. Asleep'
  <2>1. Is(thread[i], {"suspended"}) = 0
    BY <1>1 DEF Is
  <2>2. \/ Is(st, {"suspended"}) = 0 /\ sem' = sem
        \/ Is(st, {"suspended"}) = 1 /\ sem' = sem - 1 /\ sem <= 0
        \/ Is(st, {"suspended"}) = 0 /\ sem' = sem - 1 /\ sem > 0
    BY <1>2 DEF Is
  <2>3. ThreadsAt("suspended")' = ThreadsAt("suspended") + Is(st, {"suspended"})
    BY <1>1, <1>6, <2>1, <2>2, CountTypes
  <2> QED
    BY <1>1, <1>3, <2>2, <2>3, CountTypes DEF Asleep
<1>13. QuitsMatch'
  <2>1. /\ Is(h.type, {"quit"}) = Is(st, {"done"}) /\ Is(h.type, {"quit"}) \in Nat
        /\ Is(thread[i], {"done"}) = 0
    BY <1>1, <1>2 DEF Is
  <2>2. Queued("quit")' + ThreadsAt("done")' = Queued("quit") + ThreadsAt("done")
    BY <1>1, <1>4, <1>6, <2>1, CountTypes
  <2> QED
    BY <1>1, <1>3, <2>2 DEF QuitsMatch
<1>14. LateLast'
  <2>1. \A k \in DOMAIN queue' : k + 1 \in DOMAIN queue /\ queue'[k] = queue[k + 1]
    BY <1>4
  <2>2. \A k, l \in DOMAIN queue' : k < l => k + 1 < l + 1
    BY <1>4
  <2>3. Quitting' = Quitting
    BY <1>1 DEF Quitting
  <2>4. h.type = "quit" => Quitting /\ \A k \in DOMAIN queue : queue[k].late
    <3>1. 1 \in DOMAIN queue /\ \A k \in DOMAIN queue : k = 1 \/ 1 < k
      BY <1>4
    <3> QED
      BY <1>3, <1>4, <3>1 DEF LateLast
  <2>5. (\E j \in Slots : thread'[j] = "done") =>
            Quitting /\ \A k \in DOMAIN queue : queue[k].late
    BY <1>3, <1>7, <2>4 DEF LateLast
  <2> QED
    BY <1>3, <1>5, <2>1, <2>2, <2>3, <2>5 DEF LateLast
<1> QED
  BY <1>8, <1>9, <1>10, <1>11, <1>12, <1>13, <1>14 DEF IInv

-------------------------------------------------------------------------------
(* Signals. *)

\* The end of a suspension by a signal preserves the invariant.
LEMMA DecrementInterruptedIInv ==
    ASSUME IInv, NEW i \in Slots, DecrementInterrupted(i)
    PROVE  IInv'
<1>1. /\ thread[i] = "suspended" /\ thread' = [thread EXCEPT ![i] = "pump"] /\ TypeOK
      /\ sem' = sem + 1 /\ surplus' = surplus + 1
      /\ signals' = signals + 1 /\ signals < MaxSignals
      /\ UNCHANGED <<kind, queue, call, crashed, strayed, lostQuits, posts, cnt, holds,
                     suspends, epoch, tokens, actv, overlap>>
  BY DEF DecrementInterrupted, Broken, Turns, IInv
<1>2. /\ QueueType' /\ ThreadType' /\ CallType' /\ RestType'
      /\ Suspensions' /\ SuspendFirst' /\ Workers' /\ Quits' /\ QuitsMatch' /\ Joins'
      /\ LateLast'
      /\ Queued("suspend")' = Queued("suspend")
      /\ CallersAt("suspend")' = CallersAt("suspend")
      /\ CallersAt("resume")' = CallersAt("resume")
  <2>1. signals' \in 0 .. MaxSignals
    BY <1>1, Constants DEF TypeOK
  <2> QED
    BY <1>1, <2>1, ThreadFree
<1>3. TypeOK'
  <2>1. CountType'
    BY <1>1 DEF TypeOK, CountType
  <2> QED
    BY <1>2, <2>1, TypeParts
<1>4. SuspendBalance'
  <2>1. One(cnt > 0)' = One(cnt > 0) /\ One(cnt > 0) \in Nat
    BY <1>1 DEF One
  <2> QED
    BY <1>1, <1>2, <2>1, CountTypes DEF IInv, SuspendBalance
<1>5. Asleep'
  BY <1>1, CountTypes DEF Asleep
<1> QED
  BY <1>2, <1>3, <1>4, <1>5 DEF IInv

\* The end of a push by a signal preserves the invariant.
LEMMA PushInterruptedIInv ==
    ASSUME IInv, NEW c \in Callers, PushInterrupted(c)
    PROVE  IInv'
<1> DEFINE i == call[c].i
<1>1. /\ TypeOK /\ signals' = signals + 1 /\ signals < MaxSignals
      /\ UNCHANGED <<kind, queue, thread, crashed, strayed, posts, cnt, sem, holds, suspends,
                     epoch, tokens, actv, overlap>>
  BY DEF PushInterrupted, Broken, IInv
<1>2. Workers /\ Quits /\ Joins /\ QuitsMatch /\ LateLast /\ SuspendFirst /\ SuspendBalance
      /\ Asleep /\ Suspensions
  BY DEF IInv
<1>3. \/ call[c].pc = "send" /\ Goto(c, "none", 0) /\ UNCHANGED <<lostQuits, surplus>>
      \/ /\ call[c].pc = "suspend" /\ Goto(c, "none", 0)
         /\ surplus' = surplus + 1 /\ UNCHANGED lostQuits
      \/ /\ c = Main /\ call[Main].pc = "quit" /\ i < actv /\ Goto(Main, "quit", i + 1)
         /\ lostQuits' = lostQuits + 1 /\ UNCHANGED surplus
  BY DEF PushInterrupted, Pushing
<1>4. /\ Queued("quit")' = Queued("quit") /\ Queued("suspend")' = Queued("suspend")
      /\ ThreadsAt("suspended")' = ThreadsAt("suspended")
      /\ ThreadsAt("done")' = ThreadsAt("done")
  BY <1>1, CountsSame
<1>5. RestType'
  <2>1. lostQuits' \in Nat
    BY <1>1, <1>3, CountTypes
  <2> QED
    BY <1>1, <2>1, Constants DEF RestType, TypeOK
<1>6. CASE call[c].pc = "send" /\ Goto(c, "none", 0) /\ UNCHANGED <<lostQuits, surplus>>
  <2>1. Suspensions' /\ SuspendFirst' /\ SuspendBalance' /\ Asleep' /\ CallType'
    BY <1>1, <1>2, <1>4, <1>6, Constants, SuspendNeutral DEF Pcs
  <2>2. TypeOK'
    BY <1>1, <1>5, <1>6, <2>1, TypesSame, TypeParts
  <2>3. call'[c].pc = "none" /\ \A d \in Callers \ {c} : call'[d] = call[d]
    BY <1>1, <1>6, CallerTurns DEF Pcs
  <2>4. Workers' /\ Quits' /\ Joins' /\ QuitsMatch' /\ Quitting' = Quitting
    BY <1>1, <1>2, <1>4, <1>6, <2>3, CallNeutral DEF Free
  <2> QED
    BY <1>1, <1>2, <2>1, <2>2, <2>4, LateSame DEF IInv
<1>7. CASE /\ call[c].pc = "suspend" /\ Goto(c, "none", 0)
           /\ surplus' = surplus + 1 /\ UNCHANGED lostQuits
  <2> HIDE DEF i
  <2>1. /\ call' \in [Callers -> CallRecords']
        /\ call'[c].pc = "none"
        /\ \A d \in Callers \ {c} : call'[d] = call[d]
        /\ CallersAt("suspend")' = CallersAt("suspend") - 1
        /\ CallersAt("resume")' = CallersAt("resume")
    BY <1>1, <1>7, CallerTurns DEF Pcs
  <2>2. TypeOK'
    <3>1. CountType' /\ CallType'
      BY <1>1, <1>7, <2>1 DEF CountType, CallType, TypeOK
    <3> QED
      BY <1>1, <1>5, <3>1, TypesSame, TypeParts
  <2>3. Suspensions' /\ SuspendFirst'
    <3>1. Held' = Held
      BY <1>1 DEF Held
    <3> QED
      BY <1>1, <1>2, <2>1, <3>1 DEF Suspensions, SuspendFirst
  <2>4. SuspendBalance'
    <3>1. One(cnt > 0)' = One(cnt > 0) /\ One(cnt > 0) \in Nat
      BY <1>1 DEF One
    <3> QED
      BY <1>1, <1>2, <1>4, <1>7, <2>1, <3>1, CountTypes DEF SuspendBalance
  <2>5. Asleep'
    BY <1>1, <1>7, CountTypes DEF Asleep
  <2>6. Workers' /\ Quits' /\ Joins' /\ QuitsMatch' /\ Quitting' = Quitting
    BY <1>1, <1>2, <1>4, <1>7, <2>1, CallNeutral DEF Free
  <2> QED
    BY <1>1, <1>2, <2>2, <2>3, <2>4, <2>5, <2>6, LateSame DEF IInv
<1>8. CASE /\ c = Main /\ call[Main].pc = "quit" /\ i < actv /\ Goto(Main, "quit", i + 1)
           /\ lostQuits' = lostQuits + 1 /\ UNCHANGED surplus
  <2>1. i \in Nat /\ i + 1 \in 0 .. Size + 1 /\ i + 1 <= actv
    BY <1>1, <1>8, Constants DEF TypeOK
  <2>2. ~overlap => Queued("quit") + ThreadsAt("done") + lostQuits = i
    BY <1>2, <1>8 DEF QuitsMatch
  <2> HIDE DEF i
  <2>3. /\ Workers' /\ Quits' /\ Quitting' = Quitting /\ Quitting
        /\ call'[Main].pc = "quit" /\ call'[Main].i = i + 1
    BY <1>1, <1>2, <1>8, <2>1, MainGoes
  <2>4. Suspensions' /\ SuspendFirst' /\ SuspendBalance' /\ Asleep' /\ CallType'
    BY <1>1, <1>2, <1>4, <1>8, <2>1, SuspendNeutral DEF Pcs
  <2>5. TypeOK'
    BY <1>1, <1>5, <1>8, <2>4, TypesSame, TypeParts
  <2>6. QuitsMatch'
    BY <1>1, <1>4, <1>8, <2>1, <2>2, <2>3, CountTypes DEF QuitsMatch
  <2>7. Joins'
    <3>1. Slots' = Slots /\ Size' = Size
      BY <1>1, TypesSame
    <3> QED
      BY <1>1, <1>2, <2>3, <3>1 DEF Joins
  <2> QED
    BY <1>1, <1>2, <2>3, <2>4, <2>5, <2>6, <2>7, LateSame DEF IInv
<1> QED
  BY <1>3, <1>6, <1>7, <1>8

\* A step that changes at most posts, strayed and signals, within their types,
\* preserves the invariant.
LEMMA NothingElse ==
    ASSUME IInv, RestType',
           UNCHANGED <<kind, queue, thread, call, crashed, lostQuits, cnt, sem, holds, suspends,
                       epoch, tokens, surplus, actv, overlap>>
    PROVE  IInv'
<1>1. TypeOK'
  BY TypesSame, TypeParts DEF IInv
<1>2. Suspensions' /\ SuspendFirst' /\ SuspendBalance'
  <2>1. Held' = Held
    BY DEF Held
  <2> QED
    BY <2>1, CountsSame DEF IInv, Suspensions, SuspendFirst, SuspendBalance
<1>3. Workers' /\ Quits' /\ Joins'
  BY CallsUntouched DEF IInv
<1>4. QuitsMatch' /\ LateLast' /\ Asleep'
  <2>1. Quitting' = Quitting
    BY DEF Quitting
  <2> QED
    BY <2>1, CountsSame, LateSame, AsleepSame DEF IInv, QuitsMatch
<1> QED
  BY <1>1, <1>2, <1>3, <1>4 DEF IInv

\* A token of the queue that is left over disturbs nothing before it is used.
LEMMA TokenStraysIInv ==
    ASSUME IInv, TokenStrays
    PROVE  IInv'
<1>1. RestType'
  BY Constants DEF TokenStrays, Broken, IInv, TypeOK, RestType
<1>2. UNCHANGED <<kind, queue, thread, call, crashed, lostQuits, cnt, sem, holds, suspends,
                  epoch, tokens, surplus, actv, overlap>>
  BY DEF TokenStrays
<1> QED
  BY <1>1, <1>2, NothingElse

-------------------------------------------------------------------------------
\* Every step preserves the invariant.
LEMMA NextIInv ==
    ASSUME IInv, [Next]_vars
    PROVE  IInv'
<1>1. CASE UNCHANGED vars
  <2>1. UNCHANGED <<kind, queue, thread, call, crashed, strayed, signals, lostQuits, posts,
                    cnt, sem, holds, suspends, epoch, tokens, surplus, actv, overlap>>
    BY <1>1 DEF vars
  <2>2. RestType'
    BY <2>1, TypesSame DEF IInv
  <2> QED
    BY <2>1, <2>2, NothingElse
<1>2. CASE \E c \in Callers :
             SendMessage(c) \/ Suspend(c) \/ Resume(c) \/ AddWorker(c) \/ GoOn(c)
  BY <1>2, SendMessageIInv, PushMessageIInv, SuspendIInv, ResumeIInv, AddWorkerIInv,
     SendSuspendIInv,
     IncrementSemIInv, CreateWorkerIInv, RunWorkerIInv DEF GoOn
<1>3. CASE Quit \/ QuitAndJoin
  BY <1>3, QuitIInv, SendQuitIInv, QuitReturnsIInv, JoinIInv, JoinReturnsIInv DEF QuitAndJoin
<1>4. CASE \E i \in Slots : Thread(i) \/ DecrementInterrupted(i)
  BY <1>4, PumpMessageIInv, HandlerReturnsIInv, WakeSemIInv, DecrementInterruptedIInv DEF Thread
<1>5. CASE (\E c \in Callers : PushInterrupted(c)) \/ TokenStrays
  BY <1>5, PushInterruptedIInv, TokenStraysIInv
<1> QED
  BY <1>1, <1>2, <1>3, <1>4, <1>5 DEF Next

\* The inductive invariant holds in every reachable state.
THEOREM Invariant == Spec => []IInv
BY InitIInv, NextIInv, PTL DEF Spec

\* The threads, their queue and the calls stay within their types.
THEOREM TypeCorrect == Spec => []TypeOK
<1>1. IInv => TypeOK
  BY DEF IInv
<1> QED
  BY Invariant, <1>1, PTL

\* suspend and resume: each EM_SUSPEND on its way has its resume in the count of the
\* semaphore or on its way, unless the suspension lasts; each that a signal loses or
\* ends leaves one too many.
THEOREM SuspensionsBalance == Spec => []SuspendBalance
<1>1. IInv => SuspendBalance
  BY DEF IInv
<1> QED
  BY Invariant, <1>1, PTL

\* quit: an EM_QUIT for each worker, and each worker takes one, but for those that
\* signals lose.
THEOREM QuitMatchesWorkers == Spec => []QuitsMatch
<1>1. IInv => QuitsMatch
  BY DEF IInv
<1> QED
  BY Invariant, <1>1, PTL

\* join: when it returns every worker is done and what was sent before quit is
\* handled; it comes upon a null pointer only with fewer workers than the maximum.
THEOREM JoinWaitsForAll == Spec => []JoinComplete
<1>1. IInv => JoinComplete
  <2> SUFFICES ASSUME IInv, ~overlap
               PROVE  /\ call[Main].pc = "joined" =>
                            /\ \A i \in 1 .. Size : thread[i] = "done"
                            /\ \A k \in DOMAIN queue : queue[k].late
                      /\ crashed => actv < Size
    BY DEF JoinComplete
  <2>1. /\ call[Main].pc = "joined" => \A i \in 1 .. Size : thread[i] = "done"
        /\ crashed => actv < Size
    BY DEF IInv, Joins
  <2>2. ASSUME call[Main].pc = "joined"
        PROVE  \A k \in DOMAIN queue : queue[k].late
    <3>1. 1 \in 1 .. Size /\ 1 \in Slots
      BY Constants
    <3>2. thread[1] = "done"
      BY <2>1, <2>2, <3>1
    <3> QED
      BY <3>1, <3>2 DEF IInv, LateLast
  <2> QED
    BY <2>1, <2>2
<1> QED
  BY Invariant, <1>1, PTL

\* suspend: a message sent after it returned is not handled while that suspension
\* lasts, unless a signal has lost or ended one.
THEOREM SuspendStops == Spec => SuspensionHolds
<1> DEFINE Stops ==
             \A i \in Slots :
                thread[i] = "pump" /\ thread'[i] = "handling" /\ cnt > 0 /\ surplus = 0 =>
                    Head(queue).epoch # epoch
<1>1. ASSUME IInv, [Next]_vars PROVE [Stops]_vars
  <2> SUFFICES ASSUME NEW i \in Slots, thread[i] = "pump", thread'[i] = "handling",
                      cnt > 0, surplus = 0, Head(queue).epoch = epoch
               PROVE  FALSE
    OBVIOUS
  <2>1. TypeOK /\ Suspensions /\ SuspendFirst /\ SuspendBalance /\ Asleep /\ Workers
    BY <1>1 DEF IInv
  <2>2. kind # "group" /\ actv = 1
    BY <2>1, Constants DEF Suspensions, TypeOK
  <2>3. PumpMessage(i)
    <3>1. thread' # thread
      OBVIOUS
    <3>2. \A c \in Callers :
             ~(SendMessage(c) \/ Suspend(c) \/ Resume(c) \/ AddWorker(c))
      BY <3>1, <2>2 DEF SendMessage, Suspend, Resume, AddWorker
    <3>3. ~Quit /\ ~QuitAndJoin
      BY <3>1 DEF Quit, QuitAndJoin, SendQuit, QuitReturns, Join, JoinReturns
    <3>4. \A c \in Callers : ~GoOn(c) /\ ~PushInterrupted(c)
      BY <3>1, <2>1, <2>2
      DEF GoOn, PushMessage, SendSuspend, IncrementSem, CreateWorker, RunWorker,
          PushInterrupted, At, Workers
    <3>5. ~TokenStrays
      BY <3>1 DEF TokenStrays
    <3>6. PICK j \in Slots : Thread(j) \/ DecrementInterrupted(j)
      BY <1>1, <3>1, <3>2, <3>3, <3>4, <3>5 DEF Next, vars
    <3>7. thread \in [Slots -> States]
      BY <2>1 DEF TypeOK, States
    <3> QED
      BY <3>6, <3>7
      DEF Thread, PumpMessage, HandlerReturns, WakeSem, DecrementInterrupted, Turns
  <2>4. /\ queue # << >> /\ Len(queue) \in Nat \ {0} /\ DOMAIN queue = 1 .. Len(queue)
        /\ Head(queue) = queue[1] /\ Head(queue).type = "user"
    <3>1. queue # << >> /\ queue' = Tail(queue)
      BY <2>3 DEF PumpMessage
    <3>2. /\ Len(queue) \in Nat \ {0} /\ DOMAIN queue = 1 .. Len(queue)
          /\ Head(queue) = queue[1] /\ Head(queue) \in MsgRecords
      BY <2>1, <3>1, QueueTaken
    <3>3. Head(queue).type = "user"
      BY <2>1, <2>3 DEF PumpMessage, Turns, TypeOK
    <3> QED
      BY <3>1, <3>2, <3>3
  <2>5. /\ \A c \in Callers : call[c].pc # "suspend"
        /\ \A k \in DOMAIN queue : queue[k].type # "suspend"
    <3>1. 1 \in DOMAIN queue /\ \A k \in DOMAIN queue : k = 1 \/ k > 1
      BY <2>4
    <3> QED
      BY <2>1, <2>4, <3>1 DEF SuspendFirst
  <2>6. \A j \in Slots : thread[j] # "suspended"
    <3>1. \A j \in Slots : thread[j] = "none" \/ j = 1
      BY <2>1, <2>2, Constants DEF Workers
    <3>2. i = 1
      BY <3>1
    <3> QED
      BY <3>1, <3>2
  <2>7. Queued("suspend") = 0 /\ CallersAt("suspend") = 0 /\ ThreadsAt("suspended") = 0
    <3>1. /\ {k \in DOMAIN queue : queue[k].type = "suspend"} = {}
          /\ {c \in Callers : call[c].pc = "suspend"} = {}
          /\ {j \in Slots : thread[j] = "suspended"} = {}
      BY <2>5, <2>6
    <3> QED
      BY <3>1, FS_EmptySet DEF Queued, CallersAt, ThreadsAt
  <2>8. sem >= 0
    BY <2>1, <2>7, CountTypes DEF Asleep
  <2> QED
    BY <2>1, <2>7, <2>8, CountTypes DEF SuspendBalance, One
<1> QED
  BY Invariant, <1>1, PTL DEF Spec, SuspensionHolds
===============================================================================
