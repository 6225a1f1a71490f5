----------------------- MODULE PfcpTransactionsProofs -------------------------
(***************************************************************************)
(* The safety of PfcpTransactions, and that it implements PfcpTransaction, *)
(* proved for any number of requests, any T1, N1 and response windows, and *)
(* any environments of the network and of the peer's application.          *)
(***************************************************************************)
EXTENDS PfcpTransactions, CountingLemmas

\* In: the event of that type about r is in the queue q.  Once: not twice.
In(q, type, r) == Event(type, r) \in Queued(q)
Once(q, e) == \A i, j \in DOMAIN q : q[i] = e /\ q[j] = e => i = j

Wnd == [type |-> "RspWnd"]
EventTypes == {"SndMsg", "RcvdRsp", "RcvdRspNull", "SndReq", "ReqTimeout",
               "RcvdRspError", "RcvdReq", "SndRsp", "RcvdReqError"}

\* A request goes from the application through the queues into roumap_.  Before it is
\* there, and when it could not be encoded, nothing else exists about it.
Early(r) == ro[r].at \in {"unsent", "encode", "queued"}
Failed(r) == \E i \in DOMAIN outcome[r] : outcome[r][i] = "error"

Unknowing(r) ==
    /\ given[r] = << >>
    /\ ~In(pttq, "RcvdReq", r)
    /\ \A d \in net : d.req # r

Sending(r) ==
    /\ Once(ttq, Event("SndMsg", r)) /\ Once(ctq, Event("SndReq", r))
    /\ In(ttq, "SndMsg", r) => ro[r].at = "encode"
    /\ In(ctq, "SndReq", r) => ro[r].at = "queued"
    /\ Early(r) => ro[r].rw = 0 /\ ro[r].am = TRUE /\ outcome[r] = << >>
    /\ Failed(r) => ro[r].at = "deleted"
    /\ Early(r) \/ Failed(r) => Unknowing(r)

\* The application is told once: by the ReqOut as long as it has the message, by the
\* response that took it, or it has been told.
Telling(r) ==
    /\ \A i, j \in Told(r) : i = j
    /\ Once(ttq, Event("RcvdRsp", r))
    /\ ro[r].am = TRUE \/ In(ttq, "RcvdRsp", r) => Told(r) = {}
    /\ ~(ro[r].am = TRUE /\ In(ttq, "RcvdRsp", r))

\* The window w is cleared after that time; 0 when the event that does so is queued.
Left(w, current, changing, left, wait) ==
    IF changing THEN IF w = current THEN left ELSE 0
    ELSE IF w = current THEN left + wait ELSE left
RspLeft(w) == Left(w, crw, Wnd \in Queued(ctq), wnd, RspWait)
PeerLeft(w) == Left(w, pcrw, Wnd \in Queued(pctq), pwnd, PeerRspWait)

Windows ==
    /\ Once(ctq, Wnd) /\ Once(pctq, Wnd)
    /\ Wnd \in Queued(ctq) => wnd = RspWait
    /\ Wnd \in Queued(pctq) => pwnd = PeerRspWait

\* T1 of r expires for the last time before x units have passed.
LastT1(r, x) ==
    /\ ro[r].t1 # Off => ro[r].t1 + ro[r].n1 * T1 < x
    /\ In(ctq, "ReqTimeout", r) => ro[r].n1 * T1 < x

\* T1 runs, or has expired, for a request in roumap_ only, and one that was answered
\* stays there for longer than T1 can run.
Timing(r) ==
    /\ Once(ctq, Event("ReqTimeout", r))
    /\ ro[r].t1 # Off \/ In(ctq, "ReqTimeout", r) => ro[r].at = "listed"
    /\ ~(ro[r].t1 # Off /\ In(ctq, "ReqTimeout", r))
    /\ ro[r].at = "listed" =>
          /\ ro[r].n1 < N1
          /\ ro[r].rw # 0 => LastT1(r, RspLeft(ro[r].rw))

\* Only a request that the peer's stack has handed on is answered.
Answering(r) ==
    given[r] = << >> =>
        /\ serving[r] = Idle /\ ~In(pttq, "SndMsg", r) /\ ~In(pctq, "SndRsp", r)
        /\ \A d \in net : ~(d.kind = "rsp" /\ d.req = r)
        /\ ~In(ttq, "RcvdRsp", r) /\ ~In(ttq, "RcvdRspNull", r)

\* The last copy of the request r arrives before x units have passed.
LastCopy(r, x) ==
    /\ \A d \in net : d.kind = "req" /\ d.req = r => d.left < x
    /\ ro[r].at = "listed" /\ ro[r].n1 >= 1 =>
          /\ ro[r].t1 # Off => ro[r].t1 + (ro[r].n1 - 1) * T1 + env.transit < x
          /\ In(ctq, "ReqTimeout", r) => (ro[r].n1 - 1) * T1 + env.transit < x

\* The peer remembers an answered request for longer than copies of it arrive.
Remembers == (N1 - 1) * T1 + env.transit < PeerRspWait

\* The peer handles a request that it remembers, and has not handed on before.
Serving(r) ==
    /\ Once(pttq, Event("RcvdReq", r)) /\ Once(pctq, Event("RcvdReqError", r))
    /\ In(pttq, "RcvdReq", r) \/ In(pctq, "RcvdReqError", r) =>
          rcvd[r] = 0 /\ given[r] = << >>
    /\ ~(In(pttq, "RcvdReq", r) /\ In(pctq, "RcvdReqError", r))
    /\ Len(given[r]) <= 1

Remembering(r) ==
    /\ ~Early(r) => LastCopy(r, PeerRspWait)
    /\ given[r] # << >> =>
          /\ rcvd[r] = Unknown => LastCopy(r, 0)
          /\ rcvd[r] > 0 => LastCopy(r, PeerLeft(rcvd[r]))

\* While responses are prompt, what has become of the last copy of r is in one place,
\* and T1 does not expire before its response has come.
Punctual == Prompt /\ ~env.duplicates

Stages == {"net", "decode", "served", "encode", "send"}
At(p, r) ==
    \/ p = "net" /\ \E d \in net : d.req = r
    \/ p = "decode" /\ In(pttq, "RcvdReq", r)
    \/ p = "served" /\ serving[r] # Idle
    \/ p = "encode" /\ In(pttq, "SndMsg", r)
    \/ p = "send" /\ In(pctq, "SndRsp", r)

Single(r) ==
    /\ \A d, e \in net : d.req = r /\ e.req = r => d = e
    /\ \A d \in net : d.req = r => ~d.twice
    /\ Once(pttq, Event("RcvdReq", r))
    /\ Once(pttq, Event("SndMsg", r)) /\ Once(pctq, Event("SndRsp", r))
    /\ \A p, q \in Stages : At(p, r) /\ At(q, r) => p = q

InTime(r) ==
    /\ \A d \in net : d.req = r =>
          d.left + (IF d.kind = "req" THEN env.service + env.transit ELSE 0) < ro[r].t1
    /\ In(pttq, "RcvdReq", r) => env.service + env.transit < ro[r].t1
    /\ serving[r] # Idle => serving[r] + env.transit < ro[r].t1
    /\ In(pttq, "SndMsg", r) \/ In(pctq, "SndRsp", r) => env.transit < ro[r].t1

Whole(r) ==
    /\ ro[r].t1 # Off \/ In(ctq, "ReqTimeout", r) => ro[r].am = TRUE
    /\ Told(r) = DOMAIN outcome[r] /\ ~In(ttq, "RcvdRspNull", r)

\* What the invariant says of one request.
About(r) ==
    /\ Sending(r) /\ Telling(r) /\ Timing(r) /\ Answering(r)
    /\ Remembers => Serving(r) /\ Remembering(r)
    /\ Punctual => Single(r) /\ InTime(r) /\ Whole(r)

\* The inductive invariant.
IInv ==
    /\ NodeTypes
    /\ Windows
    /\ \A r \in Reqs : About(r)

-------------------------------------------------------------------------------
(* Events and queues. *)

\* Events about requests differ in type or in request, and from a change of window.
LEMMA EventFacts ==
    /\ \A t, u, r, s : Event(t, r) = Event(u, s) <=> t = u /\ r = s
    /\ \A t, r : Event(t, r).type = t
    /\ \A t, r : t # "RspWnd" => Event(t, r) # Wnd
    /\ \A t, r : PeerEvent(t, r) = Event(t, r)
    /\ Wnd \in Events
    /\ \A e \in Events : e.type = "RspWnd" <=> e = Wnd
    /\ \A r \in Reqs :
          \A t \in EventTypes : Event(t, r) \in Events
<1>1. \A t, u, r, s : Event(t, r) = Event(u, s) <=> t = u /\ r = s
  BY DEF Event
<1>2. \A t, r : Event(t, r).type = t
  BY DEF Event
<1>3. \A t, r : t # "RspWnd" => Event(t, r) # Wnd
  BY <1>2 DEF Wnd
<1>4. \A t, r : PeerEvent(t, r) = Event(t, r)
  BY DEF Event, PeerEvent
<1>5. Wnd \in Events /\ \A e \in Events : e.type = "RspWnd" <=> e = Wnd
  BY DEF Events, Wnd
<1>6. \A r \in Reqs :
          \A t \in EventTypes : Event(t, r) \in Events
  BY DEF Events, Event, EventTypes
<1> QED
  BY <1>1, <1>2, <1>3, <1>4, <1>5, <1>6

\* Append adds one event to a queue.
LEMMA Appended ==
    ASSUME NEW q \in Seq(Events), NEW e \in Events
    PROVE  /\ Append(q, e) \in Seq(Events)
           /\ \A x : x \in Queued(Append(q, e)) <=> x \in Queued(q) \/ x = e
           /\ \A x : Once(q, x) /\ (x # e \/ x \notin Queued(q)) => Once(Append(q, e), x)
<1> DEFINE s == Append(q, e)
<1>1. /\ s \in Seq(Events) /\ DOMAIN s = 1 .. Len(q) + 1
      /\ DOMAIN q = 1 .. Len(q) /\ Len(q) \in Nat
      /\ \A k \in 1 .. Len(q) : s[k] = q[k]
      /\ s[Len(q) + 1] = e
  BY AppendFacts
<1> HIDE DEF s
<1>2. \A k \in DOMAIN s : (k \in DOMAIN q /\ s[k] = q[k]) \/ (k = Len(q) + 1 /\ s[k] = e)
  BY <1>1
<1>3. /\ \A k \in DOMAIN q : k \in DOMAIN s /\ s[k] = q[k]
      /\ Len(q) + 1 \in DOMAIN s
  BY <1>1
<1>4. \A x : x \in Queued(s) <=> x \in Queued(q) \/ x = e
  BY <1>1, <1>2, <1>3 DEF Queued
<1>5. ASSUME NEW x, Once(q, x), x # e \/ x \notin Queued(q)
      PROVE  Once(s, x)
  <2>1. \A k \in DOMAIN q : q[k] = x => x \in Queued(q)
    BY DEF Queued
  <2> QED
    BY <1>2, <1>5, <2>1 DEF Once
<1> QED
  BY <1>1, <1>4, <1>5 DEF s

\* Tail takes the head from a queue.
LEMMA Popped ==
    ASSUME NEW q \in Seq(Events), q # << >>
    PROVE  /\ Tail(q) \in Seq(Events) /\ Head(q) \in Events
           /\ \A x : x \in Queued(q) <=> x \in Queued(Tail(q)) \/ x = Head(q)
           /\ \A x : Once(q, x) => Once(Tail(q), x)
           /\ Once(q, Head(q)) => Head(q) \notin Queued(Tail(q))
<1> DEFINE s == Tail(q)
<1>1. /\ s \in Seq(Events)
      /\ Len(q) \in Nat \ {0} /\ DOMAIN q = 1 .. Len(q) /\ DOMAIN s = 1 .. Len(q) - 1
      /\ \A k \in 1 .. Len(q) - 1 : s[k] = q[k + 1]
      /\ Head(q) = q[1] /\ Head(q) \in Events
  BY TailFacts
<1> HIDE DEF s
<1>2. \A k \in DOMAIN s : k \in Int /\ k + 1 \in DOMAIN q /\ k + 1 # 1 /\ s[k] = q[k + 1]
  BY <1>1
<1>3. \A k \in DOMAIN q : k = 1 \/ (k - 1 \in DOMAIN s /\ s[k - 1] = q[k])
  BY <1>1
<1>4. 1 \in DOMAIN q
  BY <1>1
<1>5. \A x : x \in Queued(q) <=> x \in Queued(s) \/ x = Head(q)
  BY <1>1, <1>2, <1>3, <1>4 DEF Queued
<1>6. \A x : Once(q, x) => Once(s, x)
  BY <1>2 DEF Once
<1>7. Once(q, Head(q)) => Head(q) \notin Queued(s)
  BY <1>1, <1>2, <1>4 DEF Once, Queued
<1> QED
  BY <1>1, <1>5, <1>6, <1>7 DEF s

-------------------------------------------------------------------------------
(* Numbers and types. *)

\* What the assumptions on the constants say.
LEMMA Constants ==
    /\ N1 \in Nat \ {0} /\ T1 \in Nat \ {0} /\ RspWait \in Nat /\ T1 * N1 <= RspWait
    /\ PeerRspWait \in Nat \ {0}
    /\ \A e \in Envs : /\ e.transit \in Nat /\ e.service \in Nat
                       /\ e.duplicates \in BOOLEAN /\ e.undecodable \in BOOLEAN
BY RetransmissionAssumption, PeerRspWaitAssumption, EnvsAssumption

\* One more period of T1.
LEMMA Product ==
    /\ \A n \in Nat : n * T1 \in Nat /\ (n >= 1 => T1 + (n - 1) * T1 = n * T1)
    /\ \A n \in Nat : n < N1 => n * T1 <= (N1 - 1) * T1 /\ n * T1 < RspWait
    /\ (N1 - 1) * T1 \in Nat /\ RspWait \in Nat \ {0}
<1>1. \A n \in Nat, m \in Nat : n <= m => n * T1 <= m * T1
  BY Constants
<1>2. \A n \in Nat : n * T1 \in Nat
  BY Constants
<1>3. \A n \in Nat : n >= 1 => T1 + (n - 1) * T1 = n * T1
  BY Constants
<1>4. N1 - 1 \in Nat /\ \A n \in Nat : n < N1 => n <= N1 - 1
  BY Constants
<1>5. T1 + (N1 - 1) * T1 = N1 * T1 /\ N1 * T1 = T1 * N1
  BY <1>3, Constants
<1>6. (N1 - 1) * T1 \in Nat /\ (N1 - 1) * T1 < RspWait
  <2>1. (N1 - 1) * T1 \in Nat
    BY <1>2, <1>4
  <2> QED
    BY <1>5, <2>1, Constants
<1>7. \A n \in Nat : n < N1 => n * T1 <= (N1 - 1) * T1
  BY <1>1, <1>4
<1> QED
  BY <1>2, <1>3, <1>6, <1>7, Constants

\* The types by part.
EnvType == env \in Envs
NetType == net \in SUBSET Datagrams
ReqType ==
    /\ ro \in [Reqs -> ReqOut]
    /\ crw \in 1 .. 2 /\ wnd \in 0 .. RspWait
    /\ ttq \in Seq(Events) /\ ctq \in Seq(Events)
    /\ outcome \in [Reqs -> Seq({"rsp", "rspNull", "timeout", "timeoutNull", "error"})]
PeerType ==
    /\ pcrw \in 1 .. 2 /\ pwnd \in 0 .. PeerRspWait
    /\ pttq \in Seq(Events) /\ pctq \in Seq(Events)
    /\ rcvd \in [Reqs -> Unknown .. 2]
    /\ serving \in [Reqs -> Idle .. env.service]
    /\ given \in [Reqs -> Seq({"given", "refused"})]

\* NodeTypes is all of them, now and in the next state.
LEMMA TypeParts ==
    /\ NodeTypes <=> EnvType /\ NetType /\ ReqType /\ PeerType
    /\ NodeTypes' <=> EnvType' /\ NetType' /\ ReqType' /\ PeerType'
<1>1. /\ (\A q \in {ttq, ctq, pttq, pctq} : q \in Seq(Events)) <=>
            /\ ttq \in Seq(Events) /\ ctq \in Seq(Events)
            /\ pttq \in Seq(Events) /\ pctq \in Seq(Events)
      /\ (\A q \in {ttq', ctq', pttq', pctq'} : q \in Seq(Events)) <=>
            /\ ttq' \in Seq(Events) /\ ctq' \in Seq(Events)
            /\ pttq' \in Seq(Events) /\ pctq' \in Seq(Events)
  OBVIOUS
<1>2. NodeTypes <=> EnvType /\ NetType /\ ReqType /\ PeerType
  BY <1>1 DEF NodeTypes, EnvType, NetType, ReqType, PeerType
<1>3. NodeTypes' <=> EnvType' /\ NetType' /\ ReqType' /\ PeerType'
  BY <1>1 DEF NodeTypes, EnvType, NetType, ReqType, PeerType
<1> QED
  BY <1>2, <1>3

\* The fields of a request in its type.
LEMMA ReqFields ==
    ASSUME ReqType, NEW r \in Reqs
    PROVE  /\ ro[r] \in ReqOut
           /\ ro[r].at \in {"unsent", "encode", "queued", "listed", "deleted"}
           /\ ro[r].n1 \in Nat /\ ro[r].n1 <= N1
           /\ ro[r].t1 \in Int /\ ro[r].t1 >= -1 /\ ro[r].t1 <= T1 /\ Off = -1
           /\ ro[r].rw \in 0 .. 2 /\ ro[r].am \in BOOLEAN
           /\ wnd \in Nat /\ wnd <= RspWait
<1>1. ro[r] \in ReqOut
  BY DEF ReqType
<1> QED
  BY <1>1, Constants DEF ReqType, ReqOut, Off

\* The fields of a datagram in its type.
LEMMA NetFields ==
    ASSUME NetType, EnvType, NEW d \in net
    PROVE  /\ d.kind \in {"req", "rsp"} /\ d.req \in Reqs
           /\ d.left \in Nat /\ d.left <= env.transit /\ d.twice \in BOOLEAN
           /\ env.transit \in Nat /\ env.service \in Nat
BY Constants DEF NetType, EnvType, Datagrams

\* Nothing that the invariant says of q depends on the events of other requests.
LEMMA OtherSame ==
    ASSUME NodeTypes, NodeTypes', NEW q \in Reqs, About(q), UNCHANGED env,
           ro'[q] = ro[q], outcome'[q] = outcome[q], given'[q] = given[q],
           rcvd'[q] = rcvd[q], serving'[q] = serving[q],
           \A d : d.req = q => (d \in net' <=> d \in net),
           \A t \in EventTypes : In(ttq, t, q)' <=> In(ttq, t, q),
           \A t \in EventTypes : In(ctq, t, q)' <=> In(ctq, t, q),
           \A t \in EventTypes : In(pttq, t, q)' <=> In(pttq, t, q),
           \A t \in EventTypes : In(pctq, t, q)' <=> In(pctq, t, q),
           \A t \in EventTypes : Once(ttq, Event(t, q)) => Once(ttq, Event(t, q))',
           \A t \in EventTypes : Once(ctq, Event(t, q)) => Once(ctq, Event(t, q))',
           \A t \in EventTypes : Once(pttq, Event(t, q)) => Once(pttq, Event(t, q))',
           \A t \in EventTypes : Once(pctq, Event(t, q)) => Once(pctq, Event(t, q))',
           \A w \in 1 .. 2 : w = ro[q].rw => RspLeft(w)' >= RspLeft(w),
           \A w \in 1 .. 2 : w = rcvd[q] => PeerLeft(w)' >= PeerLeft(w)
    PROVE  About(q)'
<1>1. EnvType /\ NetType /\ ReqType /\ PeerType /\ NetType' /\ ReqType' /\ PeerType'
  BY TypeParts
<1>2. Sending(q)'
  BY DEF About, Sending, Early, Failed, Unknowing, EventTypes
<1>3. Told(q)' = Told(q)
  BY DEF Told
<1>4. Telling(q)'
  BY <1>3 DEF About, Telling, EventTypes
<1>5. /\ \A w \in 1 .. 2 : RspLeft(w) \in Int /\ RspLeft(w)' \in Int
      /\ \A w \in 1 .. 2 : PeerLeft(w) \in Int /\ PeerLeft(w)' \in Int
  BY SMTT(30), <1>1, Constants DEF ReqType, PeerType, RspLeft, PeerLeft, Left
<1>6. /\ ro[q].n1 \in Nat /\ ro[q].t1 \in Int /\ ro[q].rw \in 0 .. 2
      /\ ro[q].n1 * T1 \in Nat /\ env.transit \in Nat
      /\ ro[q].n1 >= 1 => (ro[q].n1 - 1) * T1 \in Nat
      /\ rcvd[q] \in -1 .. 2
  <2>1. ro[q].n1 \in Nat /\ ro[q].t1 \in Int /\ ro[q].rw \in 0 .. 2
    BY <1>1, ReqFields
  <2>2. ro[q].n1 * T1 \in Nat /\ (ro[q].n1 >= 1 => (ro[q].n1 - 1) * T1 \in Nat)
    <3>1. ro[q].n1 >= 1 => ro[q].n1 - 1 \in Nat
      BY <2>1
    <3> QED
      BY <2>1, <3>1, Product
  <2>3. env.transit \in Nat
    BY <1>1, Constants DEF EnvType
  <2>4. rcvd[q] \in -1 .. 2
    BY <1>1 DEF PeerType, Unknown
  <2> QED
    BY <2>1, <2>2, <2>3, <2>4
<1>7. Timing(q)'
  <2>1. \A w \in 1 .. 2 : w = ro[q].rw /\ LastT1(q, RspLeft(w)) => LastT1(q, RspLeft(w))'
    BY <1>5, <1>6 DEF LastT1, EventTypes
  <2>2. ro[q].rw # 0 => ro[q].rw \in 1 .. 2
    BY <1>6
  <2> QED
    BY <2>1, <2>2 DEF About, Timing, EventTypes
<1>8. Answering(q)'
  BY DEF About, Answering, EventTypes
<1>9. (Remembers => Serving(q) /\ Remembering(q))'
  <2>1. ASSUME NEW x \in Int, NEW y \in Int, x <= y, LastCopy(q, x)
        PROVE  LastCopy(q, y)'
    BY <1>1, <1>6, <2>1, NetFields DEF LastCopy, EventTypes
  <2>2. Remembers' <=> Remembers
    BY DEF Remembers
  <2>3. Remembers => Serving(q) /\ Remembering(q)
    BY DEF About
  <2>4. Serving(q) => Serving(q)'
    BY DEF Serving, EventTypes
  <2>5. ASSUME Remembering(q)
        PROVE  Remembering(q)'
    <3>1. ~Early(q)' => LastCopy(q, PeerRspWait)'
      BY <2>1, <2>5, Constants DEF Remembering, Early
    <3>2. given[q] # << >> /\ rcvd[q] = Unknown => LastCopy(q, 0)'
      BY <2>1, <2>5 DEF Remembering
    <3>3. given[q] # << >> /\ rcvd[q] > 0 => LastCopy(q, PeerLeft(rcvd[q]))'
      <4>1. CASE rcvd[q] > 0
        <5>1. rcvd[q] \in 1 .. 2
          BY <1>6, <4>1
        <5>2. given[q] # << >> => LastCopy(q, PeerLeft(rcvd[q]))
          BY <2>5, <4>1 DEF Remembering
        <5>3. PICK w \in 1 .. 2 : w = rcvd[q] /\ w = rcvd'[q]
          BY <5>1
        <5> QED
          BY <1>5, <2>1, <4>1, <5>2, <5>3
      <4> QED
        BY <4>1
    <3> QED
      BY <3>1, <3>2, <3>3 DEF Remembering
  <2> QED
    BY <2>2, <2>3, <2>4, <2>5
<1>10. (Punctual => Single(q) /\ InTime(q) /\ Whole(q))'
  <2>1. \A p : At(p, q)' <=> At(p, q)
    BY DEF At, EventTypes
  <2> QED
    BY <1>3, <2>1 DEF About, Punctual, Prompt, Single, InTime, Whole, EventTypes
<1> QED
  BY <1>2, <1>4, <1>7, <1>8, <1>9, <1>10 DEF About

-------------------------------------------------------------------------------
(* The steps of a queue, for the events about requests and the change of window. *)

\* The event of the type t about r is the one by which p differs from q.
Differs(q, p, t, r) ==
    /\ p \in Seq(Events)
    /\ \A u, s : (u # t \/ s # r) => (In(p, u, s) <=> In(q, u, s))
    /\ \A u, s : (u # t \/ s # r) /\ Once(q, Event(u, s)) => Once(p, Event(u, s))
    /\ Wnd \in Queued(p) <=> Wnd \in Queued(q)
    /\ Once(q, Wnd) => Once(p, Wnd)

Adds(q, p, t, r) ==
    /\ Differs(q, p, t, r)
    /\ In(p, t, r)
    /\ ~In(q, t, r) => Once(p, Event(t, r))

Takes(q, p, t, r) ==
    /\ Differs(q, p, t, r)
    /\ In(q, t, r)
    /\ In(p, t, r) => In(q, t, r)
    /\ Once(q, Event(t, r)) => ~In(p, t, r) /\ Once(p, Event(t, r))

\* An event about a request is posted.
LEMMA Posted ==
    ASSUME NEW q \in Seq(Events), NEW t \in EventTypes, NEW r \in Reqs,
           NEW p, p = Append(q, Event(t, r))
    PROVE  Adds(q, p, t, r)
<1>1. Event(t, r) \in Events /\ Event(t, r) # Wnd
  BY EventFacts DEF EventTypes
<1>2. /\ p \in Seq(Events)
      /\ \A x : x \in Queued(p) <=> x \in Queued(q) \/ x = Event(t, r)
      /\ \A x : Once(q, x) /\ (x # Event(t, r) \/ x \notin Queued(q)) => Once(p, x)
  BY <1>1, Appended
<1>3. ~In(q, t, r) => Once(q, Event(t, r))
  BY DEF In, Once, Queued
<1>4. Differs(q, p, t, r)
  BY <1>1, <1>2, EventFacts DEF In, Differs
<1> QED
  BY <1>1, <1>2, <1>3, <1>4 DEF In, Adds

\* An event about a request is taken.
LEMMA Taken ==
    ASSUME NEW q \in Seq(Events), NEW t \in EventTypes, NEW r \in Reqs,
           q # << >>, Head(q) = Event(t, r), NEW p, p = Tail(q)
    PROVE  Takes(q, p, t, r)
<1>1. Event(t, r) # Wnd
  BY EventFacts DEF EventTypes
<1>2. /\ p \in Seq(Events)
      /\ \A x : x \in Queued(q) <=> x \in Queued(p) \/ x = Event(t, r)
      /\ \A x : Once(q, x) => Once(p, x)
      /\ Once(q, Event(t, r)) => Event(t, r) \notin Queued(p)
  BY Popped
<1>3. Differs(q, p, t, r)
  BY <1>1, <1>2, EventFacts DEF In, Differs
<1> QED
  BY <1>1, <1>2, <1>3 DEF In, Takes

\* A change of window is posted.
LEMMA WindowPosted ==
    ASSUME NEW q \in Seq(Events), NEW p, p = Append(q, Wnd)
    PROVE  /\ p \in Seq(Events) /\ Wnd \in Queued(p)
           /\ \A u, s : u # "RspWnd" => (In(p, u, s) <=> In(q, u, s))
           /\ \A u, s : u # "RspWnd" /\ Once(q, Event(u, s)) => Once(p, Event(u, s))
           /\ Wnd \notin Queued(q) /\ Once(q, Wnd) => Once(p, Wnd)
<1>1. /\ p \in Seq(Events)
      /\ \A x : x \in Queued(p) <=> x \in Queued(q) \/ x = Wnd
      /\ \A x : Once(q, x) /\ (x # Wnd \/ x \notin Queued(q)) => Once(p, x)
  BY Appended, EventFacts
<1> QED
  BY <1>1, EventFacts DEF In

\* A change of window is taken.
LEMMA WindowTaken ==
    ASSUME NEW q \in Seq(Events), q # << >>, Head(q).type = "RspWnd", NEW p, p = Tail(q)
    PROVE  /\ p \in Seq(Events) /\ Wnd \in Queued(q)
           /\ \A u, s : u # "RspWnd" => (In(p, u, s) <=> In(q, u, s))
           /\ \A u, s : Once(q, Event(u, s)) => Once(p, Event(u, s))
           /\ Once(q, Wnd) => Once(p, Wnd) /\ Wnd \notin Queued(p)
<1>1. /\ p \in Seq(Events) /\ Head(q) \in Events
      /\ \A x : x \in Queued(q) <=> x \in Queued(p) \/ x = Head(q)
      /\ \A x : Once(q, x) => Once(p, x)
      /\ Once(q, Head(q)) => Head(q) \notin Queued(p)
  BY Popped
<1>2. Head(q) = Wnd
  BY <1>1, EventFacts
<1> QED
  BY <1>1, <1>2, EventFacts DEF In

-------------------------------------------------------------------------------
(* The steps of the node that makes requests. *)

\* The invariant gives its parts.
LEMMA IInvParts ==
    /\ IInv <=> NodeTypes /\ Windows /\ \A r \in Reqs : About(r)
    /\ IInv' <=> NodeTypes' /\ Windows' /\ \A r \in Reqs : About(r)'
    /\ NodeTypes <=> EnvType /\ NetType /\ ReqType /\ PeerType
    /\ NodeTypes' <=> EnvType' /\ NetType' /\ ReqType' /\ PeerType'
BY TypeParts DEF IInv

\* The peer's part of the types does not change when its variables do not.
LEMMA PeerTypeSame ==
    ASSUME PeerType, EnvType, UNCHANGED <<env, peerVars>>
    PROVE  PeerType' /\ EnvType'
BY DEF PeerType, EnvType, peerVars

\* The windows stay when no event of theirs is posted or taken.
LEMMA WindowsSame ==
    ASSUME Windows, ReqType, PeerType, UNCHANGED <<crw, wnd, pcrw, pwnd>>,
           Wnd \in Queued(ctq') <=> Wnd \in Queued(ctq), Once(ctq, Wnd) => Once(ctq', Wnd),
           Wnd \in Queued(pctq') <=> Wnd \in Queued(pctq), Once(pctq, Wnd) => Once(pctq', Wnd)
    PROVE  /\ Windows'
           /\ \A w \in 1 .. 2 :
                 /\ RspLeft(w)' = RspLeft(w) /\ RspLeft(w)' >= RspLeft(w)
                 /\ PeerLeft(w)' = PeerLeft(w) /\ PeerLeft(w)' >= PeerLeft(w)
BY Constants DEF Windows, RspLeft, PeerLeft, Left, ReqType, PeerType

\* A step about r changes the queue from q to p: the other events stay.
Aside(q, p, r) ==
    /\ p \in Seq(Events)
    /\ \A t \in EventTypes, s \in Reqs \ {r} :
          /\ In(p, t, s) <=> In(q, t, s)
          /\ Once(q, Event(t, s)) => Once(p, Event(t, s))
    /\ Wnd \in Queued(p) <=> Wnd \in Queued(q)
    /\ Once(q, Wnd) => Once(p, Wnd)

\* The steps of a queue are such changes.
LEMMA AsideFacts ==
    /\ \A q, p, t, r : Differs(q, p, t, r) => Aside(q, p, r)
    /\ \A q, r : q \in Seq(Events) => Aside(q, q, r)
BY DEF Differs, Aside

\* A step about r, of either node: what the invariant says of the windows and of the
\* other requests stays true.
LEMMA Others ==
    ASSUME IInv, NodeTypes', NEW r \in Reqs, UNCHANGED <<env, crw, wnd, pcrw, pwnd>>,
           \A q \in Reqs \ {r} :
              /\ ro'[q] = ro[q] /\ outcome'[q] = outcome[q]
              /\ rcvd'[q] = rcvd[q] /\ serving'[q] = serving[q] /\ given'[q] = given[q],
           \A d : d.req # r => (d \in net' <=> d \in net),
           Aside(ttq, ttq', r), Aside(ctq, ctq', r),
           Aside(pttq, pttq', r), Aside(pctq, pctq', r)
    PROVE  /\ Windows' /\ \A q \in Reqs \ {r} : About(q)'
           /\ \A w \in 1 .. 2 : RspLeft(w)' = RspLeft(w) /\ PeerLeft(w)' = PeerLeft(w)
<1>1. NodeTypes /\ Windows /\ ReqType /\ PeerType /\ \A q \in Reqs : About(q)
  BY IInvParts
<1>2. Windows'
      /\ \A w \in 1 .. 2 :
            /\ RspLeft(w)' = RspLeft(w) /\ RspLeft(w)' >= RspLeft(w)
            /\ PeerLeft(w)' = PeerLeft(w) /\ PeerLeft(w)' >= PeerLeft(w)
  BY <1>1, WindowsSame DEF Aside
<1>3. ASSUME NEW q \in Reqs \ {r}
      PROVE  About(q)'
  <2>1. /\ NodeTypes /\ NodeTypes' /\ q \in Reqs /\ About(q) /\ UNCHANGED env
        /\ ro'[q] = ro[q] /\ outcome'[q] = outcome[q] /\ given'[q] = given[q]
        /\ rcvd'[q] = rcvd[q] /\ serving'[q] = serving[q]
        /\ \A d : d.req = q => (d \in net' <=> d \in net)
    BY <1>1, <1>3
  <2>2. \A t \in EventTypes :
           /\ In(ttq, t, q)' <=> In(ttq, t, q)
           /\ Once(ttq, Event(t, q)) => Once(ttq, Event(t, q))'
           /\ In(ctq, t, q)' <=> In(ctq, t, q)
           /\ Once(ctq, Event(t, q)) => Once(ctq, Event(t, q))'
    BY <1>3 DEF Aside
  <2>3. \A t \in EventTypes :
           /\ In(pttq, t, q)' <=> In(pttq, t, q)
           /\ Once(pttq, Event(t, q)) => Once(pttq, Event(t, q))'
           /\ In(pctq, t, q)' <=> In(pctq, t, q)
           /\ Once(pctq, Event(t, q)) => Once(pctq, Event(t, q))'
    BY <1>3 DEF Aside
  <2>4. /\ \A w \in 1 .. 2 : w = ro[q].rw => RspLeft(w)' >= RspLeft(w)
        /\ \A w \in 1 .. 2 : w = rcvd[q] => PeerLeft(w)' >= PeerLeft(w)
    BY <1>2
  <2> QED
    BY <2>1, <2>2, <2>3, <2>4, OtherSame
<1> QED
  BY <1>2, <1>3

\* The application sends a request.
LEMMA AppSendIInv ==
    ASSUME IInv, NEW r \in Reqs, AppSend(r), UNCHANGED <<env, peerVars>>
    PROVE  IInv'
<1>1. /\ ro[r].at = "unsent"
      /\ ro' = [ro EXCEPT ![r].at = "encode"]
      /\ ttq' = Append(ttq, Event("SndMsg", r))
      /\ UNCHANGED <<ctq, crw, wnd, outcome, net, env, rcvd, pttq, pctq, pcrw, pwnd, serving,
                     given>>
  BY DEF AppSend, peerVars
<1>2. /\ NodeTypes /\ Windows /\ About(r) /\ EnvType /\ NetType /\ ReqType /\ PeerType
  BY IInvParts
<1>3. /\ ro' \in [Reqs -> ReqOut]
      /\ ro'[r].at = "encode" /\ ro'[r].n1 = ro[r].n1 /\ ro'[r].t1 = ro[r].t1
      /\ ro'[r].rw = ro[r].rw /\ ro'[r].am = ro[r].am
      /\ \A q \in Reqs \ {r} : ro'[q] = ro[q]
  BY <1>1, <1>2 DEF ReqType, ReqOut
<1>4. Adds(ttq, ttq', "SndMsg", r)
  BY <1>1, <1>2, Posted DEF ReqType, EventTypes
<1>5. NodeTypes'
  BY <1>1, <1>2, <1>3, <1>4, IInvParts DEF EnvType, NetType, ReqType, PeerType, Datagrams, Adds,
         Differs
<1>6. /\ Windows' /\ \A q \in Reqs \ {r} : About(q)'
      /\ \A w \in 1 .. 2 : RspLeft(w)' = RspLeft(w) /\ PeerLeft(w)' = PeerLeft(w)
  <2>1. Aside(ttq, ttq', r) /\ Aside(ctq, ctq', r) /\ Aside(pttq, pttq', r)
        /\ Aside(pctq, pctq', r)
    BY <1>1, <1>2, <1>4, AsideFacts DEF Adds, ReqType, PeerType
  <2> QED
    BY <1>1, <1>3, <1>5, <2>1, Others
<1>7. About(r)'
  <2>1. Sending(r)'
    BY <1>1, <1>2, <1>3, <1>4 DEF About, Sending, Early, Failed, Unknowing, Adds, Differs
  <2>2. Telling(r)' /\ Answering(r)'
    BY <1>1, <1>2, <1>3, <1>4 DEF About, Telling, Told, Answering, Adds, Differs
  <2>3. Timing(r)'
    BY <1>1, <1>2, <1>3 DEF About, Timing
  <2>4. (Remembers => Serving(r) /\ Remembering(r))'
    BY <1>1, <1>2, <1>3 DEF About, Remembers, Serving, Remembering, Early, Sending, Unknowing
  <2>5. (Punctual => Single(r) /\ InTime(r) /\ Whole(r))'
    BY <1>1, <1>2, <1>3, <1>4
       DEF About, Punctual, Prompt, Single, At, InTime, Whole, Told, Adds, Differs
  <2> QED
    BY <2>1, <2>2, <2>3, <2>4, <2>5 DEF About
<1> QED
  BY <1>5, <1>6, <1>7, IInvParts

\* What the application has been told about a request, when it is told more.
LEMMA Tells ==
    ASSUME ReqType, NEW r \in Reqs,
           NEW what \in {"rsp", "rspNull", "timeout", "timeoutNull", "error"},
           Tell(r, what)
    PROVE  /\ outcome' \in [Reqs -> Seq({"rsp", "rspNull", "timeout", "timeoutNull", "error"})]
           /\ \A q \in Reqs \ {r} : outcome'[q] = outcome[q]
           /\ outcome'[r] # << >>
           /\ Failed(r)' <=> Failed(r) \/ what = "error"
           /\ what \in {"rspNull", "timeoutNull"} => Told(r)' = Told(r)
           /\ Told(r) = {} => \A i, j \in Told(r)' : i = j
           /\ what \notin {"rspNull", "timeoutNull"} /\ Told(r) = DOMAIN outcome[r] =>
                 Told(r)' = DOMAIN outcome'[r]
<1> DEFINE S == {"rsp", "rspNull", "timeout", "timeoutNull", "error"}
           o == outcome[r]
           n == Len(o) + 1
<1>1. o \in Seq(S) /\ outcome' = [outcome EXCEPT ![r] = Append(o, what)]
  BY DEF ReqType, Tell
<1>a. what \in S
  OBVIOUS
<1>2. /\ Append(o, what) \in Seq(S) /\ Append(o, what) # << >>
      /\ DOMAIN o = 1 .. Len(o) /\ Len(o) \in Nat /\ DOMAIN Append(o, what) = 1 .. Len(o) + 1
      /\ \A k \in 1 .. Len(o) : Append(o, what)[k] = o[k]
      /\ Append(o, what)[n] = what
  <2> HIDE DEF S, o
  <2>1. /\ Append(o, what) \in Seq(S) /\ DOMAIN Append(o, what) = 1 .. Len(o) + 1
        /\ DOMAIN o = 1 .. Len(o) /\ Len(o) \in Nat
        /\ \A k \in 1 .. Len(o) : Append(o, what)[k] = o[k]
        /\ Append(o, what)[n] = what
    BY <1>1, <1>a, AppendFacts
  <2> QED
    BY <2>1
<1>3. /\ outcome'[r] = Append(o, what) /\ outcome' \in [Reqs -> Seq(S)]
      /\ \A q \in Reqs \ {r} : outcome'[q] = outcome[q]
  BY <1>1, <1>2 DEF ReqType
<1> DEFINE p == outcome'[r]
<1>4. /\ DOMAIN p = DOMAIN o \cup {n} /\ n \notin DOMAIN o
      /\ \A k \in DOMAIN o : p[k] = o[k]
      /\ p[n] = what /\ p # << >>
  BY <1>2, <1>3
<1> HIDE DEF n
<1>5. Failed(r)' <=> Failed(r) \/ what = "error"
  BY <1>4 DEF Failed
<1>6. Told(r)' = IF what \in {"rspNull", "timeoutNull"} THEN Told(r) ELSE Told(r) \cup {n}
  BY <1>4 DEF Told
<1> QED
  BY <1>3, <1>4, <1>5, <1>6

\* TranslationThread encodes a request, or the application is told that it could not.
LEMMA EncodeReqIInv ==
    ASSUME IInv, NEW r \in Reqs, EncodeReq(r), UNCHANGED <<env, peerVars>>
    PROVE  IInv'
<1>1. /\ ttq # << >> /\ Head(ttq) = Event("SndMsg", r) /\ ttq' = Tail(ttq)
      /\ UNCHANGED <<crw, wnd, net, env, rcvd, pttq, pctq, pcrw, pwnd, serving, given>>
  BY DEF EncodeReq, peerVars
<1>2. /\ NodeTypes /\ Windows /\ About(r) /\ EnvType /\ NetType /\ ReqType /\ PeerType
  BY IInvParts
<1>3. Takes(ttq, ttq', "SndMsg", r)
  BY <1>1, <1>2, Taken DEF ReqType, EventTypes
<1>4. /\ ro[r].at = "encode" /\ ~In(ctq, "SndReq", r) /\ ~In(ttq', "SndMsg", r)
      /\ Unknowing(r) /\ outcome[r] = << >> /\ Told(r) = {} /\ ro[r].am = TRUE
      /\ ~Failed(r) /\ ro[r].rw = 0
      /\ ~In(ttq, "RcvdRsp", r) /\ ~In(ttq', "RcvdRsp", r)
  BY <1>2, <1>3 DEF About, Sending, Telling, Early, Takes, Differs
<1>5. CASE ro' = [ro EXCEPT ![r].at = "queued"] /\ ctq' = Append(ctq, Event("SndReq", r))
           /\ UNCHANGED outcome
  <2>1. /\ ro' \in [Reqs -> ReqOut]
        /\ ro'[r].at = "queued" /\ ro'[r].n1 = ro[r].n1 /\ ro'[r].t1 = ro[r].t1
        /\ ro'[r].rw = ro[r].rw /\ ro'[r].am = ro[r].am
        /\ \A q \in Reqs \ {r} : ro'[q] = ro[q]
    BY <1>2, <1>5 DEF ReqType, ReqOut
  <2>2. Adds(ctq, ctq', "SndReq", r)
    BY <1>2, <1>5, Posted DEF ReqType, EventTypes
  <2>3. NodeTypes'
    BY <1>1, <1>2, <1>3, <1>5, <2>1, <2>2, IInvParts
       DEF EnvType, NetType, ReqType, PeerType, Datagrams, Adds, Takes, Differs
  <2>4. Windows' /\ \A q \in Reqs \ {r} : About(q)'
    <3>1. Aside(ttq, ttq', r) /\ Aside(ctq, ctq', r) /\ Aside(pttq, pttq', r)
          /\ Aside(pctq, pctq', r)
      BY <1>1, <1>2, <1>3, <2>2, AsideFacts DEF Adds, Takes, PeerType
    <3> QED
      BY <1>1, <1>5, <2>1, <2>3, <3>1, Others
  <2>5. Sending(r)'
    BY <1>1, <1>2, <1>3, <1>4, <1>5, <2>1, <2>2
       DEF About, Sending, Early, Failed, Unknowing, Adds, Takes, Differs
  <2>6. Telling(r)' /\ Answering(r)'
    BY <1>1, <1>2, <1>3, <1>4, <1>5, <2>1, <2>2
       DEF About, Telling, Told, Answering, Adds, Takes, Differs
  <2>7. Timing(r)'
    BY <1>1, <1>2, <1>4, <2>1, <2>2 DEF About, Timing, Adds, Differs
  <2>8. (Remembers => Serving(r) /\ Remembering(r))'
    BY <1>1, <1>2, <1>4, <2>1 DEF About, Remembers, Serving, Remembering, Early, Unknowing
  <2>9. (Punctual => Single(r) /\ InTime(r) /\ Whole(r))'
    BY <1>1, <1>2, <1>3, <1>5, <2>1, <2>2
       DEF About, Punctual, Prompt, Single, At, InTime, Whole, Told, Adds, Takes, Differs
  <2> QED
    BY <2>3, <2>4, <2>5, <2>6, <2>7, <2>8, <2>9, IInvParts DEF About
<1>6. CASE ro' = [ro EXCEPT ![r].at = "deleted", ![r].am = FALSE] /\ Tell(r, "error")
           /\ UNCHANGED ctq
  <2>1. /\ ro' \in [Reqs -> ReqOut]
        /\ ro'[r].at = "deleted" /\ ro'[r].n1 = ro[r].n1 /\ ro'[r].t1 = ro[r].t1
        /\ ro'[r].rw = ro[r].rw /\ ro'[r].am = FALSE
        /\ \A q \in Reqs \ {r} : ro'[q] = ro[q]
    BY <1>2, <1>6 DEF ReqType, ReqOut
  <2>2. /\ outcome' \in [Reqs -> Seq({"rsp", "rspNull", "timeout", "timeoutNull", "error"})]
        /\ \A q \in Reqs \ {r} : outcome'[q] = outcome[q]
        /\ Failed(r)' /\ \A i, j \in Told(r)' : i = j
        /\ Told(r) = DOMAIN outcome[r] => Told(r)' = DOMAIN outcome'[r]
    BY <1>2, <1>4, <1>6, Tells
  <2>3. NodeTypes'
    BY <1>1, <1>2, <1>3, <1>6, <2>1, <2>2, IInvParts
       DEF EnvType, NetType, ReqType, PeerType, Datagrams, Takes, Differs
  <2>4. Windows' /\ \A q \in Reqs \ {r} : About(q)'
    <3>1. Aside(ttq, ttq', r) /\ Aside(ctq, ctq', r) /\ Aside(pttq, pttq', r)
          /\ Aside(pctq, pctq', r)
      BY <1>1, <1>2, <1>3, <1>6, AsideFacts DEF Takes, ReqType, PeerType
    <3> QED
      BY <1>1, <2>1, <2>2, <2>3, <3>1, Others
  <2>5. Sending(r)'
    BY <1>1, <1>2, <1>3, <1>4, <1>6, <2>1, <2>2
       DEF About, Sending, Early, Unknowing, Takes, Differs
  <2>6. Telling(r)' /\ Answering(r)'
    BY <1>1, <1>2, <1>3, <1>4, <1>6, <2>1, <2>2
       DEF About, Telling, Answering, Takes, Differs
  <2>7. Timing(r)'
    BY <1>1, <1>2, <1>4, <1>6, <2>1 DEF About, Timing
  <2>8. (Remembers => Serving(r) /\ Remembering(r))'
    <3>1. LastCopy(r, PeerRspWait)'
      BY <1>1, <1>4, <2>1 DEF LastCopy, Unknowing
    <3> QED
      BY <1>1, <1>2, <1>4, <2>1, <3>1 DEF About, Remembers, Serving, Remembering, Unknowing
  <2>9. (Punctual => Single(r) /\ InTime(r) /\ Whole(r))'
    <3>1. ro[r].t1 = Off /\ ~In(ctq, "ReqTimeout", r)
      BY <1>2, <1>4 DEF About, Timing
    <3> QED
      BY <1>1, <1>2, <1>3, <1>6, <2>1, <2>2, <3>1
         DEF About, Punctual, Prompt, Single, At, InTime, Whole, Takes, Differs
  <2> QED
    BY <2>3, <2>4, <2>5, <2>6, <2>7, <2>8, <2>9, IInvParts DEF About
<1> QED
  BY <1>5, <1>6 DEF EncodeReq

\* TranslationThread hands a response on, or cannot decode it.
LEMMA DecodeRspIInv ==
    ASSUME IInv, NEW r \in Reqs, DecodeRsp(r), UNCHANGED <<env, peerVars>>
    PROVE  IInv'
<1>1. /\ ttq # << >> /\ Head(ttq) \in {Event("RcvdRsp", r), Event("RcvdRspNull", r)}
      /\ ttq' = Tail(ttq)
      /\ UNCHANGED <<ro, crw, wnd, net, env, rcvd, pttq, pctq, pcrw, pwnd, serving, given>>
  BY DEF DecodeRsp, peerVars
<1>2. /\ NodeTypes /\ Windows /\ About(r) /\ EnvType /\ NetType /\ ReqType /\ PeerType
  BY IInvParts
<1>3. PICK t \in {"RcvdRsp", "RcvdRspNull"} : Head(ttq) = Event(t, r)
  BY <1>1
<1>4. Takes(ttq, ttq', t, r)
  BY <1>1, <1>2, <1>3, Taken DEF ReqType, EventTypes
<1>5. In(ttq, t, r) /\ given[r] # << >> /\ ~Early(r) /\ ~Failed(r)
  BY <1>2, <1>3, <1>4 DEF About, Answering, Sending, Unknowing, Takes
<1>6. t = "RcvdRsp" => Told(r) = {} /\ ~(ro[r].am = TRUE) /\ ~In(ttq', "RcvdRsp", r)
  BY <1>2, <1>4, <1>5 DEF About, Telling, Takes
<1>7. CASE ctq' = ctq /\ Tell(r, IF Head(ttq).type = "RcvdRsp" THEN "rsp" ELSE "rspNull")
  <2>1. PICK what \in {"rsp", "rspNull", "timeout", "timeoutNull", "error"} :
           what = (IF t = "RcvdRsp" THEN "rsp" ELSE "rspNull") /\ Tell(r, what)
    BY <1>3, <1>7, EventFacts
  <2>2. /\ outcome' \in [Reqs -> Seq({"rsp", "rspNull", "timeout", "timeoutNull", "error"})]
        /\ \A q \in Reqs \ {r} : outcome'[q] = outcome[q]
        /\ Failed(r)' <=> Failed(r)
        /\ what \in {"rspNull", "timeoutNull"} => Told(r)' = Told(r)
        /\ Told(r) = {} => \A i, j \in Told(r)' : i = j
        /\ what \notin {"rspNull", "timeoutNull"} /\ Told(r) = DOMAIN outcome[r] =>
              Told(r)' = DOMAIN outcome'[r]
    BY <1>2, <2>1, Tells
  <2>3. NodeTypes'
    BY <1>1, <1>2, <1>4, <1>7, <2>2, IInvParts
       DEF EnvType, NetType, ReqType, PeerType, Datagrams, Takes, Differs
  <2>4. /\ Windows' /\ \A q \in Reqs \ {r} : About(q)'
        /\ \A w \in 1 .. 2 : RspLeft(w)' = RspLeft(w) /\ PeerLeft(w)' = PeerLeft(w)
    <3>1. Aside(ttq, ttq', r) /\ Aside(ctq, ctq', r) /\ Aside(pttq, pttq', r)
          /\ Aside(pctq, pctq', r)
      BY <1>1, <1>2, <1>4, <1>7, AsideFacts DEF Takes, ReqType, PeerType
    <3> QED
      BY <1>1, <2>2, <2>3, <3>1, Others
  <2>5. Sending(r)'
    BY <1>1, <1>2, <1>4, <1>5, <1>7, <2>2
       DEF About, Sending, Early, Unknowing, Takes, Differs
  <2>6. Telling(r)' /\ Answering(r)'
    BY <1>1, <1>2, <1>4, <1>5, <1>6, <1>7, <2>1, <2>2
       DEF About, Telling, Answering, Takes, Differs
  <2>7. Timing(r)'
    BY <1>1, <1>2, <1>7, <2>4, ReqFields DEF About, Timing, LastT1
  <2>8. (Remembers => Serving(r) /\ Remembering(r))'
    <3>1. rcvd[r] \in -1 .. 2
      BY <1>2 DEF PeerType, Unknown
    <3> QED
      BY <1>1, <1>2, <1>7, <2>4, <3>1
         DEF About, Remembers, Serving, Remembering, LastCopy, Early, PeerLeft, Left
  <2>9. (Punctual => Single(r) /\ InTime(r) /\ Whole(r))'
    BY <1>1, <1>2, <1>4, <1>5, <1>7, <2>1, <2>2
       DEF About, Punctual, Prompt, Single, At, InTime, Whole, Takes, Differs
  <2> QED
    BY <2>3, <2>4, <2>5, <2>6, <2>7, <2>8, <2>9, IInvParts DEF About
<1>8. CASE ctq' = Append(ctq, Event("RcvdRspError", r)) /\ UNCHANGED outcome
  <2>1. Adds(ctq, ctq', "RcvdRspError", r)
    BY <1>2, <1>8, Posted DEF ReqType, EventTypes
  <2>2. NodeTypes'
    BY <1>1, <1>2, <1>4, <1>8, <2>1, IInvParts
       DEF EnvType, NetType, ReqType, PeerType, Datagrams, Takes, Adds, Differs
  <2>3. /\ Windows' /\ \A q \in Reqs \ {r} : About(q)'
        /\ \A w \in 1 .. 2 : RspLeft(w)' = RspLeft(w) /\ PeerLeft(w)' = PeerLeft(w)
    <3>1. Aside(ttq, ttq', r) /\ Aside(ctq, ctq', r) /\ Aside(pttq, pttq', r)
          /\ Aside(pctq, pctq', r)
      BY <1>1, <1>2, <1>4, <2>1, AsideFacts DEF Takes, Adds, PeerType
    <3> QED
      BY <1>1, <1>8, <2>2, <3>1, Others
  <2>4. Sending(r)'
    BY <1>1, <1>2, <1>4, <1>5, <1>8, <2>1
       DEF About, Sending, Early, Failed, Unknowing, Takes, Adds, Differs
  <2>5. Telling(r)' /\ Answering(r)'
    BY <1>1, <1>2, <1>4, <1>5, <1>6, <1>8, <2>1
       DEF About, Telling, Told, Answering, Takes, Adds, Differs
  <2>6. Timing(r)'
    BY <1>1, <1>2, <2>1, <2>3, ReqFields DEF About, Timing, LastT1, Adds, Differs
  <2>7. (Remembers => Serving(r) /\ Remembering(r))'
    <3>1. rcvd[r] \in -1 .. 2
      BY <1>2 DEF PeerType, Unknown
    <3> QED
      BY <1>1, <1>2, <2>1, <2>3, <3>1
         DEF About, Remembers, Serving, Remembering, LastCopy, Early, PeerLeft, Left, Adds, Differs
  <2>8. (Punctual => Single(r) /\ InTime(r) /\ Whole(r))'
    BY <1>1, <1>2, <1>4, <1>8, <2>1
       DEF About, Punctual, Prompt, Single, At, InTime, Whole, Told, Takes, Adds, Differs
  <2> QED
    BY <2>2, <2>3, <2>4, <2>5, <2>6, <2>7, <2>8, IInvParts DEF About
<1> QED
  BY <1>7, <1>8 DEF DecodeRsp

\* A ReqOut sends its request, the first time or after T1 expired, or gives it up.
LEMMA SndReqIInv ==
    ASSUME IInv, NEW r \in Reqs, NEW t \in {"SndReq", "ReqTimeout"},
           ctq # << >>, Head(ctq) = Event(t, r), ctq' = Tail(ctq),
           NEW o, o = [ro[r] EXCEPT !.at = "listed"], SndReq(r, o),
           UNCHANGED <<ttq, crw, wnd, env, peerVars>>
    PROVE  IInv'
<1>1. UNCHANGED <<ttq, crw, wnd, env, rcvd, pttq, pctq, pcrw, pwnd, serving, given>>
  BY DEF peerVars
<1>2. /\ NodeTypes /\ Windows /\ About(r) /\ EnvType /\ NetType /\ ReqType /\ PeerType
  BY IInvParts
<1>3. Takes(ctq, ctq', t, r)
  BY <1>2, Taken DEF ReqType, EventTypes
<1>4. /\ o \in ReqOut /\ o.at = "listed" /\ o.n1 = ro[r].n1 /\ o.t1 = ro[r].t1
      /\ o.rw = ro[r].rw /\ o.am = ro[r].am
      /\ o.n1 \in Nat /\ o.n1 <= N1 /\ T1 \in Nat /\ env.transit \in Nat /\ env.service \in Nat
      /\ rcvd[r] \in -1 .. 2
  <2>1. /\ ro[r] \in ReqOut /\ ro[r].n1 \in Nat /\ ro[r].n1 <= N1
    BY <1>2, ReqFields
  <2>2. rcvd[r] \in -1 .. 2
    BY <1>2 DEF PeerType, Unknown
  <2> QED
    BY <1>2, <2>1, <2>2, Constants DEF ReqOut, EnvType
\* What is known of the request before it is sent.
<1>5. /\ ro[r].at \in {"queued", "listed"} /\ o.t1 = Off
      /\ ~In(ctq', "ReqTimeout", r) /\ ~In(ctq', "SndReq", r) /\ ~In(ttq, "SndMsg", r)
      /\ ~Failed(r) /\ (t = "SndReq" => Unknowing(r) /\ o.rw = 0 /\ o.am = TRUE
                                        /\ outcome[r] = << >>)
      /\ o.am = TRUE => Told(r) = {} /\ ~In(ttq, "RcvdRsp", r)
      /\ t = "ReqTimeout" => ro[r].at = "listed" /\ In(ctq, "ReqTimeout", r)
  BY <1>2, <1>3, <1>4
     DEF About, Sending, Telling, Timing, Early, Takes, Differs
<1>6. o.rw # 0 => o.n1 * T1 < RspLeft(o.rw)
  BY <1>2, <1>4, <1>5 DEF About, Timing, LastT1
<1> DEFINE Copies(x) == /\ \A d \in net : d.kind = "req" /\ d.req = r => d.left < x
                        /\ o.n1 >= 1 => (o.n1 - 1) * T1 + env.transit < x
<1>7. \A n \in Nat : n >= 1 /\ n <= N1 =>
         /\ n - 1 \in Nat /\ n - 1 < N1 /\ (n - 1) * T1 \in Nat /\ (n - 1) * T1 <= (N1 - 1) * T1
         /\ T1 + (n - 1) * T1 = n * T1 /\ n * T1 \in Nat
  <2>1. \A n \in Nat : n >= 1 /\ n <= N1 => n - 1 \in Nat /\ n - 1 < N1
    BY Constants
  <2> QED
    BY <2>1, Product
<1>8. ASSUME Remembers
      PROVE  /\ Serving(r) /\ Copies(PeerRspWait)
             /\ given[r] # << >> =>
                   /\ rcvd[r] = Unknown => Copies(0)
                   /\ rcvd[r] > 0 => Copies(PeerLeft(rcvd[r]))
  <2>1. CASE t = "SndReq"
    <3>1. o.n1 >= 1 => (o.n1 - 1) * T1 + env.transit < PeerRspWait
      <4>1. o.n1 >= 1 => (o.n1 - 1) * T1 \in Nat /\ (o.n1 - 1) * T1 <= (N1 - 1) * T1
        BY <1>4, <1>7
      <4>2. (N1 - 1) * T1 + env.transit < PeerRspWait /\ (N1 - 1) * T1 \in Nat
        BY <1>8, Product DEF Remembers
      <4> QED
        BY <1>4, <4>1, <4>2, Constants
    <3> QED
      BY <1>2, <1>5, <1>8, <2>1, <3>1 DEF About, Unknowing
  <2>2. CASE t = "ReqTimeout"
    <3>1. \A x : LastCopy(r, x) => Copies(x)
      BY <1>4, <1>5, <2>2 DEF LastCopy
    <3> QED
      BY <1>2, <1>5, <1>8, <2>2, <3>1 DEF About, Remembering, Early
  <2> QED
    BY <2>1, <2>2
<1>9. ASSUME Punctual
      PROVE  /\ Single(r) /\ o.am = TRUE /\ (\A p \in Stages : ~At(p, r))
             /\ Told(r) = DOMAIN outcome[r] /\ ~In(ttq, "RcvdRspNull", r)
             /\ 2 * env.transit + env.service < T1 /\ ~env.duplicates
  <2>1. Single(r) /\ InTime(r) /\ Whole(r)
    BY <1>2, <1>9 DEF About
  <2>2. o.am = TRUE
    BY <1>5, <2>1 DEF Whole
  <2>3. ASSUME NEW p \in Stages, At(p, r)
        PROVE  FALSE
    <3>1. ro[r].t1 = -1
      BY <1>4, <1>5 DEF Off
    <3>2. \A d \in net : d.left \in Nat
      BY <1>2, NetFields
    <3>3. serving[r] # Idle => serving[r] \in Nat
      BY <1>2, <1>4 DEF PeerType, Idle
    <3> QED
      BY <1>4, <2>1, <2>3, <3>1, <3>2, <3>3 DEF InTime, At
  <2> QED
    BY <1>9, <2>1, <2>2, <2>3 DEF Whole, Punctual, Prompt
<1> HIDE DEF Copies
<1>10. Aside(ttq, ttq', r) /\ Aside(ctq, ctq', r) /\ Aside(pttq, pttq', r)
       /\ Aside(pctq, pctq', r)
  BY <1>1, <1>2, <1>3, AsideFacts DEF Takes, ReqType, PeerType
\* It is sent.
<1>11. CASE o.n1 >= 1
  <2> DEFINE n == o.n1 - 1
             m == [kind |-> "req", req |-> r, left |-> env.transit, twice |-> env.duplicates]
  <2>1. /\ ro' = [ro EXCEPT ![r] = [o EXCEPT !.n1 = @ - 1, !.t1 = T1]]
        /\ net' = net \cup {m} /\ outcome' = outcome
    BY <1>11 DEF SndReq, NetSend
  <2>2. n \in Nat /\ n < N1 /\ n * T1 \in Nat /\ T1 + n * T1 = o.n1 * T1
        /\ (n >= 1 => (n - 1) * T1 \in Nat /\ T1 + (n - 1) * T1 = n * T1)
    <3>1. n \in Nat /\ n < N1 /\ n <= N1 /\ n * T1 \in Nat /\ T1 + n * T1 = o.n1 * T1
      BY <1>4, <1>7, <1>11, Constants
    <3> HIDE DEF n
    <3> QED
      BY <1>7, <3>1
  <2>3. /\ ro' \in [Reqs -> ReqOut]
        /\ ro'[r].at = "listed" /\ ro'[r].n1 = n /\ ro'[r].t1 = T1 /\ ro'[r].t1 # Off
        /\ ro'[r].rw = o.rw /\ ro'[r].am = o.am
        /\ \A q \in Reqs \ {r} : ro'[q] = ro[q]
    <3> DEFINE c == [o EXCEPT !.n1 = @ - 1, !.t1 = T1]
    <3>1. n \in 0 .. N1 /\ T1 \in -1 .. T1 /\ T1 # -1
      BY SMTT(30), <1>4, <2>2, Constants
    <3>2. /\ c \in ReqOut /\ c.at = "listed" /\ c.n1 = n /\ c.t1 = T1
          /\ c.rw = o.rw /\ c.am = o.am
      BY <1>4, <3>1 DEF ReqOut, Off
    <3> HIDE DEF c, n
    <3>3. ro' = [ro EXCEPT ![r] = c]
      BY <2>1 DEF c
    <3> QED
      BY <1>2, <3>1, <3>2, <3>3 DEF ReqType, Off
  <2>4. m \in Datagrams /\ m.kind = "req" /\ m.req = r /\ m.left = env.transit
        /\ m.twice = env.duplicates
    BY <1>2, <1>4, Constants DEF Datagrams, EnvType
  <2> HIDE DEF m, n
  <2>5. NodeTypes'
    BY <1>1, <1>2, <1>3, <2>1, <2>3, <2>4, IInvParts
       DEF EnvType, NetType, ReqType, PeerType, Datagrams, Takes, Differs
  <2>6. /\ Windows' /\ \A q \in Reqs \ {r} : About(q)'
        /\ \A w \in 1 .. 2 : RspLeft(w)' = RspLeft(w) /\ PeerLeft(w)' = PeerLeft(w)
    BY <1>1, <1>10, <2>1, <2>3, <2>4, <2>5, Others
  <2>7. Sending(r)'
    BY <1>1, <1>2, <1>3, <1>5, <2>1, <2>3
       DEF About, Sending, Early, Failed, Takes, Differs
  <2>8. Telling(r)'
    BY <1>1, <1>2, <1>4, <1>5, <2>1, <2>3 DEF About, Telling, Told
  <2>9. Answering(r)'
    BY <1>1, <1>2, <2>1, <2>4 DEF About, Answering
  <2>10. Timing(r)'
    <3>1. o.rw # 0 => LastT1(r, RspLeft(o.rw))'
      <4>1. o.rw # 0 => o.rw \in 1 .. 2
        BY <1>4 DEF ReqOut
      <4>2. o.rw # 0 => o.n1 * T1 < RspLeft(o.rw)'
        BY <1>4, <1>6, <2>6, <4>1 DEF RspLeft, Left
      <4> QED
        BY <1>5, <2>2, <2>3, <4>2 DEF LastT1
    <3> QED
      BY <1>2, <1>3, <1>5, <2>2, <2>3, <3>1 DEF About, Timing, Takes, Differs
  <2>11. (Remembers => Serving(r) /\ Remembering(r))'
    <3>1. ASSUME NEW x \in Int, Copies(x)
          PROVE  LastCopy(r, x)'
      <4>1. n * T1 + env.transit < x
        BY <1>11, <3>1 DEF Copies, n
      <4>2. env.transit < x
        BY <1>4, <2>2, <4>1, <3>1
      <4>3. n >= 1 => T1 + (n - 1) * T1 + env.transit < x
        BY <2>2, <4>1
      <4> QED
        BY <1>1, <1>5, <2>1, <2>3, <2>4, <3>1, <4>2, <4>3 DEF LastCopy, Copies
    <3>2. \A w \in 1 .. 2 : PeerLeft(w) \in Int
      BY <1>2, Constants DEF PeerType, PeerLeft, Left
    <3>3. Remembers' <=> Remembers
      BY <1>1 DEF Remembers
    <3>4. ASSUME Remembers PROVE Serving(r)'
      BY <1>1, <1>8, <3>4 DEF Serving
    <3>5. ASSUME Remembers PROVE Remembering(r)'
      <4>1. LastCopy(r, PeerRspWait)'
        BY <1>8, <3>1, <3>5, Constants
      <4>2. given[r] # << >> /\ rcvd[r] = Unknown => LastCopy(r, 0)'
        BY <1>8, <3>1, <3>5
      <4>3. ASSUME given[r] # << >>, rcvd[r] > 0
            PROVE  LastCopy(r, PeerLeft(rcvd[r]))'
        <5>1. PICK w \in 1 .. 2 : w = rcvd[r]
          BY <1>4, <4>3
        <5>2. Copies(PeerLeft(w)) /\ PeerLeft(w)' = PeerLeft(w) /\ w = rcvd'[r]
          BY <1>1, <1>8, <2>6, <3>5, <4>3, <5>1
        <5> QED
          BY <3>1, <3>2, <5>2
      <4> QED
        BY <1>1, <4>1, <4>2, <4>3 DEF Remembering
    <3> QED
      BY <3>3, <3>4, <3>5
  <2>12. (Punctual => Single(r) /\ InTime(r) /\ Whole(r))'
    <3>1. ASSUME Punctual
          PROVE  Single(r)' /\ InTime(r)' /\ Whole(r)'
      <4>1. /\ \A d \in net' : d.req = r => d = m
            /\ \A p \in Stages : At(p, r)' => p = "net"
        BY <1>1, <1>9, <2>1, <3>1 DEF At, Stages
      <4>2. Single(r)'
        BY <1>1, <1>9, <2>4, <3>1, <4>1 DEF Single
      <4>3. InTime(r)'
        <5>1. ~At("decode", r)' /\ ~At("served", r)' /\ ~At("encode", r)' /\ ~At("send", r)'
          BY <4>1 DEF Stages
        <5>2. \A d \in net' : d.req = r =>
                d.left + (IF d.kind = "req" THEN env.service + env.transit ELSE 0) < ro'[r].t1
          BY <1>4, <1>9, <2>3, <2>4, <3>1, <4>1
        <5> QED
          BY <1>1, <5>1, <5>2 DEF InTime, At
      <4>4. Whole(r)'
        BY <1>1, <1>9, <2>1, <2>3, <3>1 DEF Whole, Told
      <4> QED
        BY <4>2, <4>3, <4>4
    <3> QED
      BY <1>1, <3>1 DEF Punctual, Prompt
  <2> QED
    BY <2>5, <2>6, <2>7, <2>8, <2>9, <2>10, <2>11, <2>12, IInvParts DEF About
\* It is given up.
<1>12. CASE ~(o.n1 >= 1)
  <2>1. /\ ro' = [ro EXCEPT ![r] = [o EXCEPT !.at = "deleted", !.am = FALSE]]
        /\ Tell(r, IF o.am THEN "timeout" ELSE "timeoutNull") /\ net' = net
    BY <1>12 DEF SndReq
  <2>2. PICK what \in {"rsp", "rspNull", "timeout", "timeoutNull", "error"} :
           what = (IF o.am THEN "timeout" ELSE "timeoutNull") /\ Tell(r, what)
    BY <2>1
  <2>3. /\ outcome' \in [Reqs -> Seq({"rsp", "rspNull", "timeout", "timeoutNull", "error"})]
        /\ \A q \in Reqs \ {r} : outcome'[q] = outcome[q]
        /\ Failed(r)' <=> Failed(r)
        /\ what \in {"rspNull", "timeoutNull"} => Told(r)' = Told(r)
        /\ Told(r) = {} => \A i, j \in Told(r)' : i = j
        /\ what \notin {"rspNull", "timeoutNull"} /\ Told(r) = DOMAIN outcome[r] =>
              Told(r)' = DOMAIN outcome'[r]
    BY <1>2, <2>2, Tells
  <2>4. /\ ro' \in [Reqs -> ReqOut]
        /\ ro'[r].at = "deleted" /\ ro'[r].t1 = Off /\ ro'[r].am = FALSE
        /\ \A q \in Reqs \ {r} : ro'[q] = ro[q]
    BY <1>2, <1>4, <1>5, <2>1 DEF ReqType, ReqOut
  <2>5. NodeTypes'
    BY <1>1, <1>2, <1>3, <2>1, <2>3, <2>4, IInvParts
       DEF EnvType, NetType, ReqType, PeerType, Datagrams, Takes, Differs
  <2>6. /\ Windows' /\ \A q \in Reqs \ {r} : About(q)'
        /\ \A w \in 1 .. 2 : RspLeft(w)' = RspLeft(w) /\ PeerLeft(w)' = PeerLeft(w)
    BY <1>1, <1>10, <2>1, <2>3, <2>4, <2>5, Others
  <2>7. Sending(r)'
    BY <1>1, <1>2, <1>3, <1>5, <2>1, <2>3, <2>4
       DEF About, Sending, Early, Takes, Differs
  <2>8. Telling(r)'
    BY <1>1, <1>2, <1>4, <1>5, <2>2, <2>3, <2>4 DEF About, Telling
  <2>9. Answering(r)'
    BY <1>1, <1>2, <2>1 DEF About, Answering
  <2>10. Timing(r)'
    BY <1>2, <1>3, <1>5, <2>4 DEF About, Timing, Takes, Differs
  <2>11. (Remembers => Serving(r) /\ Remembering(r))'
    <3>1. ASSUME NEW x \in Int, Copies(x)
          PROVE  LastCopy(r, x)'
      BY <1>1, <2>1, <2>4, <3>1 DEF LastCopy, Copies
    <3>2. \A w \in 1 .. 2 : PeerLeft(w) \in Int
      BY <1>2, Constants DEF PeerType, PeerLeft, Left
    <3>3. Remembers' <=> Remembers
      BY <1>1 DEF Remembers
    <3>4. ASSUME Remembers PROVE Serving(r)'
      BY <1>1, <1>8, <3>4 DEF Serving
    <3>5. ASSUME Remembers PROVE Remembering(r)'
      <4>1. LastCopy(r, PeerRspWait)'
        BY <1>8, <3>1, <3>5, Constants
      <4>2. given[r] # << >> /\ rcvd[r] = Unknown => LastCopy(r, 0)'
        BY <1>8, <3>1, <3>5
      <4>3. ASSUME given[r] # << >>, rcvd[r] > 0
            PROVE  LastCopy(r, PeerLeft(rcvd[r]))'
        <5>1. PICK w \in 1 .. 2 : w = rcvd[r]
          BY <1>4, <4>3
        <5>2. Copies(PeerLeft(w)) /\ PeerLeft(w)' = PeerLeft(w) /\ w = rcvd'[r]
          BY <1>1, <1>8, <2>6, <3>5, <4>3, <5>1
        <5> QED
          BY <3>1, <3>2, <5>2
      <4> QED
        BY <1>1, <4>1, <4>2, <4>3 DEF Remembering
    <3> QED
      BY <3>3, <3>4, <3>5
  <2>12. (Punctual => Single(r) /\ InTime(r) /\ Whole(r))'
    <3>1. ASSUME Punctual
          PROVE  Single(r)' /\ InTime(r)' /\ Whole(r)'
      <4>1. Told(r)' = DOMAIN outcome'[r]
        BY <1>9, <2>2, <2>3, <3>1
      <4>2. /\ \A p \in Stages : ~At(p, r)'
            /\ \A d \in net' : d.req # r
        BY <1>1, <1>9, <2>1, <3>1 DEF At, Stages
      <4>3. Single(r)'
        BY <1>1, <1>9, <3>1, <4>2 DEF Single
      <4>4. ~At("decode", r)' /\ ~At("served", r)' /\ ~At("encode", r)' /\ ~At("send", r)'
        BY <4>2 DEF Stages
      <4>5. InTime(r)'
        BY <1>1, <4>2, <4>4 DEF InTime, At
      <4>6. Whole(r)'
        BY <1>1, <1>5, <1>9, <2>4, <3>1, <4>1 DEF Whole
      <4> QED
        BY <4>3, <4>5, <4>6
    <3> QED
      BY <1>1, <3>1 DEF Punctual, Prompt
  <2> QED
    BY <2>5, <2>6, <2>7, <2>8, <2>9, <2>10, <2>11, <2>12, IInvParts DEF About
<1> QED
  BY <1>11, <1>12

\* The first sending of a request, and T1 expired.
LEMMA SndInitialReqIInv ==
    ASSUME IInv, NEW r \in Reqs, SndInitialReq(r), UNCHANGED <<env, peerVars>>
    PROVE  IInv'
<1> DEFINE o == [ro[r] EXCEPT !.at = "listed"]
<1>1. /\ ctq # << >> /\ Head(ctq) = Event("SndReq", r) /\ ctq' = Tail(ctq)
      /\ SndReq(r, o) /\ UNCHANGED <<ttq, crw, wnd, env, peerVars>>
  BY DEF SndInitialReq
<1> QED
  BY <1>1, SndReqIInv

\* Only a request in roumap_ is found by the handler of its timer.
LEMMA OnReqTimeoutIInv ==
    ASSUME IInv, NEW r \in Reqs, OnReqTimeout(r), UNCHANGED <<env, peerVars>>
    PROVE  IInv'
<1>1. /\ ctq # << >> /\ Head(ctq) = Event("ReqTimeout", r) /\ ctq' = Tail(ctq)
      /\ UNCHANGED <<ttq, crw, wnd, env, peerVars>>
  BY DEF OnReqTimeout
<1>2. About(r) /\ ReqType
  BY IInvParts
<1>3. In(ctq, "ReqTimeout", r)
  <2>1. Takes(ctq, ctq', "ReqTimeout", r)
    BY <1>1, <1>2, Taken DEF ReqType, EventTypes
  <2> QED
    BY <2>1 DEF Takes
<1>4. ro[r].at = "listed" /\ ro[r] \in ReqOut
  BY <1>2, <1>3 DEF About, Timing, ReqType
<1>5. ro[r] = [ro[r] EXCEPT !.at = "listed"]
  BY <1>4 DEF ReqOut
<1>6. SndReq(r, ro[r])
  BY <1>4 DEF OnReqTimeout
<1> QED
  BY <1>1, <1>5, <1>6, SndReqIInv

\* What a step leaves of LastCopy: no copy of r arrives later than before.
LEMMA CopiesStay ==
    ASSUME NodeTypes, NEW r \in Reqs, Remembering(r), UNCHANGED env,
           given'[r] = given[r], rcvd'[r] = rcvd[r], Early(r) => Early(r)',
           \A x \in Int : LastCopy(r, x) => LastCopy(r, x)',
           \A w \in 1 .. 2 : PeerLeft(w)' = PeerLeft(w)
    PROVE  Remembering(r)'
<1>1. PeerType
  BY TypeParts
<1>2. /\ rcvd[r] \in -1 .. 2
      /\ \A w \in 1 .. 2 : PeerLeft(w) \in Int
  BY <1>1, Constants DEF PeerType, PeerLeft, Left, Unknown
<1>3. ~Early(r)' => LastCopy(r, PeerRspWait)'
  <2>1. PeerRspWait \in Int
    BY Constants
  <2>2. ~Early(r)' => LastCopy(r, PeerRspWait)
    BY DEF Remembering
  <2> QED
    BY <2>1, <2>2
<1>4. given[r] # << >> /\ rcvd[r] = Unknown => LastCopy(r, 0)'
  BY DEF Remembering
<1>5. ASSUME given[r] # << >>, rcvd[r] > 0
      PROVE  LastCopy(r, PeerLeft(rcvd[r]))'
  <2>1. PICK w \in 1 .. 2 : w = rcvd[r]
    BY <1>2, <1>5
  <2>2. LastCopy(r, PeerLeft(w)) /\ PeerLeft(w)' = PeerLeft(w) /\ w = rcvd'[r]
    BY <1>5, <2>1 DEF Remembering
  <2> QED
    BY <1>2, <2>2
<1> QED
  BY <1>3, <1>4, <1>5 DEF Remembering

\* A response that could not be decoded.
LEMMA OnRcvdRspErrorIInv ==
    ASSUME IInv, NEW r \in Reqs, OnRcvdRspError(r), UNCHANGED <<env, peerVars>>
    PROVE  IInv'
<1>1. /\ ctq # << >> /\ Head(ctq) = Event("RcvdRspError", r) /\ ctq' = Tail(ctq)
      /\ ro' = IF ro[r].at = "listed" THEN [ro EXCEPT ![r].rw = 0] ELSE ro
      /\ UNCHANGED <<ttq, crw, wnd, outcome, net, env, rcvd, pttq, pctq, pcrw, pwnd, serving,
                     given>>
  BY DEF OnRcvdRspError, peerVars
<1>2. /\ NodeTypes /\ Windows /\ About(r) /\ EnvType /\ NetType /\ ReqType /\ PeerType
  BY IInvParts
<1>3. Takes(ctq, ctq', "RcvdRspError", r)
  BY <1>1, <1>2, Taken DEF ReqType, EventTypes
<1>4. /\ ro' \in [Reqs -> ReqOut]
      /\ ro'[r].at = ro[r].at /\ ro'[r].n1 = ro[r].n1 /\ ro'[r].t1 = ro[r].t1
      /\ ro'[r].am = ro[r].am /\ ro'[r].rw \in {ro[r].rw, 0}
      /\ (ro[r].at = "listed" => ro'[r].rw = 0)
      /\ \A q \in Reqs \ {r} : ro'[q] = ro[q]
  <2>1. CASE ro[r].at = "listed"
    <3> DEFINE c == [ro[r] EXCEPT !.rw = 0]
    <3>1. /\ c \in ReqOut /\ c.at = ro[r].at /\ c.n1 = ro[r].n1 /\ c.t1 = ro[r].t1
          /\ c.am = ro[r].am /\ c.rw = 0
      BY <1>2, ReqFields DEF ReqOut
    <3>2. ro' = [ro EXCEPT ![r] = c]
      BY <1>1, <2>1
    <3> HIDE DEF c
    <3> QED
      BY <1>2, <3>1, <3>2 DEF ReqType
  <2>2. CASE ro[r].at # "listed"
    BY <1>1, <1>2, <2>2 DEF ReqType
  <2> QED
    BY <2>1, <2>2
<1>5. NodeTypes'
  BY <1>1, <1>2, <1>3, <1>4, IInvParts
     DEF EnvType, NetType, ReqType, PeerType, Datagrams, Takes, Differs
<1>6. /\ Windows' /\ \A q \in Reqs \ {r} : About(q)'
      /\ \A w \in 1 .. 2 : RspLeft(w)' = RspLeft(w) /\ PeerLeft(w)' = PeerLeft(w)
  <2>1. Aside(ttq, ttq', r) /\ Aside(ctq, ctq', r) /\ Aside(pttq, pttq', r)
        /\ Aside(pctq, pctq', r)
    BY <1>1, <1>2, <1>3, AsideFacts DEF Takes, ReqType, PeerType
  <2> QED
    BY <1>1, <1>4, <1>5, <2>1, Others
<1>7. Sending(r)'
  BY <1>1, <1>2, <1>3, <1>4 DEF About, Sending, Early, Failed, Unknowing, Takes, Differs
<1>8. Telling(r)' /\ Answering(r)'
  BY <1>1, <1>2, <1>3, <1>4 DEF About, Telling, Told, Answering, Takes, Differs
<1>9. Timing(r)'
  BY <1>2, <1>3, <1>4 DEF About, Timing, Takes, Differs
<1>10. (Remembers => Serving(r) /\ Remembering(r))'
  <2>1. \A x \in Int : LastCopy(r, x) => LastCopy(r, x)'
    BY <1>1, <1>3, <1>4 DEF LastCopy, Takes, Differs
  <2>2. Remembering(r) => Remembering(r)'
    BY <1>1, <1>2, <1>4, <1>6, <2>1, CopiesStay DEF Early
  <2> QED
    BY <1>1, <1>2, <2>2 DEF About, Remembers, Serving
<1>11. (Punctual => Single(r) /\ InTime(r) /\ Whole(r))'
  BY <1>1, <1>2, <1>3, <1>4
     DEF About, Punctual, Prompt, Single, At, InTime, Whole, Told, Takes, Differs
<1> QED
  BY <1>5, <1>6, <1>7, <1>8, <1>9, <1>10, <1>11, IInvParts DEF About

\* T1 of a request expires.
LEMMA ExpireT1IInv ==
    ASSUME IInv, NEW r \in Reqs, ExpireT1(r), UNCHANGED <<env, peerVars>>
    PROVE  IInv'
<1>1. /\ ro[r].t1 = 0 /\ ro' = [ro EXCEPT ![r].t1 = Off]
      /\ ctq' = Append(ctq, Event("ReqTimeout", r))
      /\ UNCHANGED <<ttq, crw, wnd, outcome, net, env, rcvd, pttq, pctq, pcrw, pwnd, serving,
                     given>>
  BY DEF ExpireT1, peerVars
<1>2. /\ NodeTypes /\ Windows /\ About(r) /\ EnvType /\ NetType /\ ReqType /\ PeerType
  BY IInvParts
<1>3. Adds(ctq, ctq', "ReqTimeout", r)
  BY <1>1, <1>2, Posted DEF ReqType, EventTypes
<1>4. /\ ro' \in [Reqs -> ReqOut]
      /\ ro'[r].at = ro[r].at /\ ro'[r].n1 = ro[r].n1 /\ ro'[r].t1 = Off
      /\ ro'[r].rw = ro[r].rw /\ ro'[r].am = ro[r].am /\ ro[r].t1 # Off
      /\ \A q \in Reqs \ {r} : ro'[q] = ro[q]
  <2> DEFINE c == [ro[r] EXCEPT !.t1 = Off]
  <2>1. Off \in Off .. T1 /\ ro[r] \in ReqOut /\ Off = -1
    BY <1>2, Constants DEF ReqType, Off
  <2>2. /\ c \in ReqOut /\ c.at = ro[r].at /\ c.n1 = ro[r].n1 /\ c.t1 = Off
        /\ c.am = ro[r].am /\ c.rw = ro[r].rw
    BY <2>1 DEF ReqOut
  <2>3. ro' = [ro EXCEPT ![r] = c]
    BY <1>1
  <2> HIDE DEF c
  <2>4. ro[r].t1 # Off
    BY <1>1, <2>1
  <2>5. ro' \in [Reqs -> ReqOut] /\ ro'[r] = c /\ \A q \in Reqs \ {r} : ro'[q] = ro[q]
    BY <1>2, <2>2, <2>3 DEF ReqType
  <2> QED
    BY <2>2, <2>4, <2>5
<1>5. NodeTypes'
  BY <1>1, <1>2, <1>3, <1>4, IInvParts
     DEF EnvType, NetType, ReqType, PeerType, Datagrams, Adds, Differs
<1>6. /\ Windows' /\ \A q \in Reqs \ {r} : About(q)'
      /\ \A w \in 1 .. 2 : RspLeft(w)' = RspLeft(w) /\ PeerLeft(w)' = PeerLeft(w)
  <2>1. Aside(ttq, ttq', r) /\ Aside(ctq, ctq', r) /\ Aside(pttq, pttq', r)
        /\ Aside(pctq, pctq', r)
    BY <1>1, <1>2, <1>3, AsideFacts DEF Adds, ReqType, PeerType
  <2> QED
    BY <1>1, <1>4, <1>5, <2>1, Others
<1>7. Sending(r)'
  BY <1>1, <1>2, <1>3, <1>4 DEF About, Sending, Early, Failed, Unknowing, Adds, Differs
<1>8. Telling(r)' /\ Answering(r)'
  BY <1>1, <1>2, <1>3, <1>4 DEF About, Telling, Told, Answering, Adds, Differs
<1>9. /\ ro[r].n1 \in Nat /\ ro[r].n1 * T1 \in Nat /\ env.transit \in Nat
      /\ ro[r].n1 >= 1 => (ro[r].n1 - 1) * T1 \in Nat
  <2>1. ro[r].n1 \in Nat /\ (ro[r].n1 >= 1 => ro[r].n1 - 1 \in Nat)
    BY <1>2, ReqFields
  <2> QED
    BY <1>2, <2>1, Product, Constants DEF EnvType
<1>10. Timing(r)'
  <2>1. ro[r].rw # 0 => LastT1(r, RspLeft(ro[r].rw))'
    <3>1. ro[r].rw # 0 => ro[r].rw \in 1 .. 2
      BY <1>2, ReqFields
    <3>2. ro[r].rw # 0 => ro[r].n1 * T1 < RspLeft(ro[r].rw)
      BY <1>1, <1>2, <1>4, <1>9 DEF About, Timing, LastT1
    <3>3. ro[r].rw # 0 => RspLeft(ro[r].rw)' = RspLeft(ro[r].rw)
      BY <1>4, <1>6, <3>1 DEF RspLeft, Left
    <3> QED
      BY <1>4, <3>2, <3>3 DEF LastT1
  <2> QED
    BY <1>2, <1>3, <1>4, <2>1 DEF About, Timing, Adds
<1>11. (Remembers => Serving(r) /\ Remembering(r))'
  <2>1. \A x \in Int : LastCopy(r, x) => LastCopy(r, x)'
    BY <1>1, <1>4, <1>9 DEF LastCopy
  <2>2. Remembering(r) => Remembering(r)'
    BY <1>1, <1>2, <1>4, <1>6, <2>1, CopiesStay DEF Early
  <2> QED
    BY <1>1, <1>2, <2>2 DEF About, Remembers, Serving
<1>12. (Punctual => Single(r) /\ InTime(r) /\ Whole(r))'
  <2>1. Punctual' <=> Punctual
    BY <1>1 DEF Punctual, Prompt
  <2>2. ASSUME Punctual
        PROVE  Single(r)' /\ InTime(r)' /\ Whole(r)'
    <3>1. Single(r) /\ InTime(r) /\ Whole(r)
      BY <1>2, <2>2 DEF About
    <3>2. env.transit \in Nat /\ env.service \in Nat /\ (\A d \in net : d.left \in Nat)
          /\ (serving[r] # Idle => serving[r] \in Nat)
      BY <1>2, NetFields, Constants DEF EnvType, PeerType, Idle
    <3>3. \A p \in Stages : ~At(p, r)
      BY <1>1, <3>1, <3>2 DEF InTime, At
    <3>4. /\ \A d \in net' : d.req # r
          /\ ~At("decode", r)' /\ ~At("served", r)' /\ ~At("encode", r)' /\ ~At("send", r)'
      BY <1>1, <3>3 DEF At, Stages
    <3>5. InTime(r)'
      BY <3>4 DEF InTime, At
    <3>6. Single(r)' /\ Whole(r)'
      BY <1>1, <1>4, <3>1 DEF Single, At, Whole, Told
    <3> QED
      BY <3>5, <3>6
  <2> QED
    BY <2>1, <2>2
<1> QED
  BY <1>5, <1>6, <1>7, <1>8, <1>10, <1>11, <1>12, IInvParts DEF About

\* A datagram is received: what is left of it is no later, and gone when it was single.
LEMMA Received ==
    ASSUME NetType, EnvType, NEW d, NetReceive(d), UNCHANGED env
    PROVE  /\ d \in net /\ NetType' /\ d.req \in Reqs
           /\ \A e : e.req # d.req => (e \in net' <=> e \in net)
           /\ \A e \in net' : \E c \in net :
                 c.req = e.req /\ c.kind = e.kind /\ c.left = e.left
           /\ ~d.twice => net' = net \ {d}
<1>1. d \in net /\ d \in Datagrams /\ d.req \in Reqs
  BY DEF NetReceive, NetType, Datagrams
<1>2. CASE net' = net \ {d}
  BY <1>1, <1>2 DEF NetType, Datagrams
<1>3. CASE d.twice /\ net' = (net \ {d}) \cup {[d EXCEPT !.twice = FALSE]}
  <2> DEFINE c == [d EXCEPT !.twice = FALSE]
  <2>1. c \in Datagrams /\ c.req = d.req /\ c.kind = d.kind /\ c.left = d.left
    BY <1>1 DEF Datagrams
  <2>2. net' = (net \ {d}) \cup {c}
    BY <1>3
  <2> HIDE DEF c
  <2>3. net' \subseteq Datagrams /\ Datagrams' = Datagrams
    BY <2>1, <2>2 DEF NetType, Datagrams
  <2> QED
    BY <1>1, <1>3, <2>1, <2>2, <2>3 DEF NetType
<1> QED
  BY <1>2, <1>3 DEF NetReceive

\* A response arrives.
LEMMA OnReceiveRspIInv ==
    ASSUME IInv, NEW d \in net, OnReceiveRsp(d), UNCHANGED <<env, peerVars>>
    PROVE  IInv'
<1>1. /\ d.kind = "rsp" /\ NetReceive(d)
      /\ UNCHANGED <<ctq, crw, wnd, outcome, env, rcvd, pttq, pctq, pcrw, pwnd, serving, given>>
  BY DEF OnReceiveRsp, peerVars
<1>2. /\ NodeTypes /\ Windows /\ EnvType /\ NetType /\ ReqType /\ PeerType
      /\ \A q \in Reqs : About(q)
  BY IInvParts
<1>3. /\ NetType' /\ d.req \in Reqs
      /\ \A e : e.req # d.req => (e \in net' <=> e \in net)
      /\ \A e \in net' : \E c \in net :
            c.req = e.req /\ c.kind = e.kind /\ c.left = e.left
      /\ ~d.twice => net' = net \ {d}
  BY <1>1, <1>2, Received
<1>4. PICK r \in Reqs : r = d.req
  BY <1>3
<1>5. About(r) /\ given[r] # << >> /\ ~Early(r) /\ ~Failed(r)
  BY <1>1, <1>2, <1>4 DEF About, Answering, Sending, Unknowing
<1>6. CASE ro[r].at = "listed"
  <2>1. PICK t \in {"RcvdRsp", "RcvdRspNull"} :
           /\ t = (IF ro[r].am THEN "RcvdRsp" ELSE "RcvdRspNull")
           /\ ttq' = Append(ttq, Event(t, r))
    BY <1>4, <1>6 DEF OnReceiveRsp
  <2>2. Adds(ttq, ttq', t, r)
    BY <1>2, <2>1, Posted DEF ReqType, EventTypes
  <2> DEFINE c == [ro[r] EXCEPT !.rw = crw, !.t1 = Off, !.am = FALSE]
  <2>3. /\ c \in ReqOut /\ c.at = "listed" /\ c.n1 = ro[r].n1 /\ c.t1 = Off
        /\ c.am = FALSE /\ c.rw = crw
    <3>1. crw \in 0 .. 2 /\ Off \in Off .. T1 /\ ro[r] \in ReqOut
      BY <1>2, Constants DEF ReqType, Off
    <3> QED
      BY <1>6, <3>1 DEF ReqOut
  <2>4. ro' = [ro EXCEPT ![r] = c]
    BY <1>4, <1>6 DEF OnReceiveRsp
  <2> HIDE DEF c
  <2>5. ro' \in [Reqs -> ReqOut] /\ ro'[r] = c /\ \A q \in Reqs \ {r} : ro'[q] = ro[q]
    BY <1>2, <2>3, <2>4 DEF ReqType
  <2>6. NodeTypes'
    BY <1>1, <1>2, <1>3, <2>2, <2>5, IInvParts
       DEF EnvType, ReqType, PeerType, Adds, Differs
  <2>7. /\ Windows' /\ \A q \in Reqs \ {r} : About(q)'
        /\ \A w \in 1 .. 2 : RspLeft(w)' = RspLeft(w) /\ PeerLeft(w)' = PeerLeft(w)
    <3>1. Aside(ttq, ttq', r) /\ Aside(ctq, ctq', r) /\ Aside(pttq, pttq', r)
          /\ Aside(pctq, pctq', r)
      BY <1>1, <1>2, <2>2, AsideFacts DEF Adds, ReqType, PeerType
    <3> QED
      BY <1>1, <1>3, <1>4, <2>5, <2>6, <3>1, Others
  <2>8. Sending(r)'
    BY <1>1, <1>5, <1>6, <2>2, <2>3, <2>5
       DEF About, Sending, Early, Failed, Adds, Differs
  <2>9. Telling(r)'
    <3>1. ro[r].am \in BOOLEAN
      BY <1>2, ReqFields
    <3> QED
      BY <1>1, <1>5, <2>1, <2>2, <2>3, <2>5, <3>1
         DEF About, Telling, Told, Adds, Differs
  <2>10. Answering(r)'
    BY <1>1, <1>5 DEF Answering
  <2>11. Timing(r)'
    <3>1. RspLeft(crw) >= RspWait /\ RspLeft(crw) \in Int
      BY <1>2, Constants DEF Windows, RspLeft, Left, ReqType
    <3>2. ro[r].n1 < N1 /\ ro[r].n1 \in Nat
      BY <1>2, <1>5, <1>6, ReqFields DEF About, Timing
    <3>3. ro[r].n1 * T1 < RspWait /\ ro[r].n1 * T1 \in Nat
      BY <3>2, Product
    <3>4. ro[r].n1 * T1 < RspLeft(crw)
      BY <3>1, <3>3, Constants
    <3>5. RspLeft(ro[r].rw)' = RspLeft(crw)
      <4>1. PICK w \in 1 .. 2 : w = crw
        BY <1>2 DEF ReqType
      <4>2. RspLeft(w)' = RspLeft(w) /\ ro'[r].rw = w
        BY <2>3, <2>5, <2>7, <4>1
      <4> QED
        BY <4>1, <4>2
    <3>6. LastT1(r, RspLeft(ro[r].rw))'
      BY <1>1, <2>3, <2>5, <3>4, <3>5 DEF LastT1
    <3> QED
      BY <1>1, <1>5, <2>3, <2>5, <3>2, <3>6 DEF About, Timing
  <2>12. (Remembers => Serving(r) /\ Remembering(r))'
    <3>1. \A x \in Int : LastCopy(r, x) => LastCopy(r, x)'
      BY <1>1, <1>3, <1>6, <2>3, <2>5 DEF LastCopy
    <3>2. Remembering(r) => Remembering(r)'
      BY <1>1, <1>2, <1>5, <2>7, <3>1, CopiesStay
    <3> QED
      BY <1>1, <1>5, <3>2 DEF About, Remembers, Serving
  <2>13. (Punctual => Single(r) /\ InTime(r) /\ Whole(r))'
    <3>1. Punctual' <=> Punctual
      BY <1>1 DEF Punctual, Prompt
    <3>2. ASSUME Punctual
          PROVE  Single(r)' /\ InTime(r)' /\ Whole(r)'
      <4>1. Single(r) /\ InTime(r) /\ Whole(r)
        BY <1>5, <3>2 DEF About
      <4>2. ro[r].t1 # Off
        <5>1. d.left < ro[r].t1 /\ d.left \in Nat
          BY <1>1, <1>2, <1>4, <4>1, NetFields DEF InTime
        <5> QED
          BY <1>2, <5>1, ReqFields
      <4>3. ro[r].am = TRUE /\ ~In(ctq, "ReqTimeout", r)
        BY <1>5, <4>1, <4>2 DEF Whole, About, Timing
      <4>4. net' = net \ {d} /\ At("net", r)
        BY <1>3, <1>4, <4>1 DEF Single, At
      <4>5. /\ \A e \in net' : e.req # r
            /\ ~At("decode", r) /\ ~At("served", r) /\ ~At("encode", r) /\ ~At("send", r)
        BY <1>4, <4>1, <4>4 DEF Single, Stages
      <4>6. ~At("decode", r)' /\ ~At("served", r)' /\ ~At("encode", r)' /\ ~At("send", r)'
        BY <1>1, <4>5 DEF At
      <4>7. InTime(r)'
        BY <4>5, <4>6 DEF InTime, At
      <4>8. Single(r)'
        BY <1>1, <4>1, <4>5, <4>6 DEF Single, Stages
      <4>9. Whole(r)'
        BY <1>1, <2>1, <2>2, <2>3, <2>5, <4>1, <4>3 DEF Whole, Told, Adds, Differs
      <4> QED
        BY <4>7, <4>8, <4>9
    <3> QED
      BY <3>1, <3>2
  <2> QED
    BY <2>6, <2>7, <2>8, <2>9, <2>10, <2>11, <2>12, <2>13, IInvParts DEF About
<1>7. CASE ro[r].at # "listed"
  <2>1. UNCHANGED <<ro, ttq>>
    BY <1>4, <1>7 DEF OnReceiveRsp
  <2>2. NodeTypes'
    BY <1>1, <1>2, <1>3, <2>1, IInvParts DEF EnvType, ReqType, PeerType
  <2>3. /\ Windows' /\ \A q \in Reqs \ {r} : About(q)'
        /\ \A w \in 1 .. 2 : RspLeft(w)' = RspLeft(w) /\ PeerLeft(w)' = PeerLeft(w)
    <3>1. Aside(ttq, ttq', r) /\ Aside(ctq, ctq', r) /\ Aside(pttq, pttq', r)
          /\ Aside(pctq, pctq', r)
      BY <1>1, <1>2, <2>1, AsideFacts DEF ReqType, PeerType
    <3> QED
      BY <1>1, <1>3, <1>4, <2>1, <2>2, <3>1, Others
  <2>4. Sending(r)'
    BY <1>1, <1>5, <2>1 DEF About, Sending, Early, Failed
  <2>5. Telling(r)' /\ Answering(r)'
    BY <1>1, <1>5, <2>1 DEF About, Telling, Told, Answering
  <2>6. Timing(r)'
    BY <1>1, <1>5, <1>7, <2>1 DEF About, Timing
  <2>7. (Remembers => Serving(r) /\ Remembering(r))'
    <3>1. \A x \in Int : LastCopy(r, x) => LastCopy(r, x)'
      BY <1>1, <1>3, <1>7, <2>1 DEF LastCopy
    <3>2. Remembering(r) => Remembering(r)'
      BY <1>1, <1>2, <1>5, <2>3, <3>1, CopiesStay
    <3> QED
      BY <1>1, <1>5, <3>2 DEF About, Remembers, Serving
  <2>8. (Punctual => Single(r) /\ InTime(r) /\ Whole(r))'
    <3>1. Punctual' <=> Punctual
      BY <1>1 DEF Punctual, Prompt
    <3>2. ASSUME Punctual
          PROVE  Single(r)' /\ InTime(r)' /\ Whole(r)'
      <4>1. Single(r) /\ InTime(r) /\ Whole(r)
        BY <1>5, <3>2 DEF About
      <4>2. net' = net \ {d}
        BY <1>3, <1>4, <4>1 DEF Single
      <4> QED
        BY <1>1, <2>1, <4>1, <4>2 DEF Single, InTime, Whole, At, Told
    <3> QED
      BY <3>1, <3>2
  <2> QED
    BY <2>2, <2>3, <2>4, <2>5, <2>6, <2>7, <2>8, IInvParts DEF About
<1> QED
  BY <1>6, <1>7

\* The response window changes: what was answered in its last turn is deleted.
LEMMA OnRspWndIInv ==
    ASSUME IInv, OnRspWnd, UNCHANGED <<env, peerVars>>
    PROVE  IInv'
<1>1. /\ ctq # << >> /\ Head(ctq).type = "RspWnd" /\ ctq' = Tail(ctq)
      /\ crw' = Toggle(crw)
      /\ ro' = [r \in Reqs |-> IF r \in Old(Toggle(crw))
                                 THEN [ro[r] EXCEPT !.at = "deleted"] ELSE ro[r]]
      /\ UNCHANGED <<ttq, wnd, outcome, net, env, rcvd, pttq, pctq, pcrw, pwnd, serving, given>>
  BY DEF OnRspWnd, peerVars
<1>2. /\ NodeTypes /\ Windows /\ EnvType /\ NetType /\ ReqType /\ PeerType
      /\ \A q \in Reqs : About(q)
  BY IInvParts
<1>3. /\ ctq' \in Seq(Events) /\ Wnd \in Queued(ctq) /\ Wnd \notin Queued(ctq')
      /\ Once(ctq', Wnd)
      /\ \A u, s : u # "RspWnd" => (In(ctq', u, s) <=> In(ctq, u, s))
      /\ \A u, s : Once(ctq, Event(u, s)) => Once(ctq', Event(u, s))
  BY <1>1, <1>2, WindowTaken DEF ReqType, Windows
<1>4. crw \in 1 .. 2 /\ crw' \in 1 .. 2 /\ Toggle(crw) = crw' /\ crw' # crw
  BY <1>1, <1>2 DEF ReqType, Toggle
<1>5. ASSUME NEW r \in Reqs
      PROVE  /\ ro'[r] \in ReqOut /\ ro'[r].n1 = ro[r].n1 /\ ro'[r].t1 = ro[r].t1
             /\ ro'[r].rw = ro[r].rw /\ ro'[r].am = ro[r].am
             /\ r \in Old(Toggle(crw)) => ro'[r].at = "deleted"
             /\ r \notin Old(Toggle(crw)) => ro'[r] = ro[r]
  BY <1>1, <1>2 DEF ReqType, ReqOut
<1>6. ro' \in [Reqs -> ReqOut]
  BY <1>1, <1>5
<1>7. NodeTypes'
  BY <1>1, <1>2, <1>3, <1>4, <1>6, IInvParts
     DEF EnvType, NetType, ReqType, PeerType, Datagrams
<1>8. /\ Windows' /\ RspLeft(Toggle(crw)) = 0
      /\ \A w \in 1 .. 2 :
            /\ RspLeft(w)' >= RspLeft(w)
            /\ PeerLeft(w)' = PeerLeft(w) /\ PeerLeft(w)' >= PeerLeft(w)
  <2>1. wnd \in Nat /\ RspWait \in Nat /\ pwnd \in Nat /\ PeerRspWait \in Nat
    BY <1>2, Constants DEF ReqType, PeerType
  <2>2. RspLeft(Toggle(crw)) = 0
    BY <1>3, <1>4 DEF RspLeft, Left
  <2>3. \A w \in 1 .. 2 : RspLeft(w)' >= RspLeft(w)
    BY <1>1, <1>3, <1>4, <2>1 DEF RspLeft, Left
  <2>4. \A w \in 1 .. 2 : PeerLeft(w)' = PeerLeft(w) /\ PeerLeft(w)' >= PeerLeft(w)
    BY <1>1, <2>1 DEF PeerLeft, Left
  <2>5. Windows'
    BY <1>1, <1>2, <1>3 DEF Windows
  <2> QED
    BY <2>2, <2>3, <2>4, <2>5
<1>9. ASSUME NEW t \in EventTypes, NEW q \in Reqs
      PROVE  /\ In(ttq, t, q)' <=> In(ttq, t, q)
             /\ In(ctq, t, q)' <=> In(ctq, t, q)
             /\ In(pttq, t, q)' <=> In(pttq, t, q)
             /\ In(pctq, t, q)' <=> In(pctq, t, q)
             /\ Once(ttq, Event(t, q)) => Once(ttq, Event(t, q))'
             /\ Once(ctq, Event(t, q)) => Once(ctq, Event(t, q))'
             /\ Once(pttq, Event(t, q)) => Once(pttq, Event(t, q))'
             /\ Once(pctq, Event(t, q)) => Once(pctq, Event(t, q))'
  <2>1. t # "RspWnd"
    BY DEF EventTypes
  <2> QED
    BY <1>1, <1>3, <2>1
<1>10. ASSUME NEW r \in Reqs, r \notin Old(Toggle(crw))
       PROVE  About(r)'
  <2>1. /\ NodeTypes /\ NodeTypes' /\ About(r) /\ UNCHANGED env
        /\ ro'[r] = ro[r] /\ outcome'[r] = outcome[r] /\ given'[r] = given[r]
        /\ rcvd'[r] = rcvd[r] /\ serving'[r] = serving[r]
        /\ \A d : d.req = r => (d \in net' <=> d \in net)
    BY <1>1, <1>2, <1>5, <1>7, <1>10
  <2>2. /\ \A w \in 1 .. 2 : w = ro[r].rw => RspLeft(w)' >= RspLeft(w)
        /\ \A w \in 1 .. 2 : w = rcvd[r] => PeerLeft(w)' >= PeerLeft(w)
    BY <1>8
  <2> QED
    BY <1>9, <2>1, <2>2, OtherSame
<1>11. ASSUME NEW r \in Reqs, r \in Old(Toggle(crw))
       PROVE  About(r)'
  <2>1. About(r) /\ ro[r].at = "listed" /\ ro[r].rw = Toggle(crw) /\ ro'[r].at = "deleted"
    BY <1>2, <1>5, <1>11 DEF Old
  <2>2. ro[r].t1 = Off /\ ~In(ctq, "ReqTimeout", r)
    <3>1. LastT1(r, RspLeft(ro[r].rw))
      BY <1>4, <2>1 DEF About, Timing
    <3>2. LastT1(r, 0)
      BY <1>8, <2>1, <3>1
    <3>3. ro[r].n1 * T1 \in Nat /\ ro[r].t1 \in Int /\ ro[r].t1 >= -1 /\ Off = -1
      BY <1>2, ReqFields, Product
    <3> QED
      BY <3>2, <3>3 DEF LastT1
  <2>3. Sending(r)'
    BY <1>1, <1>3, <1>5, <2>1 DEF About, Sending, Early, Failed, Unknowing
  <2>4. Telling(r)' /\ Answering(r)'
    BY <1>1, <1>5, <2>1 DEF About, Telling, Told, Answering
  <2>5. Timing(r)'
    BY <1>3, <1>5, <2>1, <2>2 DEF About, Timing
  <2>6. (Remembers => Serving(r) /\ Remembering(r))'
    <3>1. \A x \in Int : LastCopy(r, x) => LastCopy(r, x)'
      BY <1>1, <2>1 DEF LastCopy
    <3>2. Remembering(r) => Remembering(r)'
      BY <1>1, <1>2, <1>8, <2>1, <3>1, CopiesStay DEF Early
    <3> QED
      BY <1>1, <2>1, <3>2 DEF About, Remembers, Serving
  <2>7. (Punctual => Single(r) /\ InTime(r) /\ Whole(r))'
    BY <1>1, <1>3, <1>5, <2>1 DEF About, Punctual, Prompt, Single, InTime, Whole, At, Told
  <2> QED
    BY <2>3, <2>4, <2>5, <2>6, <2>7 DEF About
<1> QED
  BY <1>7, <1>8, <1>10, <1>11, IInvParts

\* The timer of the response window expires.
LEMMA ExpireWndIInv ==
    ASSUME IInv, ExpireWnd, UNCHANGED <<env, peerVars>>
    PROVE  IInv'
<1>1. /\ wnd = 0 /\ wnd' = RspWait /\ ctq' = Append(ctq, Wnd)
      /\ UNCHANGED <<ro, ttq, crw, outcome, net, env, rcvd, pttq, pctq, pcrw, pwnd, serving,
                     given>>
  BY DEF ExpireWnd, peerVars, Wnd
<1>2. /\ NodeTypes /\ Windows /\ EnvType /\ NetType /\ ReqType /\ PeerType
      /\ \A q \in Reqs : About(q)
  BY IInvParts
<1>3. RspWait \in Nat \ {0} /\ Wnd \notin Queued(ctq) /\ Once(ctq, Wnd)
  BY <1>1, <1>2, Product DEF Windows
<1>4. /\ ctq' \in Seq(Events) /\ Wnd \in Queued(ctq') /\ Once(ctq', Wnd)
      /\ \A u, s : u # "RspWnd" => (In(ctq', u, s) <=> In(ctq, u, s))
      /\ \A u, s : u # "RspWnd" /\ Once(ctq, Event(u, s)) => Once(ctq', Event(u, s))
  BY <1>1, <1>2, <1>3, WindowPosted DEF ReqType
<1>5. NodeTypes'
  BY <1>1, <1>2, <1>3, <1>4, IInvParts DEF EnvType, NetType, ReqType, PeerType, Datagrams
<1>6. /\ Windows'
      /\ \A w \in 1 .. 2 : RspLeft(w)' >= RspLeft(w) /\ PeerLeft(w)' >= PeerLeft(w)
  <2>1. pwnd \in Nat /\ PeerRspWait \in Nat
    BY <1>2, Constants DEF PeerType
  <2>2. \A w \in 1 .. 2 : RspLeft(w)' >= RspLeft(w)
    BY <1>1, <1>3, <1>4 DEF RspLeft, Left
  <2>3. \A w \in 1 .. 2 : PeerLeft(w)' >= PeerLeft(w)
    BY <1>1, <2>1 DEF PeerLeft, Left
  <2> QED
    BY <1>1, <1>2, <1>3, <1>4, <2>2, <2>3 DEF Windows
<1>7. ASSUME NEW t \in EventTypes, NEW q \in Reqs
      PROVE  /\ In(ttq, t, q)' <=> In(ttq, t, q)
             /\ In(ctq, t, q)' <=> In(ctq, t, q)
             /\ In(pttq, t, q)' <=> In(pttq, t, q)
             /\ In(pctq, t, q)' <=> In(pctq, t, q)
             /\ Once(ttq, Event(t, q)) => Once(ttq, Event(t, q))'
             /\ Once(ctq, Event(t, q)) => Once(ctq, Event(t, q))'
             /\ Once(pttq, Event(t, q)) => Once(pttq, Event(t, q))'
             /\ Once(pctq, Event(t, q)) => Once(pctq, Event(t, q))'
  <2>1. t # "RspWnd"
    BY DEF EventTypes
  <2> QED
    BY <1>1, <1>4, <2>1
<1>8. ASSUME NEW r \in Reqs
      PROVE  About(r)'
  <2>1. /\ NodeTypes /\ NodeTypes' /\ About(r) /\ UNCHANGED env
        /\ ro'[r] = ro[r] /\ outcome'[r] = outcome[r] /\ given'[r] = given[r]
        /\ rcvd'[r] = rcvd[r] /\ serving'[r] = serving[r]
        /\ \A d : d.req = r => (d \in net' <=> d \in net)
    BY <1>1, <1>2, <1>5
  <2>2. /\ \A w \in 1 .. 2 : w = ro[r].rw => RspLeft(w)' >= RspLeft(w)
        /\ \A w \in 1 .. 2 : w = rcvd[r] => PeerLeft(w)' >= PeerLeft(w)
    BY <1>6
  <2> QED
    BY <1>7, <2>1, <2>2, OtherSame
<1> QED
  BY <1>5, <1>6, <1>8, IInvParts

-------------------------------------------------------------------------------
(* The steps of the node that answers. *)

\* A request arrives.
LEMMA OnReceiveReqIInv ==
    ASSUME IInv, NEW d \in net, OnReceiveReq(d), UNCHANGED <<env, reqVars>>
    PROVE  IInv'
<1>1. /\ d.kind = "req" /\ NetReceive(d)
      /\ UNCHANGED <<ro, ttq, ctq, crw, wnd, outcome, env, pctq, pcrw, pwnd, serving, given>>
  BY DEF OnReceiveReq, reqVars
<1>2. /\ NodeTypes /\ Windows /\ EnvType /\ NetType /\ ReqType /\ PeerType
      /\ \A q \in Reqs : About(q)
  BY IInvParts
<1>3. /\ NetType' /\ d.req \in Reqs
      /\ \A e : e.req # d.req => (e \in net' <=> e \in net)
      /\ \A e \in net' : \E c \in net :
            c.req = e.req /\ c.kind = e.kind /\ c.left = e.left
      /\ ~d.twice => net' = net \ {d}
  BY <1>1, <1>2, Received
<1>4. PICK r \in Reqs : r = d.req
  BY <1>3
<1>5. About(r) /\ ~Early(r) /\ ~Failed(r)
  BY <1>1, <1>2, <1>4 DEF About, Sending, Unknowing
<1>6. \A x \in Int : LastCopy(r, x) => LastCopy(r, x)'
  BY <1>1, <1>3 DEF LastCopy
<1>7. CASE rcvd[r] = Unknown
  <2>1. rcvd' = [rcvd EXCEPT ![r] = 0] /\ pttq' = Append(pttq, Event("RcvdReq", r))
    BY <1>4, <1>7, EventFacts DEF OnReceiveReq
  <2>2. Adds(pttq, pttq', "RcvdReq", r)
    BY <1>2, <2>1, Posted DEF PeerType, EventTypes
  <2>3. /\ rcvd' \in [Reqs -> Unknown .. 2] /\ rcvd'[r] = 0
        /\ \A q \in Reqs \ {r} : rcvd'[q] = rcvd[q]
    BY <1>2, <2>1 DEF PeerType, Unknown
  <2>4. NodeTypes'
    BY <1>1, <1>2, <1>3, <2>2, <2>3, IInvParts
       DEF EnvType, ReqType, PeerType, Adds, Differs
  <2>5. Windows' /\ \A q \in Reqs \ {r} : About(q)'
    <3>1. Aside(ttq, ttq', r) /\ Aside(ctq, ctq', r) /\ Aside(pttq, pttq', r)
          /\ Aside(pctq, pctq', r)
      BY <1>1, <1>2, <2>2, AsideFacts DEF Adds, ReqType, PeerType
    <3> QED
      BY <1>1, <1>3, <1>4, <2>3, <2>4, <3>1, Others
  <2>6. Sending(r)'
    BY <1>1, <1>5 DEF About, Sending, Early, Failed
  <2>7. Telling(r)' /\ Answering(r)'
    BY <1>1, <1>3, <1>5, <2>2 DEF About, Telling, Told, Answering, Adds, Differs
  <2>8. Timing(r)'
    BY <1>1, <1>5 DEF About, Timing, LastT1, RspLeft
  <2>9. (Remembers => Serving(r) /\ Remembering(r))'
    <3>1. Remembers' <=> Remembers
      BY <1>1 DEF Remembers
    <3>2. ASSUME Remembers
          PROVE  Serving(r)' /\ Remembering(r)'
      <4>1. Serving(r) /\ Remembering(r)
        BY <1>5, <3>2 DEF About
      <4>2. given[r] = << >>
        <5>1. ~(d.left < 0)
          BY <1>2, NetFields
        <5> QED
          BY <1>1, <1>4, <1>7, <4>1, <5>1 DEF Remembering, LastCopy
      <4>3. ~In(pttq, "RcvdReq", r) /\ ~In(pctq, "RcvdReqError", r)
        BY <1>7, <4>1 DEF Serving, Unknown
      <4>4. Serving(r)'
        BY <1>1, <2>2, <2>3, <4>1, <4>2, <4>3 DEF Serving, Adds
      <4>5. LastCopy(r, PeerRspWait)'
        BY <1>5, <1>6, <4>1, Constants DEF Remembering
      <4> QED
        BY <1>1, <4>2, <4>4, <4>5 DEF Remembering
    <3> QED
      BY <3>1, <3>2
  <2>10. (Punctual => Single(r) /\ InTime(r) /\ Whole(r))'
    <3>1. Punctual' <=> Punctual
      BY <1>1 DEF Punctual, Prompt
    <3>2. ASSUME Punctual
          PROVE  Single(r)' /\ InTime(r)' /\ Whole(r)'
      <4>1. Single(r) /\ InTime(r) /\ Whole(r)
        BY <1>5, <3>2 DEF About
      <4>2. net' = net \ {d} /\ At("net", r)
        BY <1>3, <1>4, <4>1 DEF Single, At
      <4>3. /\ \A e \in net' : e.req # r
            /\ ~At("decode", r) /\ ~At("served", r) /\ ~At("encode", r) /\ ~At("send", r)
        BY <1>4, <4>1, <4>2 DEF Single, Stages
      <4>4. ~At("net", r)' /\ ~At("served", r)' /\ ~At("encode", r)' /\ ~At("send", r)'
        BY <1>1, <2>2, <4>3 DEF At, Adds, Differs
      <4>5. env.service + env.transit < ro[r].t1
        <5>1. /\ d.left + (env.service + env.transit) < ro[r].t1
              /\ d.left \in Nat /\ env.transit \in Nat /\ env.service \in Nat
          BY <1>1, <1>2, <1>4, <4>1, NetFields DEF InTime
        <5>2. ro[r].t1 \in Int
          BY <1>2, ReqFields
        <5> QED
          BY <5>1, <5>2
      <4>6. InTime(r)'
        BY <1>1, <4>3, <4>4, <4>5 DEF InTime, At
      <4>7. Single(r)'
        BY <1>1, <2>2, <4>1, <4>3, <4>4 DEF Single, Stages, At, Adds, Differs
      <4>8. Whole(r)'
        BY <1>1, <4>1 DEF Whole, Told
      <4> QED
        BY <4>6, <4>7, <4>8
    <3> QED
      BY <3>1, <3>2
  <2> QED
    BY <2>4, <2>5, <2>6, <2>7, <2>8, <2>9, <2>10, IInvParts DEF About
<1>8. CASE rcvd[r] # Unknown
  <2>1. UNCHANGED <<rcvd, pttq>>
    BY <1>4, <1>8 DEF OnReceiveReq
  <2>2. NodeTypes'
    BY <1>1, <1>2, <1>3, <2>1, IInvParts DEF EnvType, ReqType, PeerType
  <2>3. /\ Windows' /\ \A q \in Reqs \ {r} : About(q)'
        /\ \A w \in 1 .. 2 : RspLeft(w)' = RspLeft(w) /\ PeerLeft(w)' = PeerLeft(w)
    <3>1. Aside(ttq, ttq', r) /\ Aside(ctq, ctq', r) /\ Aside(pttq, pttq', r)
          /\ Aside(pctq, pctq', r)
      BY <1>1, <1>2, <2>1, AsideFacts DEF ReqType, PeerType
    <3> QED
      BY <1>1, <1>3, <1>4, <2>1, <2>2, <3>1, Others
  <2>4. Sending(r)'
    BY <1>1, <1>5 DEF About, Sending, Early, Failed
  <2>5. Telling(r)' /\ Answering(r)'
    BY <1>1, <1>3, <1>5, <2>1 DEF About, Telling, Told, Answering
  <2>6. Timing(r)'
    BY <1>1, <1>5 DEF About, Timing, LastT1, RspLeft
  <2>7. (Remembers => Serving(r) /\ Remembering(r))'
    <3>1. Remembering(r) => Remembering(r)'
      BY <1>1, <1>2, <1>5, <1>6, <2>1, <2>3, CopiesStay
    <3> QED
      BY <1>1, <1>5, <2>1, <3>1 DEF About, Remembers, Serving
  <2>8. (Punctual => Single(r) /\ InTime(r) /\ Whole(r))'
    <3>1. Punctual' <=> Punctual
      BY <1>1 DEF Punctual, Prompt
    <3>2. ASSUME Punctual
          PROVE  Single(r)' /\ InTime(r)' /\ Whole(r)'
      <4>1. Single(r) /\ InTime(r) /\ Whole(r)
        BY <1>5, <3>2 DEF About
      <4>2. net' = net \ {d}
        BY <1>3, <1>4, <4>1 DEF Single
      <4> QED
        BY <1>1, <2>1, <4>1, <4>2 DEF Single, InTime, Whole, At, Told
    <3> QED
      BY <3>1, <3>2
  <2> QED
    BY <2>2, <2>3, <2>4, <2>5, <2>6, <2>7, <2>8, IInvParts DEF About
<1> QED
  BY <1>7, <1>8

\* TranslationThread gives a request to the application, refuses it, or cannot decode it.
LEMMA DecodeReqIInv ==
    ASSUME IInv, NEW r \in Reqs, DecodeReq(r), UNCHANGED <<env, reqVars>>
    PROVE  IInv'
<1>1. /\ pttq # << >> /\ Head(pttq) = Event("RcvdReq", r) /\ pttq' = Tail(pttq)
      /\ UNCHANGED <<ro, ttq, ctq, crw, wnd, outcome, env, rcvd, pcrw, pwnd, net>>
  BY EventFacts DEF DecodeReq, reqVars
<1>2. /\ NodeTypes /\ Windows /\ About(r) /\ EnvType /\ NetType /\ ReqType /\ PeerType
  BY IInvParts
<1>3. Takes(pttq, pttq', "RcvdReq", r)
  BY <1>1, <1>2, Taken DEF PeerType, EventTypes
<1>4. In(pttq, "RcvdReq", r) /\ ~Early(r) /\ ~Failed(r)
  BY <1>2, <1>3 DEF About, Sending, Unknowing, Takes
<1>5. Sending(r)'
  BY <1>1, <1>2, <1>4 DEF About, Sending, Early, Failed
<1>6. Telling(r)' /\ Timing(r)'
  BY <1>1, <1>2 DEF About, Telling, Told, Timing, LastT1, RspLeft
<1>7. /\ Remembers' <=> Remembers
      /\ Punctual' <=> Punctual
  BY <1>1 DEF Remembers, Punctual, Prompt
<1>8. ASSUME Remembers
      PROVE  /\ Serving(r) /\ rcvd[r] = 0 /\ given[r] = << >> /\ ~In(pttq', "RcvdReq", r)
             /\ ~In(pctq, "RcvdReqError", r)
             /\ LastCopy(r, PeerRspWait)'
  <2>1. Serving(r) /\ Remembering(r)
    BY <1>2, <1>8 DEF About
  <2>2. rcvd[r] = 0 /\ given[r] = << >> /\ ~In(pttq', "RcvdReq", r)
        /\ ~In(pctq, "RcvdReqError", r)
    BY <1>3, <1>4, <2>1 DEF Serving, Takes
  <2>3. LastCopy(r, PeerRspWait)
    BY <1>4, <2>1 DEF Remembering
  <2> QED
    BY <1>1, <2>1, <2>2, <2>3 DEF LastCopy
<1>9. ASSUME Punctual
      PROVE  /\ Single(r) /\ Whole(r)' /\ (\A d \in net : d.req # r)
             /\ ~In(pttq', "RcvdReq", r) /\ serving[r] = Idle
             /\ ~In(pttq', "SndMsg", r) /\ ~In(pctq, "SndRsp", r)
             /\ env.service + env.transit < ro[r].t1
  <2>1. Single(r) /\ InTime(r) /\ Whole(r) /\ At("decode", r)
    BY <1>2, <1>4, <1>9 DEF About, At
  <2>2. ~At("net", r) /\ ~At("served", r) /\ ~At("encode", r) /\ ~At("send", r)
    BY <2>1 DEF Single, Stages
  <2> QED
    BY <1>1, <1>3, <1>4, <2>1, <2>2 DEF Single, InTime, Whole, At, Told, Takes, Differs
\* It is given or refused.
<1>10. ASSUME NEW what \in {"given", "refused"},
              given' = [given EXCEPT ![r] = Append(@, what)]
       PROVE  /\ given' \in [Reqs -> Seq({"given", "refused"})]
              /\ given'[r] # << >> /\ (given[r] = << >> => Len(given'[r]) <= 1)
              /\ \A q \in Reqs \ {r} : given'[q] = given[q]
  <2> DEFINE g == given[r]
  <2>1. g \in Seq({"given", "refused"})
    BY <1>2 DEF PeerType
  <2>2. /\ Append(g, what) \in Seq({"given", "refused"}) /\ Append(g, what) # << >>
        /\ (g = << >> => Len(Append(g, what)) <= 1)
    BY <2>1
  <2> QED
    BY <1>2, <1>10, <2>2 DEF PeerType
<1>11. CASE /\ given' = [given EXCEPT ![r] = Append(@, "given")]
            /\ serving' = [serving EXCEPT ![r] = env.service] /\ UNCHANGED pctq
  <2>1. /\ given' \in [Reqs -> Seq({"given", "refused"})]
        /\ given'[r] # << >> /\ (given[r] = << >> => Len(given'[r]) <= 1)
        /\ \A q \in Reqs \ {r} : given'[q] = given[q]
    BY <1>10, <1>11
  <2>2. /\ serving' \in [Reqs -> Idle .. env.service] /\ serving'[r] = env.service
        /\ \A q \in Reqs \ {r} : serving'[q] = serving[q]
    BY <1>2, <1>11, Constants DEF PeerType, EnvType, Idle
  <2>3. NodeTypes'
    BY <1>1, <1>2, <1>3, <1>11, <2>1, <2>2, IInvParts
       DEF EnvType, NetType, ReqType, PeerType, Datagrams, Takes, Differs
  <2>4. Windows' /\ \A q \in Reqs \ {r} : About(q)'
    <3>1. Aside(ttq, ttq', r) /\ Aside(ctq, ctq', r) /\ Aside(pttq, pttq', r)
          /\ Aside(pctq, pctq', r)
      BY <1>1, <1>2, <1>3, <1>11, AsideFacts DEF Takes, ReqType, PeerType
    <3> QED
      BY <1>1, <2>1, <2>2, <2>3, <3>1, Others
  <2>5. Answering(r)'
    BY <2>1 DEF Answering
  <2>6. ASSUME Remembers PROVE Serving(r)' /\ Remembering(r)'
    <3>1. Serving(r)'
      BY <1>3, <1>8, <1>11, <2>1, <2>6 DEF Serving, Takes
    <3>2. Remembering(r)'
      BY <1>1, <1>8, <2>6 DEF Remembering, Unknown
    <3> QED
      BY <3>1, <3>2
  <2>7. ASSUME Punctual PROVE Single(r)' /\ InTime(r)' /\ Whole(r)'
    <3>1. /\ ~At("net", r)' /\ ~At("decode", r)' /\ ~At("encode", r)' /\ ~At("send", r)'
      BY <1>1, <1>9, <1>11, <2>7 DEF At
    <3>2. Single(r)'
      BY <1>1, <1>3, <1>9, <1>11, <2>7, <3>1 DEF Single, Stages, Takes, Differs
    <3>3. InTime(r)'
      BY <1>1, <1>9, <1>11, <2>2, <2>7 DEF InTime
    <3> QED
      BY <1>9, <2>7, <3>2, <3>3
  <2> QED
    BY <1>5, <1>6, <1>7, <2>3, <2>4, <2>5, <2>6, <2>7, IInvParts DEF About
<1>12. CASE /\ given' = [given EXCEPT ![r] = Append(@, "refused")]
            /\ pctq' = Append(pctq, PeerEvent("SndRsp", r)) /\ UNCHANGED serving
  <2>1. /\ given' \in [Reqs -> Seq({"given", "refused"})]
        /\ given'[r] # << >> /\ (given[r] = << >> => Len(given'[r]) <= 1)
        /\ \A q \in Reqs \ {r} : given'[q] = given[q]
    BY <1>10, <1>12
  <2>2. Adds(pctq, pctq', "SndRsp", r)
    BY <1>2, <1>12, Posted, EventFacts DEF PeerType, EventTypes
  <2>3. NodeTypes'
    BY <1>1, <1>2, <1>3, <1>12, <2>1, <2>2, IInvParts
       DEF EnvType, NetType, ReqType, PeerType, Datagrams, Takes, Adds, Differs
  <2>4. Windows' /\ \A q \in Reqs \ {r} : About(q)'
    <3>1. Aside(ttq, ttq', r) /\ Aside(ctq, ctq', r) /\ Aside(pttq, pttq', r)
          /\ Aside(pctq, pctq', r)
      BY <1>1, <1>2, <1>3, <2>2, AsideFacts DEF Takes, Adds, ReqType
    <3> QED
      BY <1>1, <1>12, <2>1, <2>3, <3>1, Others
  <2>5. Answering(r)'
    BY <2>1 DEF Answering
  <2>6. ASSUME Remembers PROVE Serving(r)' /\ Remembering(r)'
    <3>1. Serving(r)'
      BY <1>3, <1>8, <2>1, <2>2, <2>6 DEF Serving, Takes, Adds, Differs
    <3>2. Remembering(r)'
      BY <1>1, <1>8, <2>6 DEF Remembering, Unknown
    <3> QED
      BY <3>1, <3>2
  <2>7. ASSUME Punctual PROVE Single(r)' /\ InTime(r)' /\ Whole(r)'
    <3>1. /\ ~At("net", r)' /\ ~At("decode", r)' /\ ~At("encode", r)' /\ ~At("served", r)'
      BY <1>1, <1>9, <1>12, <2>7 DEF At
    <3>2. Single(r)'
      BY <1>1, <1>3, <1>9, <2>2, <2>7, <3>1 DEF Single, Stages, Takes, Adds, Differs
    <3>3. InTime(r)'
      <4>1. env.transit < ro[r].t1
        BY <1>2, <1>9, <2>7, Constants, ReqFields DEF EnvType
      <4> QED
        BY <1>1, <1>9, <1>12, <2>7, <4>1 DEF InTime
    <3> QED
      BY <1>9, <2>7, <3>2, <3>3
  <2> QED
    BY <1>5, <1>6, <1>7, <2>3, <2>4, <2>5, <2>6, <2>7, IInvParts DEF About
<1>13. CASE pctq' = Append(pctq, PeerEvent("RcvdReqError", r)) /\ UNCHANGED <<given, serving>>
  <2>1. Adds(pctq, pctq', "RcvdReqError", r)
    BY <1>2, <1>13, Posted, EventFacts DEF PeerType, EventTypes
  <2>2. NodeTypes'
    BY <1>1, <1>2, <1>3, <1>13, <2>1, IInvParts
       DEF EnvType, NetType, ReqType, PeerType, Datagrams, Takes, Adds, Differs
  <2>3. Windows' /\ \A q \in Reqs \ {r} : About(q)'
    <3>1. Aside(ttq, ttq', r) /\ Aside(ctq, ctq', r) /\ Aside(pttq, pttq', r)
          /\ Aside(pctq, pctq', r)
      BY <1>1, <1>2, <1>3, <2>1, AsideFacts DEF Takes, Adds, ReqType
    <3> QED
      BY <1>1, <1>13, <2>2, <3>1, Others
  <2>4. Answering(r)'
    BY <1>1, <1>2, <1>3, <1>13, <2>1 DEF About, Answering, Takes, Adds, Differs
  <2>5. ASSUME Remembers PROVE Serving(r)' /\ Remembering(r)'
    <3>1. Serving(r)'
      BY <1>1, <1>3, <1>8, <1>13, <2>1, <2>5 DEF Serving, Takes, Adds
    <3>2. Remembering(r)'
      BY <1>8, <1>13, <2>5 DEF Remembering
    <3> QED
      BY <3>1, <3>2
  <2>6. ASSUME Punctual PROVE Single(r)' /\ InTime(r)' /\ Whole(r)'
    <3>1. /\ ~At("net", r)' /\ ~At("decode", r)' /\ ~At("encode", r)' /\ ~At("served", r)'
          /\ ~At("send", r)'
      BY <1>1, <1>9, <1>13, <2>1, <2>6 DEF At, Adds, Differs
    <3>2. Single(r)'
      BY <1>1, <1>3, <1>9, <2>1, <2>6, <3>1 DEF Single, Stages, Takes, Adds, Differs
    <3>3. InTime(r)'
      BY <1>1, <1>9, <2>6, <3>1 DEF InTime, At
    <3> QED
      BY <1>9, <2>6, <3>2, <3>3
  <2> QED
    BY <1>5, <1>6, <1>7, <2>2, <2>3, <2>4, <2>5, <2>6, IInvParts DEF About
<1> QED
  BY <1>11, <1>12, <1>13 DEF DecodeReq

\* The application answers a request.
LEMMA AppAnswerIInv ==
    ASSUME IInv, NEW r \in Reqs, AppAnswer(r), UNCHANGED <<env, reqVars>>
    PROVE  IInv'
<1>1. /\ serving[r] # Idle /\ serving' = [serving EXCEPT ![r] = Idle]
      /\ pttq' = Append(pttq, Event("SndMsg", r))
      /\ UNCHANGED <<ro, ttq, ctq, crw, wnd, outcome, env, rcvd, pctq, pcrw, pwnd, given, net>>
  BY EventFacts DEF AppAnswer, reqVars
<1>2. /\ NodeTypes /\ Windows /\ About(r) /\ EnvType /\ NetType /\ ReqType /\ PeerType
  BY IInvParts
<1>3. Adds(pttq, pttq', "SndMsg", r)
  BY <1>1, <1>2, Posted DEF PeerType, EventTypes
<1>4. given[r] # << >> /\ ~Early(r) /\ ~Failed(r)
  BY <1>1, <1>2 DEF About, Answering, Sending, Unknowing
<1>5. /\ serving' \in [Reqs -> Idle .. env.service] /\ serving'[r] = Idle
      /\ \A q \in Reqs \ {r} : serving'[q] = serving[q]
  BY <1>1, <1>2, Constants DEF PeerType, EnvType, Idle
<1>6. NodeTypes'
  BY <1>1, <1>2, <1>3, <1>5, IInvParts
     DEF EnvType, NetType, ReqType, PeerType, Datagrams, Adds, Differs
<1>7. /\ Windows' /\ \A q \in Reqs \ {r} : About(q)'
      /\ \A w \in 1 .. 2 : RspLeft(w)' = RspLeft(w) /\ PeerLeft(w)' = PeerLeft(w)
  <2>1. Aside(ttq, ttq', r) /\ Aside(ctq, ctq', r) /\ Aside(pttq, pttq', r)
        /\ Aside(pctq, pctq', r)
    BY <1>1, <1>2, <1>3, AsideFacts DEF Adds, ReqType, PeerType
  <2> QED
    BY <1>1, <1>5, <1>6, <2>1, Others
<1>8. Sending(r)' /\ Answering(r)'
  BY <1>1, <1>2, <1>4 DEF About, Sending, Early, Failed, Answering
<1>9. Telling(r)' /\ Timing(r)'
  BY <1>1, <1>2 DEF About, Telling, Told, Timing, LastT1, RspLeft
<1>10. (Remembers => Serving(r) /\ Remembering(r))'
  <2>1. \A x \in Int : LastCopy(r, x) => LastCopy(r, x)'
    BY <1>1 DEF LastCopy
  <2>2. Remembering(r) => Remembering(r)'
    BY <1>1, <1>2, <1>7, <2>1, CopiesStay DEF Early
  <2> QED
    BY <1>1, <1>2, <1>3, <2>2 DEF About, Remembers, Serving, Adds, Differs
<1>11. (Punctual => Single(r) /\ InTime(r) /\ Whole(r))'
  <2>1. Punctual' <=> Punctual
    BY <1>1 DEF Punctual, Prompt
  <2>2. ASSUME Punctual PROVE Single(r)' /\ InTime(r)' /\ Whole(r)'
    <3>1. Single(r) /\ InTime(r) /\ Whole(r) /\ At("served", r)
      BY <1>1, <1>2, <2>2 DEF About, At
    <3>2. ~At("net", r) /\ ~At("decode", r) /\ ~At("encode", r) /\ ~At("send", r)
      BY <3>1 DEF Single, Stages
    <3>3. ~At("net", r)' /\ ~At("decode", r)' /\ ~At("served", r)' /\ ~At("send", r)'
      BY <1>1, <1>3, <1>5, <3>2 DEF At, Adds, Differs
    <3>4. Single(r)'
      BY <1>1, <1>3, <3>1, <3>2, <3>3 DEF Single, Stages, At, Adds, Differs
    <3>5. env.transit < ro[r].t1
      <4>1. serving[r] + env.transit < ro[r].t1 /\ serving[r] >= 0
        BY <1>1, <1>2, <3>1, Constants DEF InTime, PeerType, Idle, EnvType
      <4>2. serving[r] \in Int /\ env.transit \in Int /\ ro[r].t1 \in Int
        BY <1>2, Constants, ReqFields DEF PeerType, EnvType, Idle
      <4> QED
        BY <4>1, <4>2
    <3>6. InTime(r)'
      BY <1>1, <3>3, <3>5 DEF InTime, At
    <3>7. Whole(r)'
      BY <1>1, <3>1 DEF Whole, Told
    <3> QED
      BY <3>4, <3>6, <3>7
  <2> QED
    BY <2>1, <2>2
<1> QED
  BY <1>6, <1>7, <1>8, <1>9, <1>10, <1>11, IInvParts DEF About

\* TranslationThread encodes the response, or cannot.
LEMMA EncodeRspIInv ==
    ASSUME IInv, NEW r \in Reqs, EncodeRsp(r), UNCHANGED <<env, reqVars>>
    PROVE  IInv'
<1>1. /\ pttq # << >> /\ Head(pttq) = Event("SndMsg", r) /\ pttq' = Tail(pttq)
      /\ pctq' = Append(pctq, Event("SndRsp", r)) \/ pctq' = pctq
      /\ UNCHANGED <<ro, ttq, ctq, crw, wnd, outcome, env, rcvd, pcrw, pwnd, serving, given, net>>
  BY EventFacts DEF EncodeRsp, reqVars
<1>2. /\ NodeTypes /\ Windows /\ About(r) /\ EnvType /\ NetType /\ ReqType /\ PeerType
  BY IInvParts
<1>3. Takes(pttq, pttq', "SndMsg", r)
  BY <1>1, <1>2, Taken DEF PeerType, EventTypes
<1>4. Adds(pctq, pctq', "SndRsp", r) \/ pctq' = pctq
  BY <1>1, <1>2, Posted DEF PeerType, EventTypes
<1>5. given[r] # << >> /\ ~Early(r) /\ ~Failed(r)
  BY <1>2, <1>3 DEF About, Answering, Sending, Unknowing, Takes
<1>6. NodeTypes'
  <2>1. pctq' \in Seq(Events)
    BY <1>2, <1>4 DEF Adds, Differs, PeerType
  <2> QED
    BY <1>1, <1>2, <1>3, <2>1, IInvParts
       DEF EnvType, NetType, ReqType, PeerType, Datagrams, Takes, Differs
<1>7. /\ Windows' /\ \A q \in Reqs \ {r} : About(q)'
      /\ \A w \in 1 .. 2 : RspLeft(w)' = RspLeft(w) /\ PeerLeft(w)' = PeerLeft(w)
  <2>1. Aside(ttq, ttq', r) /\ Aside(ctq, ctq', r) /\ Aside(pttq, pttq', r)
        /\ Aside(pctq, pctq', r)
    BY <1>1, <1>2, <1>3, <1>4, AsideFacts DEF Adds, Takes, ReqType, PeerType
  <2> QED
    BY <1>1, <1>6, <2>1, Others
<1>8. Sending(r)' /\ Answering(r)'
  BY <1>1, <1>2, <1>5 DEF About, Sending, Early, Failed, Answering
<1>9. Telling(r)' /\ Timing(r)'
  BY <1>1, <1>2 DEF About, Telling, Told, Timing, LastT1, RspLeft
<1>10. (Remembers => Serving(r) /\ Remembering(r))'
  <2>1. \A x \in Int : LastCopy(r, x) => LastCopy(r, x)'
    BY <1>1 DEF LastCopy
  <2>2. Remembering(r) => Remembering(r)'
    BY <1>1, <1>2, <1>7, <2>1, CopiesStay DEF Early
  <2> QED
    BY <1>1, <1>2, <1>3, <1>4, <2>2 DEF About, Remembers, Serving, Takes, Adds, Differs
<1>11. (Punctual => Single(r) /\ InTime(r) /\ Whole(r))'
  <2>1. Punctual' <=> Punctual
    BY <1>1 DEF Punctual, Prompt
  <2>2. ASSUME Punctual PROVE Single(r)' /\ InTime(r)' /\ Whole(r)'
    <3>1. Single(r) /\ InTime(r) /\ Whole(r) /\ At("encode", r) /\ ~In(pttq', "SndMsg", r)
      BY <1>2, <1>3, <2>2 DEF About, At, Single, Takes
    <3>2. ~At("net", r) /\ ~At("decode", r) /\ ~At("served", r) /\ ~At("send", r)
      BY <3>1 DEF Single, Stages
    <3>3. ~At("net", r)' /\ ~At("decode", r)' /\ ~At("served", r)' /\ ~At("encode", r)'
      BY <1>1, <1>3, <3>1, <3>2 DEF At, Takes, Differs
    <3>4. Once(pctq, Event("SndRsp", r))'
      BY <1>4, <3>1, <3>2 DEF Single, At, Adds
    <3>5. Single(r)'
      BY <1>1, <1>3, <3>1, <3>2, <3>3, <3>4 DEF Single, Stages, Takes, Differs
    <3>6. env.transit < ro[r].t1
      BY <3>1 DEF InTime, At
    <3>7. InTime(r)'
      BY <1>1, <3>2, <3>3, <3>6 DEF InTime, At
    <3>8. Whole(r)'
      BY <1>1, <3>1 DEF Whole, Told
    <3> QED
      BY <3>5, <3>7, <3>8
  <2> QED
    BY <2>1, <2>2
<1> QED
  BY <1>6, <1>7, <1>8, <1>9, <1>10, <1>11, IInvParts DEF About

\* The response is sent, and the request remembered from then on for the response time.
LEMMA SndRspIInv ==
    ASSUME IInv, NEW r \in Reqs, SndRsp(r), UNCHANGED <<env, reqVars>>
    PROVE  IInv'
<1>1. /\ pctq # << >> /\ Head(pctq) = Event("SndRsp", r) /\ pctq' = Tail(pctq)
      /\ UNCHANGED <<ro, ttq, ctq, crw, wnd, outcome, env, pttq, pcrw, pwnd, serving, given>>
  BY EventFacts DEF SndRsp, reqVars
<1>2. /\ NodeTypes /\ Windows /\ About(r) /\ EnvType /\ NetType /\ ReqType /\ PeerType
  BY IInvParts
<1>3. Takes(pctq, pctq', "SndRsp", r)
  BY <1>1, <1>2, Taken DEF PeerType, EventTypes
<1>4. given[r] # << >> /\ ~Early(r) /\ ~Failed(r) /\ In(pctq, "SndRsp", r)
  BY <1>2, <1>3 DEF About, Answering, Sending, Unknowing, Takes
<1> DEFINE m == [kind |-> "rsp", req |-> r, left |-> env.transit, twice |-> env.duplicates]
<1>5. m \in Datagrams /\ m.kind = "rsp" /\ m.req = r /\ m.left = env.transit
      /\ m.twice = env.duplicates
  BY <1>2, Constants DEF Datagrams, EnvType
<1>6. \/ rcvd[r] # Unknown /\ rcvd' = [rcvd EXCEPT ![r] = pcrw] /\ net' = net \cup {m}
      \/ rcvd[r] = Unknown /\ rcvd' = rcvd /\ net' = net
  BY DEF SndRsp, NetSend
<1> HIDE DEF m
<1>7. /\ rcvd' \in [Reqs -> Unknown .. 2] /\ rcvd'[r] \in {rcvd[r], pcrw}
      /\ \A q \in Reqs \ {r} : rcvd'[q] = rcvd[q]
      /\ rcvd[r] # Unknown => rcvd'[r] = pcrw
      /\ rcvd[r] = Unknown => rcvd'[r] = Unknown
      /\ net' \in {net, net \cup {m}}
  <2>1. pcrw \in Unknown .. 2 /\ rcvd \in [Reqs -> Unknown .. 2]
    BY <1>2 DEF PeerType, Unknown
  <2>2. CASE rcvd[r] # Unknown /\ rcvd' = [rcvd EXCEPT ![r] = pcrw] /\ net' = net \cup {m}
    BY <2>1, <2>2
  <2>3. CASE rcvd[r] = Unknown /\ rcvd' = rcvd /\ net' = net
    BY <2>1, <2>3
  <2> QED
    BY <1>6, <2>2, <2>3
<1>8. NodeTypes'
  <2>1. NetType'
    BY <1>1, <1>2, <1>5, <1>7 DEF NetType, Datagrams
  <2> QED
    BY <1>1, <1>2, <1>3, <1>7, <2>1, IInvParts
       DEF EnvType, ReqType, PeerType, Takes, Differs
<1>9. /\ Windows' /\ \A q \in Reqs \ {r} : About(q)'
      /\ \A w \in 1 .. 2 : RspLeft(w)' = RspLeft(w) /\ PeerLeft(w)' = PeerLeft(w)
  <2>1. Aside(ttq, ttq', r) /\ Aside(ctq, ctq', r) /\ Aside(pttq, pttq', r)
        /\ Aside(pctq, pctq', r)
    BY <1>1, <1>2, <1>3, AsideFacts DEF Takes, ReqType, PeerType
  <2>2. \A d : d.req # r => (d \in net' <=> d \in net)
    BY <1>5, <1>7
  <2> QED
    BY <1>1, <1>7, <1>8, <2>1, <2>2, Others
<1>10. Sending(r)' /\ Answering(r)'
  BY <1>1, <1>2, <1>4 DEF About, Sending, Early, Failed, Answering
<1>11. Telling(r)' /\ Timing(r)'
  BY <1>1, <1>2 DEF About, Telling, Told, Timing, LastT1, RspLeft
<1>12. (Remembers => Serving(r) /\ Remembering(r))'
  <2>1. Remembers' <=> Remembers
    BY <1>1 DEF Remembers
  <2>2. ASSUME NEW x \in Int, NEW y \in Int, x <= y, LastCopy(r, x) PROVE LastCopy(r, y)'
    <3>1. /\ ro[r].n1 \in Nat /\ ro[r].t1 \in Int /\ env.transit \in Nat
          /\ (ro[r].n1 >= 1 => (ro[r].n1 - 1) * T1 \in Nat)
      <4>1. ro[r].n1 \in Nat /\ (ro[r].n1 >= 1 => ro[r].n1 - 1 \in Nat) /\ ro[r].t1 \in Int
        BY <1>2, ReqFields
      <4> QED
        BY <1>2, <4>1, Product, Constants DEF EnvType
    <3>2. \A d \in net' : d.kind = "req" => d \in net
      BY <1>5, <1>7
    <3>3. \A d \in net' : d.kind = "req" /\ d.req = r => d.left < y
      <4>1. \A d \in net : d.kind = "req" /\ d.req = r => d.left < x /\ d.left \in Int
        BY <1>2, <2>2, NetFields DEF LastCopy
      <4> QED
        BY <2>2, <3>2, <4>1
    <3>4. ro[r].at = "listed" /\ ro[r].n1 >= 1 =>
            /\ ro[r].t1 # Off => ro[r].t1 + (ro[r].n1 - 1) * T1 + env.transit < y
            /\ In(ctq, "ReqTimeout", r) => (ro[r].n1 - 1) * T1 + env.transit < y
      BY <2>2, <3>1 DEF LastCopy
    <3> QED
      BY <1>1, <3>3, <3>4 DEF LastCopy
  <2>3. ASSUME Remembers PROVE Serving(r)' /\ Remembering(r)'
    <3>1. Serving(r) /\ Remembering(r)
      BY <1>2, <2>3 DEF About
    <3>2. Serving(r)'
      BY <1>1, <1>3, <1>4, <3>1 DEF Serving, Takes, Differs
    <3>3. LastCopy(r, PeerRspWait)
      BY <1>4, <3>1 DEF Remembering
    <3>4. PeerRspWait \in Int /\ PeerRspWait <= PeerRspWait /\ 0 \in Int /\ 0 <= 0
      BY Constants
    <3>5. LastCopy(r, PeerRspWait)'
      BY <2>2, <3>3, <3>4
    <3>6. rcvd'[r] = Unknown => LastCopy(r, 0)'
      <4>1. rcvd'[r] = Unknown => rcvd[r] = Unknown
        BY <1>2, <1>7 DEF PeerType, Unknown
      <4> QED
        BY <1>4, <2>2, <3>1, <3>4, <4>1 DEF Remembering
    <3>7. rcvd'[r] > 0 => LastCopy(r, PeerLeft(rcvd[r]))'
      <4>1. rcvd'[r] > 0 => rcvd'[r] = pcrw
        BY <1>2, <1>7 DEF PeerType, Unknown
      <4>2. PeerLeft(pcrw) >= PeerRspWait /\ PeerLeft(pcrw) \in Int
        BY <1>2, Constants DEF Windows, PeerLeft, Left, PeerType
      <4>3. LastCopy(r, PeerLeft(pcrw))'
        <5>1. PICK w \in 1 .. 2 : w = pcrw
          BY <1>2 DEF PeerType
        <5>2. PICK y \in Int : y = PeerLeft(w)
          BY <4>2, <5>1
        <5>3. LastCopy(r, y)'
          BY <2>2, <3>3, <3>4, <4>2, <5>1, <5>2
        <5>4. PeerLeft(pcrw)' = y
          BY <1>1, <1>9, <5>1, <5>2
        <5> QED
          BY <5>3, <5>4
      <4>4. pcrw' = pcrw
        BY <1>1
      <4> QED
        BY <4>1, <4>3, <4>4
    <3> QED
      BY <3>2, <3>5, <3>6, <3>7 DEF Remembering
  <2> QED
    BY <2>1, <2>3
<1>13. (Punctual => Single(r) /\ InTime(r) /\ Whole(r))'
  <2>1. Punctual' <=> Punctual
    BY <1>1 DEF Punctual, Prompt
  <2>2. ASSUME Punctual PROVE Single(r)' /\ InTime(r)' /\ Whole(r)'
    <3>1. Single(r) /\ InTime(r) /\ Whole(r) /\ At("send", r) /\ ~In(pctq', "SndRsp", r)
      BY <1>2, <1>3, <1>4, <2>2 DEF About, At, Single, Takes
    <3>2. ~At("net", r) /\ ~At("decode", r) /\ ~At("served", r) /\ ~At("encode", r)
      BY <3>1 DEF Single, Stages
    <3>3. ~At("send", r)' /\ ~At("decode", r)' /\ ~At("served", r)' /\ ~At("encode", r)'
      BY <1>1, <3>1, <3>2 DEF At
    <3>4. \A d \in net' : d.req = r => d = m
      BY <1>7, <3>2 DEF At
    <3>5. ~env.duplicates
      BY <2>2 DEF Punctual
    <3>6. Once(pctq, Event("SndRsp", r))'
      BY <1>3, <3>1 DEF Single, Takes
    <3>7. Single(r)'
      BY <1>1, <1>5, <3>1, <3>3, <3>4, <3>5, <3>6 DEF Single, Stages
    <3>8. env.transit < ro[r].t1 /\ env.transit + 0 = env.transit
      BY <1>2, <1>4, <3>1, Constants DEF InTime, EnvType
    <3>9. InTime(r)'
      BY <1>1, <1>5, <3>3, <3>4, <3>8 DEF InTime, At
    <3>10. Whole(r)'
      BY <1>1, <3>1 DEF Whole, Told
    <3> QED
      BY <3>7, <3>9, <3>10
  <2> QED
    BY <2>1, <2>2
<1> QED
  BY <1>8, <1>9, <1>10, <1>11, <1>12, <1>13, IInvParts DEF About

\* A request that could not be decoded is forgotten.
LEMMA OnRcvdReqErrorIInv ==
    ASSUME IInv, NEW r \in Reqs, OnRcvdReqError(r), UNCHANGED <<env, reqVars>>
    PROVE  IInv'
<1>1. /\ pctq # << >> /\ Head(pctq) = Event("RcvdReqError", r) /\ pctq' = Tail(pctq)
      /\ rcvd' = [rcvd EXCEPT ![r] = Unknown]
      /\ UNCHANGED <<ro, ttq, ctq, crw, wnd, outcome, env, pttq, pcrw, pwnd, serving, given, net>>
  BY EventFacts DEF OnRcvdReqError, reqVars
<1>2. /\ NodeTypes /\ Windows /\ About(r) /\ EnvType /\ NetType /\ ReqType /\ PeerType
  BY IInvParts
<1>3. Takes(pctq, pctq', "RcvdReqError", r)
  BY <1>1, <1>2, Taken DEF PeerType, EventTypes
<1>4. /\ rcvd' \in [Reqs -> Unknown .. 2] /\ rcvd'[r] = Unknown
      /\ \A q \in Reqs \ {r} : rcvd'[q] = rcvd[q]
  BY <1>1, <1>2 DEF PeerType, Unknown
<1>5. NodeTypes'
  BY <1>1, <1>2, <1>3, <1>4, IInvParts
     DEF EnvType, NetType, ReqType, PeerType, Datagrams, Takes, Differs
<1>6. Windows' /\ \A q \in Reqs \ {r} : About(q)'
  <2>1. Aside(ttq, ttq', r) /\ Aside(ctq, ctq', r) /\ Aside(pttq, pttq', r)
        /\ Aside(pctq, pctq', r)
    BY <1>1, <1>2, <1>3, AsideFacts DEF Takes, ReqType, PeerType
  <2> QED
    BY <1>1, <1>4, <1>5, <2>1, Others
<1>7. Sending(r)' /\ Telling(r)' /\ Timing(r)'
  BY <1>1, <1>2
     DEF About, Sending, Early, Failed, Unknowing, Telling, Told, Timing, LastT1, RspLeft
<1>8. Answering(r)'
  BY <1>1, <1>2, <1>3 DEF About, Answering, Takes, Differs
<1>9. (Remembers => Serving(r) /\ Remembering(r))'
  <2>1. Remembers' <=> Remembers
    BY <1>1 DEF Remembers
  <2>2. ASSUME Remembers PROVE Serving(r)' /\ Remembering(r)'
    <3>1. Serving(r) /\ Remembering(r) /\ In(pctq, "RcvdReqError", r)
      BY <1>2, <1>3, <2>2 DEF About, Takes
    <3>2. given[r] = << >> /\ ~In(pttq, "RcvdReq", r) /\ ~In(pctq', "RcvdReqError", r)
      BY <1>3, <3>1 DEF Serving, Takes
    <3>3. Serving(r)'
      BY <1>1, <1>3, <3>1, <3>2 DEF Serving, Takes
    <3>4. Remembering(r)'
      BY <1>1, <3>1, <3>2 DEF Remembering, Early, LastCopy
    <3> QED
      BY <3>3, <3>4
  <2> QED
    BY <2>1, <2>2
<1>10. (Punctual => Single(r) /\ InTime(r) /\ Whole(r))'
  BY <1>1, <1>2, <1>3
     DEF About, Punctual, Prompt, Single, At, InTime, Whole, Told, Takes, Differs
<1> QED
  BY <1>5, <1>6, <1>7, <1>8, <1>9, <1>10, IInvParts DEF About

\* The response window of the peer changes: what was answered in its last turn is forgotten.
LEMMA OnPeerRspWndIInv ==
    ASSUME IInv, OnPeerRspWnd, UNCHANGED <<env, reqVars>>
    PROVE  IInv'
<1>1. /\ pctq # << >> /\ Head(pctq).type = "RspWnd" /\ pctq' = Tail(pctq)
      /\ pcrw' = PeerToggle(pcrw)
      /\ rcvd' = [r \in Reqs |-> IF rcvd[r] = PeerToggle(pcrw) THEN Unknown ELSE rcvd[r]]
      /\ UNCHANGED <<ro, ttq, ctq, crw, wnd, outcome, env, pttq, pwnd, serving, given, net>>
  BY DEF OnPeerRspWnd, reqVars
<1>2. /\ NodeTypes /\ Windows /\ EnvType /\ NetType /\ ReqType /\ PeerType
      /\ \A q \in Reqs : About(q)
  BY IInvParts
<1>3. /\ pctq' \in Seq(Events) /\ Wnd \in Queued(pctq) /\ Wnd \notin Queued(pctq')
      /\ Once(pctq', Wnd)
      /\ \A u, s : u # "RspWnd" => (In(pctq', u, s) <=> In(pctq, u, s))
      /\ \A u, s : Once(pctq, Event(u, s)) => Once(pctq', Event(u, s))
  BY <1>1, <1>2, WindowTaken DEF PeerType, Windows
<1>4. pcrw \in 1 .. 2 /\ pcrw' \in 1 .. 2 /\ PeerToggle(pcrw) = pcrw' /\ pcrw' # pcrw
  BY <1>1, <1>2 DEF PeerType, PeerToggle
<1>5. /\ rcvd' \in [Reqs -> Unknown .. 2]
      /\ \A r \in Reqs : /\ rcvd[r] = pcrw' => rcvd'[r] = Unknown
                         /\ rcvd[r] # pcrw' => rcvd'[r] = rcvd[r]
  BY <1>1, <1>2, <1>4 DEF PeerType, Unknown
<1>6. NodeTypes'
  BY <1>1, <1>2, <1>3, <1>4, <1>5, IInvParts
     DEF EnvType, NetType, ReqType, PeerType, Datagrams
<1>7. /\ Windows' /\ PeerLeft(PeerToggle(pcrw)) = 0
      /\ \A w \in 1 .. 2 : RspLeft(w)' >= RspLeft(w) /\ PeerLeft(w)' >= PeerLeft(w)
  <2>1. wnd \in Nat /\ RspWait \in Nat /\ pwnd \in Nat /\ PeerRspWait \in Nat
    BY <1>2, Constants DEF ReqType, PeerType
  <2>2. PeerLeft(PeerToggle(pcrw)) = 0
    BY <1>3, <1>4 DEF PeerLeft, Left
  <2>3. \A w \in 1 .. 2 : PeerLeft(w)' >= PeerLeft(w)
    BY <1>1, <1>3, <1>4, <2>1 DEF PeerLeft, Left
  <2>4. \A w \in 1 .. 2 : RspLeft(w)' >= RspLeft(w)
    BY <1>1, <2>1 DEF RspLeft, Left
  <2>5. Windows'
    BY <1>1, <1>2, <1>3 DEF Windows
  <2> QED
    BY <2>2, <2>3, <2>4, <2>5
<1>8. ASSUME NEW t \in EventTypes, NEW q \in Reqs
      PROVE  /\ In(ttq, t, q)' <=> In(ttq, t, q)
             /\ In(ctq, t, q)' <=> In(ctq, t, q)
             /\ In(pttq, t, q)' <=> In(pttq, t, q)
             /\ In(pctq, t, q)' <=> In(pctq, t, q)
             /\ Once(ttq, Event(t, q)) => Once(ttq, Event(t, q))'
             /\ Once(ctq, Event(t, q)) => Once(ctq, Event(t, q))'
             /\ Once(pttq, Event(t, q)) => Once(pttq, Event(t, q))'
             /\ Once(pctq, Event(t, q)) => Once(pctq, Event(t, q))'
  <2>1. t # "RspWnd"
    BY DEF EventTypes
  <2> QED
    BY <1>1, <1>3, <2>1
<1>9. ASSUME NEW r \in Reqs, rcvd[r] # pcrw'
      PROVE  About(r)'
  <2>1. /\ NodeTypes /\ NodeTypes' /\ About(r) /\ UNCHANGED env
        /\ ro'[r] = ro[r] /\ outcome'[r] = outcome[r] /\ given'[r] = given[r]
        /\ rcvd'[r] = rcvd[r] /\ serving'[r] = serving[r]
        /\ \A d : d.req = r => (d \in net' <=> d \in net)
    BY <1>1, <1>2, <1>5, <1>6, <1>9
  <2>2. /\ \A w \in 1 .. 2 : w = ro[r].rw => RspLeft(w)' >= RspLeft(w)
        /\ \A w \in 1 .. 2 : w = rcvd[r] => PeerLeft(w)' >= PeerLeft(w)
    BY <1>7
  <2> QED
    BY <1>8, <2>1, <2>2, OtherSame
<1>10. ASSUME NEW r \in Reqs, rcvd[r] = pcrw'
       PROVE  About(r)'
  <2>1. About(r) /\ rcvd'[r] = Unknown /\ rcvd[r] > 0 /\ rcvd[r] = PeerToggle(pcrw)
    BY <1>2, <1>4, <1>5, <1>10
  <2>2. Sending(r)' /\ Telling(r)' /\ Timing(r)'
    BY <1>1, <2>1
       DEF About, Sending, Early, Failed, Unknowing, Telling, Told, Timing, LastT1, RspLeft
  <2>3. Answering(r)'
    BY <1>1, <1>3, <2>1 DEF About, Answering
  <2>4. (Remembers => Serving(r) /\ Remembering(r))'
    <3>1. Remembers' <=> Remembers
      BY <1>1 DEF Remembers
    <3>2. ASSUME Remembers PROVE Serving(r)' /\ Remembering(r)'
      <4>1. Serving(r) /\ Remembering(r)
        BY <2>1, <3>2 DEF About
      <4>2. Serving(r)'
        BY <1>1, <1>3, <2>1, <4>1 DEF Serving
      <4>3. given[r] # << >> => LastCopy(r, 0)
        BY <1>7, <2>1, <4>1 DEF Remembering
      <4>4. \A x \in Int : LastCopy(r, x) => LastCopy(r, x)'
        BY <1>1, <1>3 DEF LastCopy
      <4>5. ~Early(r)' => LastCopy(r, PeerRspWait)'
        BY <1>1, <4>1, <4>4, Constants DEF Remembering, Early
      <4>6. Remembering(r)'
        BY <1>1, <2>1, <4>3, <4>4, <4>5 DEF Remembering, Unknown
      <4> QED
        BY <4>2, <4>6
    <3> QED
      BY <3>1, <3>2
  <2>5. (Punctual => Single(r) /\ InTime(r) /\ Whole(r))'
    BY <1>1, <1>3, <2>1 DEF About, Punctual, Prompt, Single, InTime, Whole, At, Told
  <2> QED
    BY <2>2, <2>3, <2>4, <2>5 DEF About
<1> QED
  BY <1>6, <1>7, <1>9, <1>10, IInvParts

\* The timer of the peer's response window expires.
LEMMA ExpirePeerWndIInv ==
    ASSUME IInv, ExpirePeerWnd, UNCHANGED <<env, reqVars>>
    PROVE  IInv'
<1>1. /\ pwnd = 0 /\ pwnd' = PeerRspWait /\ pctq' = Append(pctq, Wnd)
      /\ UNCHANGED <<ro, ttq, ctq, crw, wnd, outcome, net, env, rcvd, pttq, pcrw, serving,
                     given>>
  BY DEF ExpirePeerWnd, reqVars, Wnd
<1>2. /\ NodeTypes /\ Windows /\ EnvType /\ NetType /\ ReqType /\ PeerType
      /\ \A q \in Reqs : About(q)
  BY IInvParts
<1>3. PeerRspWait \in Nat \ {0} /\ Wnd \notin Queued(pctq) /\ Once(pctq, Wnd)
  BY <1>1, <1>2, Constants DEF Windows
<1>4. /\ pctq' \in Seq(Events) /\ Wnd \in Queued(pctq') /\ Once(pctq', Wnd)
      /\ \A u, s : u # "RspWnd" => (In(pctq', u, s) <=> In(pctq, u, s))
      /\ \A u, s : u # "RspWnd" /\ Once(pctq, Event(u, s)) => Once(pctq', Event(u, s))
  BY <1>1, <1>2, <1>3, WindowPosted DEF PeerType
<1>5. NodeTypes'
  BY <1>1, <1>2, <1>3, <1>4, IInvParts DEF EnvType, NetType, ReqType, PeerType, Datagrams
<1>6. /\ Windows'
      /\ \A w \in 1 .. 2 : RspLeft(w)' >= RspLeft(w) /\ PeerLeft(w)' >= PeerLeft(w)
  <2>1. wnd \in Nat /\ RspWait \in Nat
    BY <1>2, Constants DEF ReqType
  <2>2. \A w \in 1 .. 2 : RspLeft(w)' >= RspLeft(w)
    BY <1>1, <2>1 DEF RspLeft, Left
  <2>3. \A w \in 1 .. 2 : PeerLeft(w)' >= PeerLeft(w)
    BY <1>1, <1>3, <1>4 DEF PeerLeft, Left
  <2> QED
    BY <1>1, <1>2, <1>3, <1>4, <2>2, <2>3 DEF Windows
<1>7. ASSUME NEW t \in EventTypes, NEW q \in Reqs
      PROVE  /\ In(ttq, t, q)' <=> In(ttq, t, q)
             /\ In(ctq, t, q)' <=> In(ctq, t, q)
             /\ In(pttq, t, q)' <=> In(pttq, t, q)
             /\ In(pctq, t, q)' <=> In(pctq, t, q)
             /\ Once(ttq, Event(t, q)) => Once(ttq, Event(t, q))'
             /\ Once(ctq, Event(t, q)) => Once(ctq, Event(t, q))'
             /\ Once(pttq, Event(t, q)) => Once(pttq, Event(t, q))'
             /\ Once(pctq, Event(t, q)) => Once(pctq, Event(t, q))'
  <2>1. t # "RspWnd"
    BY DEF EventTypes
  <2> QED
    BY <1>1, <1>4, <2>1
<1>8. ASSUME NEW r \in Reqs
      PROVE  About(r)'
  <2>1. /\ NodeTypes /\ NodeTypes' /\ About(r) /\ UNCHANGED env
        /\ ro'[r] = ro[r] /\ outcome'[r] = outcome[r] /\ given'[r] = given[r]
        /\ rcvd'[r] = rcvd[r] /\ serving'[r] = serving[r]
        /\ \A d : d.req = r => (d \in net' <=> d \in net)
    BY <1>1, <1>2, <1>5
  <2>2. /\ \A w \in 1 .. 2 : w = ro[r].rw => RspLeft(w)' >= RspLeft(w)
        /\ \A w \in 1 .. 2 : w = rcvd[r] => PeerLeft(w)' >= PeerLeft(w)
    BY <1>6
  <2> QED
    BY <1>7, <2>1, <2>2, OtherSame
<1> QED
  BY <1>5, <1>6, <1>8, IInvParts

-------------------------------------------------------------------------------
(* Time passes. *)

\* What is left of the datagrams after a unit of time.
LEMMA NetTicks ==
    ASSUME NetType, EnvType, NetTick, UNCHANGED env
    PROVE  /\ NetType'
           /\ \A e \in net' : \E d \in net :
                 /\ d.left > 0 /\ d.left \in Nat /\ e = [d EXCEPT !.left = @ - 1]
                 /\ e.req = d.req /\ e.kind = d.kind /\ e.twice = d.twice /\ e.left = d.left - 1
<1>1. ASSUME NEW d \in net, d.left > 0
      PROVE  /\ [d EXCEPT !.left = @ - 1] \in Datagrams /\ d.left \in Nat
             /\ [d EXCEPT !.left = @ - 1].req = d.req
             /\ [d EXCEPT !.left = @ - 1].kind = d.kind
             /\ [d EXCEPT !.left = @ - 1].twice = d.twice
             /\ [d EXCEPT !.left = @ - 1].left = d.left - 1
  <2>1. d \in Datagrams /\ env.transit \in Nat
    BY Constants DEF NetType, EnvType
  <2>2. d.left - 1 \in 0 .. env.transit /\ d.left \in Nat
    BY <1>1, <2>1 DEF Datagrams
  <2> QED
    BY <2>1, <2>2 DEF Datagrams
<1>2. \A e \in net' : \E d \in net : d.left > 0 /\ e = [d EXCEPT !.left = @ - 1]
  BY DEF NetTick
<1>3. Datagrams' = Datagrams
  BY DEF Datagrams
<1> QED
  BY ZenonT(40), <1>1, <1>2, <1>3 DEF NetType

\* A unit of time passes.
LEMMA TickIInv ==
    ASSUME IInv, Tick
    PROVE  IInv'
<1>1. /\ ttq = << >> /\ ctq = << >> /\ pttq = << >> /\ pctq = << >>
      /\ wnd > 0 /\ pwnd > 0 /\ (\A r \in Reqs : ro[r].t1 # 0)
      /\ wnd' = wnd - 1 /\ pwnd' = pwnd - 1 /\ NetTick
      /\ ro' = [r \in Reqs |-> [ro[r] EXCEPT !.t1 = IF @ > 0 THEN @ - 1 ELSE @]]
      /\ serving' = [r \in Reqs |-> IF serving[r] > 0 THEN serving[r] - 1 ELSE Idle]
      /\ UNCHANGED <<ttq, ctq, crw, outcome, rcvd, pttq, pctq, pcrw, given, env>>
  BY DEF Tick, ReqQuiet, PeerQuiet, ReqTick, PeerTick
<1>2. /\ NodeTypes /\ Windows /\ EnvType /\ NetType /\ ReqType /\ PeerType
      /\ \A q \in Reqs : About(q)
  BY IInvParts
<1>3. /\ NetType'
      /\ \A e \in net' : \E d \in net :
            /\ d.left > 0 /\ d.left \in Nat /\ e = [d EXCEPT !.left = @ - 1]
            /\ e.req = d.req /\ e.kind = d.kind /\ e.twice = d.twice /\ e.left = d.left - 1
  BY <1>1, <1>2, NetTicks
<1>4. /\ Queued(<< >>) = {} /\ \A x : Once(<< >>, x)
      /\ \A t, s : ~In(<< >>, t, s)
  BY DEF Queued, Once, In
<1>5. ASSUME NEW r \in Reqs
      PROVE  /\ ro'[r] \in ReqOut /\ ro'[r].at = ro[r].at /\ ro'[r].n1 = ro[r].n1
             /\ ro'[r].rw = ro[r].rw /\ ro'[r].am = ro[r].am
             /\ ro[r].t1 \in Int /\ (ro[r].t1 = Off \/ ro[r].t1 > 0)
             /\ ro[r].t1 = Off => ro'[r].t1 = Off
             /\ ro[r].t1 # Off => ro[r].t1 > 0 /\ ro'[r].t1 = ro[r].t1 - 1
  <2>1. ro[r] \in ReqOut /\ ro[r].t1 \in Int /\ ro[r].t1 >= -1 /\ ro[r].t1 <= T1 /\ Off = -1
        /\ ro[r].t1 # 0 /\ T1 \in Nat
    BY <1>1, <1>2, ReqFields, Constants
  <2>2. ro'[r] = [ro[r] EXCEPT !.t1 = IF @ > 0 THEN @ - 1 ELSE @]
    BY <1>1
  <2>3. CASE ro[r].t1 > 0
    <3>1. ro'[r] = [ro[r] EXCEPT !.t1 = ro[r].t1 - 1] /\ ro[r].t1 - 1 \in -1 .. T1
      BY <2>1, <2>2, <2>3
    <3> QED
      BY <2>1, <2>3, <3>1 DEF ReqOut, Off
  <2>4. CASE ~(ro[r].t1 > 0)
    <3>1. ro[r].t1 = -1
      BY <2>1, <2>4
    <3>2. ro'[r] = ro[r]
      BY <2>1, <2>2, <2>4 DEF ReqOut
    <3> QED
      BY <2>1, <3>1, <3>2
  <2> QED
    BY <2>3, <2>4
<1>6. ro' \in [Reqs -> ReqOut]
  BY <1>1, <1>5
<1>7. /\ serving' \in [Reqs -> Idle .. env.service]
      /\ \A r \in Reqs : serving'[r] # Idle =>
            serving[r] > 0 /\ serving[r] # Idle /\ serving[r] \in Int
            /\ serving'[r] = serving[r] - 1
  BY SMTT(30), <1>1, <1>2, Constants DEF PeerType, EnvType, Idle
<1>8. wnd' \in 0 .. RspWait /\ pwnd' \in 0 .. PeerRspWait /\ wnd \in Nat /\ pwnd \in Nat
  BY <1>1, <1>2, Constants DEF ReqType, PeerType
<1>9. NodeTypes'
  BY <1>1, <1>2, <1>3, <1>6, <1>7, <1>8, IInvParts
     DEF EnvType, ReqType, PeerType
<1>10. /\ Windows'
       /\ \A w \in 1 .. 2 : /\ RspLeft(w)' = RspLeft(w) - 1 /\ RspLeft(w) \in Int
                            /\ PeerLeft(w)' = PeerLeft(w) - 1 /\ PeerLeft(w) \in Int
  BY SMTT(30), <1>1, <1>4, <1>8, Constants DEF Windows, RspLeft, PeerLeft, Left
<1>11. ASSUME NEW r \in Reqs
       PROVE  About(r)'
  <2>1. About(r)
    BY <1>2
  <2>2. \A e \in net' : \E d \in net : e.req = d.req /\ e.kind = d.kind
    BY <1>3
  <2>3. Sending(r)'
    BY <1>1, <1>4, <1>5, <2>1, <2>2 DEF About, Sending, Early, Failed, Unknowing
  <2>4. Telling(r)'
    BY <1>1, <1>4, <1>5, <2>1 DEF About, Telling, Told
  <2>5. Answering(r)'
    BY <1>1, <1>4, <1>7, <2>1, <2>2 DEF About, Answering
  <2>6. /\ ro[r].n1 \in Nat /\ ro[r].n1 * T1 \in Nat /\ env.transit \in Nat
        /\ ro[r].n1 >= 1 => (ro[r].n1 - 1) * T1 \in Nat
    <3>1. ro[r].n1 \in Nat /\ (ro[r].n1 >= 1 => ro[r].n1 - 1 \in Nat)
      BY <1>2, ReqFields
    <3> QED
      BY <1>2, <3>1, Product, Constants DEF EnvType
  <2>7. Timing(r)'
    <3>1. ASSUME ro[r].at = "listed", ro[r].rw # 0
          PROVE  LastT1(r, RspLeft(ro[r].rw))'
      <4>1. PICK w \in 1 .. 2 : w = ro[r].rw /\ w = ro'[r].rw
        BY <1>2, <1>5, <3>1, ReqFields
      <4>2. LastT1(r, RspLeft(w))
        BY <2>1, <3>1, <4>1 DEF About, Timing
      <4>3. RspLeft(w)' = RspLeft(w) - 1 /\ RspLeft(w) \in Int
        BY <1>10
      <4>4. ro'[r].t1 # Off => ro'[r].t1 + ro'[r].n1 * T1 < RspLeft(w)'
        BY <1>5, <2>6, <4>2, <4>3 DEF LastT1
      <4> QED
        BY <1>1, <1>4, <4>1, <4>4 DEF LastT1
    <3> QED
      BY <1>1, <1>4, <1>5, <2>1, <3>1 DEF About, Timing
  <2>8. (Remembers => Serving(r) /\ Remembering(r))'
    <3>1. Remembers' <=> Remembers
      BY <1>1 DEF Remembers
    <3>2. ASSUME NEW x \in Int, LastCopy(r, x)
          PROVE  LastCopy(r, x - 1)' /\ LastCopy(r, x)'
      <4>1. \A e \in net' : e.kind = "req" /\ e.req = r => e.left < x - 1 /\ e.left < x
        BY <1>3, <3>2 DEF LastCopy
      <4>2. ro'[r].at = "listed" /\ ro'[r].n1 >= 1 /\ ro'[r].t1 # Off =>
              /\ ro'[r].t1 + (ro'[r].n1 - 1) * T1 + env.transit < x - 1
              /\ ro'[r].t1 + (ro'[r].n1 - 1) * T1 + env.transit < x
        BY <1>5, <2>6, <3>2 DEF LastCopy
      <4> QED
        BY <1>1, <1>4, <4>1, <4>2 DEF LastCopy
    <3>3. ASSUME Remembers PROVE Serving(r)' /\ Remembering(r)'
      <4>1. Serving(r) /\ Remembering(r)
        BY <2>1, <3>3 DEF About
      <4>2. Serving(r)'
        BY <1>1, <1>4, <4>1 DEF Serving
      <4>3. ~Early(r)' => LastCopy(r, PeerRspWait)'
        BY <1>5, <3>2, <4>1, Constants DEF Remembering, Early
      <4>4. given[r] # << >> /\ rcvd[r] = Unknown => LastCopy(r, 0)'
        BY <3>2, <4>1 DEF Remembering
      <4>5. ASSUME given[r] # << >>, rcvd[r] > 0
            PROVE  LastCopy(r, PeerLeft(rcvd[r]))'
        <5>1. PICK w \in 1 .. 2 : w = rcvd[r] /\ w = rcvd'[r]
          BY <1>1, <1>2, <4>5 DEF PeerType, Unknown
        <5>2. PICK x \in Int : x = PeerLeft(w) /\ PeerLeft(w)' = x - 1
          BY <1>10
        <5>3. LastCopy(r, x)
          BY <4>1, <4>5, <5>1, <5>2 DEF Remembering
        <5>4. LastCopy(r, x - 1)'
          BY <3>2, <5>3
        <5> QED
          BY <5>1, <5>2, <5>4
      <4>6. Remembering(r)'
        BY <1>1, <4>3, <4>4, <4>5 DEF Remembering
      <4> QED
        BY <4>2, <4>6
    <3> QED
      BY <3>1, <3>3
  <2>9. (Punctual => Single(r) /\ InTime(r) /\ Whole(r))'
    <3>1. Punctual' <=> Punctual
      BY <1>1 DEF Punctual, Prompt
    <3>2. ASSUME Punctual PROVE Single(r)' /\ InTime(r)' /\ Whole(r)'
      <4>1. Single(r) /\ InTime(r) /\ Whole(r)
        BY <2>1, <3>2 DEF About
      <4>2. At("net", r)' => At("net", r)
        BY <2>2 DEF At
      <4>3. At("served", r)' => At("served", r)
        BY <1>7 DEF At
      <4>4. ~At("decode", r)' /\ ~At("encode", r)' /\ ~At("send", r)'
        BY <1>1, <1>4 DEF At
      <4>5. Single(r)'
        <5>1. \A d, e \in net' : d.req = r /\ e.req = r => d = e
          BY <1>3, <4>1 DEF Single
        <5>2. \A d \in net' : d.req = r => ~d.twice
          BY <1>3, <4>1 DEF Single
        <5>3. \A p, q \in Stages : At(p, r)' /\ At(q, r)' => p = q
          BY <4>1, <4>2, <4>3, <4>4 DEF Single, Stages
        <5> QED
          BY <1>1, <1>4, <5>1, <5>2, <5>3 DEF Single
      <4>6. env.transit \in Nat /\ env.service \in Nat
        BY <1>2, Constants DEF EnvType
      <4>7. \A e \in net' : e.req = r =>
              e.left + (IF e.kind = "req" THEN env.service + env.transit ELSE 0) < ro'[r].t1
        <5>1. SUFFICES ASSUME NEW e \in net', e.req = r
                       PROVE  e.left + (IF e.kind = "req" THEN env.service + env.transit ELSE 0)
                                < ro'[r].t1
          OBVIOUS
        <5>2. PICK d \in net : /\ d.left > 0 /\ d.left \in Nat /\ e.req = d.req
                               /\ e.kind = d.kind /\ e.left = d.left - 1
          BY <1>3
        <5>3. PICK x \in Nat : x = IF e.kind = "req" THEN env.service + env.transit ELSE 0
          BY <4>6
        <5>4. d.left + x < ro[r].t1
          BY <4>1, <5>1, <5>2, <5>3 DEF InTime
        <5>5. ro[r].t1 \in Int /\ ro'[r].t1 = ro[r].t1 - 1
          BY <1>5, <5>2, <5>4 DEF Off
        <5> QED
          BY <5>2, <5>3, <5>4, <5>5
      <4>8. serving'[r] # Idle => serving'[r] + env.transit < ro'[r].t1
        <5>1. serving'[r] # Idle =>
                 /\ serving[r] > 0 /\ serving[r] \in Int /\ serving'[r] = serving[r] - 1
                 /\ serving[r] + env.transit < ro[r].t1
          BY <1>7, <4>1 DEF InTime
        <5> QED
          BY <1>5, <4>6, <5>1 DEF Off
      <4>9. InTime(r)'
        BY <1>1, <1>4, <4>7, <4>8 DEF InTime
      <4>10. Whole(r)'
        BY <1>1, <1>4, <1>5, <4>1 DEF Whole, Told
      <4> QED
        BY <4>5, <4>9, <4>10
    <3> QED
      BY <3>1, <3>2
  <2> QED
    BY <2>3, <2>4, <2>5, <2>7, <2>8, <2>9 DEF About
<1> QED
  BY <1>9, <1>10, <1>11, IInvParts

-------------------------------------------------------------------------------
(* The invariant. *)

\* It holds at first.
LEMMA InitIInv ==
    ASSUME Init
    PROVE  IInv
<1>1. /\ env \in Envs /\ net = {}
      /\ ro = [r \in Reqs |->
                  [at |-> "unsent", n1 |-> N1, t1 |-> Off, rw |-> 0, am |-> TRUE]]
      /\ ttq = << >> /\ ctq = << >> /\ crw = 1 /\ wnd \in 1 .. RspWait
      /\ outcome = [r \in Reqs |-> << >>]
      /\ rcvd = [r \in Reqs |-> Unknown] /\ pttq = << >> /\ pctq = << >> /\ pcrw = 1
      /\ pwnd \in 1 .. PeerRspWait /\ serving = [r \in Reqs |-> Idle]
      /\ given = [r \in Reqs |-> << >>]
  BY DEF Init, ReqInit, PeerInit
<1>2. /\ Queued(<< >>) = {} /\ \A x : Once(<< >>, x)
      /\ \A t, s : ~In(<< >>, t, s)
      /\ \A S : << >> \in Seq(S)
  BY DEF Queued, Once, In
<1>3. [at |-> "unsent", n1 |-> N1, t1 |-> Off, rw |-> 0, am |-> TRUE] \in ReqOut
  BY Constants DEF ReqOut, Off
<1>4. ReqType
  BY <1>1, <1>2, <1>3 DEF ReqType
<1>5. PeerType
  <2>1. Idle \in Idle .. env.service
    BY <1>1, Constants DEF Idle
  <2> QED
    BY <1>1, <1>2, <2>1 DEF PeerType, Unknown
<1>6. NodeTypes
  BY <1>1, <1>4, <1>5, IInvParts DEF EnvType, NetType
<1>7. Windows
  BY <1>1, <1>2 DEF Windows
<1>8. ASSUME NEW r \in Reqs
      PROVE  About(r)
  <2>1. /\ ro[r].at = "unsent" /\ ro[r].t1 = Off /\ ro[r].rw = 0 /\ ro[r].am = TRUE
        /\ outcome[r] = << >> /\ DOMAIN outcome[r] = {}
        /\ rcvd[r] = Unknown /\ serving[r] = Idle /\ given[r] = << >> /\ Len(given[r]) = 0
    BY <1>1
  <2>2. Sending(r) /\ Telling(r) /\ Timing(r) /\ Answering(r)
    BY <1>1, <1>2, <2>1
       DEF Sending, Early, Failed, Unknowing, Telling, Told, Timing, Answering
  <2>3. Serving(r) /\ Remembering(r)
    BY <1>1, <1>2, <2>1 DEF Serving, Remembering, Early
  <2>4. Single(r) /\ InTime(r) /\ Whole(r)
    BY <1>1, <1>2, <2>1 DEF Single, At, InTime, Whole, Told, Stages
  <2> QED
    BY <2>2, <2>3, <2>4 DEF About
<1> QED
  BY <1>6, <1>7, <1>8 DEF IInv

\* Every step keeps it.
LEMMA NextIInv ==
    ASSUME IInv, [Step]_nodeVars
    PROVE  IInv'
<1>1. CASE UNCHANGED nodeVars
  <2>1. UNCHANGED <<env, net, ro, ttq, ctq, crw, wnd, outcome, rcvd, pttq, pctq, pcrw, pwnd,
                    serving, given>>
    BY <1>1 DEF nodeVars, reqVars, peerVars
  <2>2. NodeTypes'
    BY <2>1 DEF IInv, NodeTypes, Datagrams
  <2>3. Windows'
    BY <2>1 DEF IInv, Windows
  <2>4. ASSUME NEW r \in Reqs
        PROVE  About(r)'
    <3>1. NodeTypes /\ About(r) /\ Windows /\ ReqType /\ PeerType
      BY IInvParts
    <3>2. \A w \in 1 .. 2 : RspLeft(w)' >= RspLeft(w) /\ PeerLeft(w)' >= PeerLeft(w)
      BY <2>1, <3>1, WindowsSame
    <3> QED
      BY <2>1, <2>2, <3>1, <3>2, OtherSame
  <2> QED
    BY <2>2, <2>3, <2>4, IInvParts
<1>2. CASE Requester /\ UNCHANGED <<env, peerVars>>
  <2>1. ASSUME NEW r \in Reqs, EncodeReq(r) PROVE IInv'
    BY <1>2, <2>1, EncodeReqIInv
  <2>2. ASSUME NEW r \in Reqs, DecodeRsp(r) PROVE IInv'
    BY <1>2, <2>2, DecodeRspIInv
  <2>3. ASSUME NEW r \in Reqs, SndInitialReq(r) PROVE IInv'
    BY <1>2, <2>3, SndInitialReqIInv
  <2>4. ASSUME NEW r \in Reqs, OnReqTimeout(r) PROVE IInv'
    BY <1>2, <2>4, OnReqTimeoutIInv
  <2>5. ASSUME NEW r \in Reqs, OnRcvdRspError(r) PROVE IInv'
    BY <1>2, <2>5, OnRcvdRspErrorIInv
  <2>6. ASSUME NEW r \in Reqs, ExpireT1(r) PROVE IInv'
    BY <1>2, <2>6, ExpireT1IInv
  <2>7. ASSUME NEW r \in Reqs, AppSend(r) PROVE IInv'
    BY <1>2, <2>7, AppSendIInv
  <2>8. ASSUME NEW d \in net, OnReceiveRsp(d) PROVE IInv'
    BY <1>2, <2>8, OnReceiveRspIInv
  <2>9. CASE OnRspWnd
    BY <1>2, <2>9, OnRspWndIInv
  <2>10. CASE ExpireWnd
    BY <1>2, <2>10, ExpireWndIInv
  <2> QED
    BY <1>2, <2>1, <2>2, <2>3, <2>4, <2>5, <2>6, <2>7, <2>8, <2>9, <2>10
       DEF Requester, ReqWork
<1>3. CASE Responder /\ UNCHANGED <<env, reqVars>>
  <2>1. ASSUME NEW r \in Reqs, DecodeReq(r) PROVE IInv'
    BY <1>3, <2>1, DecodeReqIInv
  <2>2. ASSUME NEW r \in Reqs, EncodeRsp(r) PROVE IInv'
    BY <1>3, <2>2, EncodeRspIInv
  <2>3. ASSUME NEW r \in Reqs, SndRsp(r) PROVE IInv'
    BY <1>3, <2>3, SndRspIInv
  <2>4. ASSUME NEW r \in Reqs, OnRcvdReqError(r) PROVE IInv'
    BY <1>3, <2>4, OnRcvdReqErrorIInv
  <2>5. ASSUME NEW r \in Reqs, AppAnswer(r) PROVE IInv'
    BY <1>3, <2>5, AppAnswerIInv
  <2>6. ASSUME NEW d \in net, OnReceiveReq(d) PROVE IInv'
    BY <1>3, <2>6, OnReceiveReqIInv
  <2>7. CASE OnPeerRspWnd
    BY <1>3, <2>7, OnPeerRspWndIInv
  <2>8. CASE ExpirePeerWnd
    BY <1>3, <2>8, ExpirePeerWndIInv
  <2> QED
    BY <1>3, <2>1, <2>2, <2>3, <2>4, <2>5, <2>6, <2>7, <2>8 DEF Responder, PeerWork
<1>4. CASE Tick
  BY <1>4, TickIInv
<1> QED
  BY <1>1, <1>2, <1>3, <1>4 DEF Step

\* A crash changes nothing that the nodes keep.
LEMMA NextStep == [Next]_vars => [Step]_nodeVars
BY DEF Next, Crash, vars

\* The inductive invariant holds in every state of both nodes and of the network.
THEOREM Invariant == Spec => []IInv
BY InitIInv, NextIInv, NextStep, PTL DEF Spec

\* The state of both nodes and of the network has its type.
THEOREM TypeCorrect == Spec => []TypeOK
<1>1. IInv => NodeTypes
  BY DEF IInv
<1>2. Init => crashed \in BOOLEAN
  BY DEF Init
<1>3. crashed \in BOOLEAN /\ [Next]_vars => (crashed \in BOOLEAN)'
  BY DEF Next, Crash, vars
<1>4. NodeTypes /\ crashed \in BOOLEAN => TypeOK
  BY DEF TypeOK
<1> QED
  BY <1>1, <1>2, <1>3, <1>4, Invariant, PTL DEF Spec

\* onReqTimeout finds the ReqOut that its timer was started for: no timer and no event
\* points to one that removeOldReqs or a timeout has deleted (epfcp.cpp).
THEOREM TimersPointToRequests == Spec => []NoDanglingTimeout
<1>1. IInv => NoDanglingTimeout
  BY DEF IInv, About, Timing, NoDanglingTimeout, In
<1> QED
  BY <1>1, Invariant, PTL

\* onReceive gives a request to the application once, when the response window of the
\* peer is longer than the copies of a request can follow each other.
THEOREM RequestsGivenOnce ==
    ASSUME \A e \in Envs : (N1 - 1) * T1 + e.transit < PeerRspWait
    PROVE  Spec => []GivenOnce
<1>1. ASSUME IInv PROVE GivenOnce
  <2>1. Remembers
    BY <1>1 DEF IInv, NodeTypes, Remembers
  <2> QED
    BY <1>1, <2>1 DEF IInv, About, Serving, GivenOnce
<1>2. IInv => GivenOnce
  BY <1>1
<1> QED
  BY <1>2, Invariant, PTL

\* While responses come before T1 expires and nothing is doubled, onRcvdRsp and
\* onReqTimeout hand the application's message back each time.
THEOREM EventsCarryRequests == Spec => []PromptEventsComplete
<1>1. IInv => PromptEventsComplete
  BY DEF IInv, About, Punctual, Whole, PromptEventsComplete, NoNullEvent
<1> QED
  BY <1>1, Invariant, PTL

-------------------------------------------------------------------------------
(* The nodes do what PfcpTransaction promises. *)

Phases == [r \in Reqs |-> Phase(r)]
Peers == [r \in Reqs |-> Peer(r)]

\* A step of PfcpTransaction, or none.
Promised == Transaction!Next \/ UNCHANGED <<Phases, Peers>>

\* What Phase depends on.
LEMMA SamePhase ==
    ASSUME NEW r \in Reqs, outcome'[r] = outcome[r],
           ro'[r].at = "unsent" <=> ro[r].at = "unsent"
    PROVE  Phase(r)' = Phase(r)
BY DEF Phase, Ending, Told

\* What Peer depends on.
LEMMA SamePeer ==
    ASSUME NEW r \in Reqs, given'[r] = given[r]
    PROVE  Peer(r)' = Peer(r)
BY DEF Peer

\* A step in which nobody is told anything.
LEMMA NothingTold ==
    ASSUME UNCHANGED <<outcome, given>>,
           \A r \in Reqs : ro'[r].at = "unsent" <=> ro[r].at = "unsent"
    PROVE  Promised
<1>1. \A r \in Reqs : Phase(r)' = Phase(r) /\ Peer(r)' = Peer(r)
  BY SamePhase, SamePeer
<1> QED
  BY <1>1 DEF Promised, Phases, Peers

\* A step that changes the phase of one request.
LEMMA OnePhase ==
    ASSUME NEW r \in Reqs, UNCHANGED given,
           \A q \in Reqs \ {r} :
              outcome'[q] = outcome[q] /\ (ro'[q].at = "unsent" <=> ro[q].at = "unsent")
    PROVE  Phases' = [Phases EXCEPT ![r] = Phase(r)'] /\ UNCHANGED Peers
<1>1. \A q \in Reqs \ {r} : Phase(q)' = Phase(q)
  BY SamePhase
<1>2. \A q \in Reqs : Peer(q)' = Peer(q)
  BY SamePeer
<1> QED
  BY <1>1, <1>2 DEF Phases, Peers

\* A step in which the application is told about a request.
LEMMA SomethingTold ==
    ASSUME IInv, NEW r \in Reqs, UNCHANGED given,
           NEW what \in {"rsp", "rspNull", "timeout", "timeoutNull", "error"}, Tell(r, what),
           \A q \in Reqs \ {r} : ro'[q].at = "unsent" <=> ro[q].at = "unsent",
           ro[r].at # "unsent", ro'[r].at # "unsent",
           what \in {"rsp", "timeout", "error"} => Told(r) = {},
           what = "rsp" => given[r] # << >>
    PROVE  Promised
<1> DEFINE S == {"rsp", "rspNull", "timeout", "timeoutNull", "error"}
           o == outcome[r]
           p == outcome'[r]
           n == Len(o) + 1
<1>1. ReqType /\ PeerType
  BY IInvParts
<1>2. o \in Seq(S) /\ outcome' = [outcome EXCEPT ![r] = Append(o, what)]
  BY <1>1 DEF ReqType, Tell
<1>3. /\ DOMAIN o = 1 .. Len(o) /\ Len(o) \in Nat /\ DOMAIN Append(o, what) = 1 .. Len(o) + 1
      /\ \A k \in 1 .. Len(o) : Append(o, what)[k] = o[k]
      /\ Append(o, what)[n] = what
  BY <1>2, AppendFacts
<1>4. p = Append(o, what) /\ \A q \in Reqs \ {r} : outcome'[q] = outcome[q]
  BY <1>1, <1>2 DEF ReqType
<1>5. /\ DOMAIN p = DOMAIN o \cup {n} /\ n \notin DOMAIN o
      /\ \A k \in DOMAIN o : p[k] = o[k]
      /\ p[n] = what
  BY <1>3, <1>4
<1> HIDE DEF n
<1>6. Phases' = [Phases EXCEPT ![r] = Phase(r)'] /\ UNCHANGED Peers
  BY <1>4, OnePhase
<1>7. CASE what \in {"rspNull", "timeoutNull"}
  <2>1. Told(r)' = Told(r) /\ \A k \in Told(r) : p[k] = o[k]
    BY <1>5, <1>7 DEF Told
  <2>2. Phase(r)' = Phase(r)
    <3>1. CASE Told(r) = {}
      BY <2>1, <3>1 DEF Phase
    <3>2. CASE Told(r) # {}
      <4>1. (CHOOSE i \in Told(r) : TRUE) \in Told(r)
        BY <3>2
      <4>2. Ending(r)' = Ending(r)
        BY <2>1, <4>1 DEF Ending
      <4> QED
        BY <2>1, <3>2, <4>2 DEF Phase
    <3> QED
      BY <3>1, <3>2
  <2> QED
    BY <1>6, <2>2 DEF Promised, Phases
<1>8. CASE what \in {"rsp", "timeout", "error"}
  <2>1. Told(r) = {} /\ Told(r)' = {n}
    BY <1>5, <1>8 DEF Told
  <2>2. Phase(r) = "pending"
    BY <2>1 DEF Phase
  <2>3. Phase(r)' = what
    <3>1. (CHOOSE i \in Told(r)' : TRUE) = n
      BY <2>1
    <3>2. Ending(r)' = what
      BY <1>5, <2>1, <3>1 DEF Ending
    <3> QED
      BY <2>1, <3>2 DEF Phase
  <2>4. Phases[r] = "pending" /\ Phases' = [Phases EXCEPT ![r] = what] /\ UNCHANGED Peers
    BY <1>6, <2>2, <2>3 DEF Phases
  <2>5. what = "rsp" => Peers[r] # "unaware"
    <3>1. given[r] # << >> /\ Len(given[r]) = 1 => given[r][1] \in {"given", "refused"}
      BY <1>1 DEF PeerType
    <3> QED
      BY <3>1 DEF Peers, Peer
  <2>6. CASE what = "rsp"
    <3>1. Transaction!Answer(r)
      BY <2>4, <2>5, <2>6 DEF Transaction!Answer, Phases, Peers
    <3> QED
      BY <3>1 DEF Promised, Transaction!Next
  <2>7. CASE what \in {"timeout", "error"}
    <3>1. Transaction!Abandon(r)
      BY <2>4, <2>7 DEF Transaction!Abandon, Phases, Peers
    <3> QED
      BY <3>1 DEF Promised, Transaction!Next
  <2> QED
    BY <1>8, <2>6, <2>7
<1> QED
  BY <1>7, <1>8

\* A step of the node that makes requests.
LEMMA RequesterPromised ==
    ASSUME IInv, Requester, UNCHANGED <<env, peerVars>>
    PROVE  Promised
<1>1. ReqType /\ PeerType /\ (\A q \in Reqs : About(q)) /\ UNCHANGED given
  BY IInvParts DEF peerVars
<1>2. ro \in [Reqs -> ReqOut]
  BY <1>1 DEF ReqType
<1>3. ASSUME NEW r \in Reqs, NEW c, ro' = [ro EXCEPT ![r] = c]
      PROVE  ro'[r] = c /\ \A q \in Reqs \ {r} : ro'[q].at = "unsent" <=> ro[q].at = "unsent"
  BY <1>2, <1>3
<1>4. ASSUME NEW r \in Reqs, NEW c, ro' = [ro EXCEPT ![r] = c], UNCHANGED outcome,
             c.at = "unsent" <=> ro[r].at = "unsent"
      PROVE  Promised
  BY <1>1, <1>3, <1>4, NothingTold
<1>5. ASSUME NEW r \in Reqs, AppSend(r)
      PROVE  Promised
  <2> DEFINE c == [ro[r] EXCEPT !.at = "encode"]
  <2>1. ro' = [ro EXCEPT ![r] = c] /\ UNCHANGED outcome /\ ro[r].at = "unsent"
    BY <1>5 DEF AppSend
  <2>2. c.at = "encode"
    BY <1>2 DEF ReqOut
  <2> HIDE DEF c
  <2>3. ro'[r].at = "encode"
        /\ \A q \in Reqs \ {r} : ro'[q].at = "unsent" <=> ro[q].at = "unsent"
    BY <1>3, <2>1, <2>2
  <2>4. outcome[r] = << >>
    BY <1>1, <2>1 DEF About, Sending, Early
  <2>5. Phase(r) = "unsent" /\ Phase(r)' = "pending"
    BY <2>1, <2>3, <2>4 DEF Phase, Told
  <2>6. Phases' = [Phases EXCEPT ![r] = Phase(r)'] /\ UNCHANGED Peers
    BY <1>1, <2>1, <2>3, OnePhase
  <2>7. Transaction!Send(r)
    BY <2>5, <2>6 DEF Transaction!Send, Phases, Peers
  <2> QED
    BY <2>7 DEF Promised, Transaction!Next
<1>6. ASSUME NEW r \in Reqs, EncodeReq(r)
      PROVE  Promised
  <2>1. ttq # << >> /\ Head(ttq) = Event("SndMsg", r)
    BY <1>6 DEF EncodeReq
  <2>2. In(ttq, "SndMsg", r)
    BY <1>1, <2>1, Taken DEF Takes, ReqType, EventTypes
  <2>3. ro[r].at = "encode" /\ outcome[r] = << >>
    BY <1>1, <2>2 DEF About, Sending, Early
  <2>4. CASE ro' = [ro EXCEPT ![r].at = "queued"] /\ UNCHANGED outcome
    <3> DEFINE c == [ro[r] EXCEPT !.at = "queued"]
    <3>1. ro' = [ro EXCEPT ![r] = c] /\ c.at = "queued"
      BY <1>2, <2>4 DEF ReqOut
    <3> HIDE DEF c
    <3> QED
      BY <1>4, <2>3, <2>4, <3>1
  <2>5. CASE ro' = [ro EXCEPT ![r].at = "deleted", ![r].am = FALSE] /\ Tell(r, "error")
    <3> DEFINE c == [ro[r] EXCEPT !.at = "deleted", !.am = FALSE]
    <3>1. ro' = [ro EXCEPT ![r] = c] /\ c.at = "deleted"
      BY <1>2, <2>5 DEF ReqOut
    <3> HIDE DEF c
    <3>2. Told(r) = {}
      BY <2>3 DEF Told
    <3> QED
      BY <1>1, <1>3, <2>3, <2>5, <3>1, <3>2, SomethingTold
  <2> QED
    BY <1>6, <2>4, <2>5 DEF EncodeReq
<1>7. ASSUME NEW r \in Reqs, DecodeRsp(r)
      PROVE  Promised
  <2>1. PICK t \in {"RcvdRsp", "RcvdRspNull"} : ttq # << >> /\ Head(ttq) = Event(t, r)
    BY <1>7 DEF DecodeRsp
  <2>2. In(ttq, t, r)
    <3>1. Takes(ttq, Tail(ttq), t, r)
      BY <1>1, <2>1, Taken DEF ReqType, EventTypes
    <3> QED
      BY <3>1 DEF Takes
  <2>3. given[r] # << >> /\ ro[r].at # "unsent" /\ (t = "RcvdRsp" => Told(r) = {})
    BY <1>1, <2>2 DEF About, Answering, Sending, Early, Unknowing, Telling
  <2>4. UNCHANGED ro
    BY <1>7 DEF DecodeRsp
  <2>5. CASE UNCHANGED outcome
    BY <1>1, <2>4, <2>5, NothingTold
  <2>6. CASE Tell(r, IF Head(ttq).type = "RcvdRsp" THEN "rsp" ELSE "rspNull")
    <3>1. PICK what \in {"rsp", "rspNull", "timeout", "timeoutNull", "error"} :
             what = (IF t = "RcvdRsp" THEN "rsp" ELSE "rspNull") /\ Tell(r, what)
      BY <2>1, <2>6, EventFacts
    <3>2. what \in {"rsp", "timeout", "error"} => Told(r) = {}
      BY <2>3, <3>1
    <3> QED
      BY <1>1, <2>3, <2>4, <3>1, <3>2, SomethingTold
  <2> QED
    BY <1>7, <2>5, <2>6 DEF DecodeRsp
<1>8. ASSUME NEW r \in Reqs, SndReq(r, [ro[r] EXCEPT !.at = "listed"]),
             ro[r].at \in {"queued", "listed"}
      PROVE  Promised
  <2> DEFINE o == [ro[r] EXCEPT !.at = "listed"]
  <2>1. o \in ReqOut /\ o.at = "listed" /\ o.am = ro[r].am
    BY <1>2 DEF ReqOut
  <2>2. SndReq(r, o)
    BY <1>8
  <2> HIDE DEF o
  <2>3. CASE o.n1 >= 1
    <3> DEFINE c == [o EXCEPT !.n1 = @ - 1, !.t1 = T1]
    <3>1. ro' = [ro EXCEPT ![r] = c] /\ c.at = "listed" /\ UNCHANGED outcome
      BY <2>1, <2>2, <2>3 DEF SndReq, ReqOut
    <3> HIDE DEF c
    <3> QED
      BY <1>4, <1>8, <3>1
  <2>4. CASE ~(o.n1 >= 1)
    <3> DEFINE c == [o EXCEPT !.at = "deleted", !.am = FALSE]
    <3>1. /\ ro' = [ro EXCEPT ![r] = c] /\ c.at = "deleted"
          /\ Tell(r, IF o.am THEN "timeout" ELSE "timeoutNull")
      BY <2>1, <2>2, <2>4 DEF SndReq, ReqOut
    <3> HIDE DEF c
    <3>2. PICK what \in {"rsp", "rspNull", "timeout", "timeoutNull", "error"} :
             what = (IF o.am THEN "timeout" ELSE "timeoutNull") /\ Tell(r, what)
      BY <3>1
    <3>3. what \in {"rsp", "timeout", "error"} => Told(r) = {}
      <4>1. o.am = TRUE => Told(r) = {}
        BY <1>1, <2>1 DEF About, Telling
      <4>2. what \in {"rsp", "timeout", "error"} => o.am
        BY <3>2
      <4>3. o.am \in BOOLEAN
        BY <2>1 DEF ReqOut
      <4> QED
        BY <4>1, <4>2, <4>3, Zenon
    <3>4. what # "rsp" /\ ro'[r].at # "unsent" /\ ro[r].at # "unsent"
          /\ \A q \in Reqs \ {r} : ro'[q].at = "unsent" <=> ro[q].at = "unsent"
      BY <1>3, <1>8, <3>1, <3>2
    <3> QED
      BY <1>1, <3>2, <3>3, <3>4, SomethingTold
  <2> QED
    BY <2>3, <2>4
<1>9. ASSUME NEW r \in Reqs, SndInitialReq(r)
      PROVE  Promised
  <2>1. ctq # << >> /\ Head(ctq) = Event("SndReq", r)
    BY <1>9 DEF SndInitialReq
  <2>2. In(ctq, "SndReq", r)
    BY <1>1, <2>1, Taken DEF Takes, ReqType, EventTypes
  <2>3. ro[r].at = "queued"
    BY <1>1, <2>2 DEF About, Sending
  <2> QED
    BY <1>8, <1>9, <2>3 DEF SndInitialReq
<1>10. ASSUME NEW r \in Reqs, OnReqTimeout(r)
       PROVE  Promised
  <2>1. ctq # << >> /\ Head(ctq) = Event("ReqTimeout", r)
    BY <1>10 DEF OnReqTimeout
  <2>2. In(ctq, "ReqTimeout", r)
    BY <1>1, <2>1, Taken DEF Takes, ReqType, EventTypes
  <2>3. ro[r].at = "listed"
    BY <1>1, <2>2 DEF About, Timing
  <2>4. ro[r] = [ro[r] EXCEPT !.at = "listed"]
    BY <1>2, <2>3 DEF ReqOut
  <2>5. SndReq(r, ro[r])
    BY <1>10, <2>3 DEF OnReqTimeout
  <2> QED
    BY <1>8, <2>3, <2>4, <2>5
<1>11. ASSUME NEW r \in Reqs, OnRcvdRspError(r)
       PROVE  Promised
  <2>1. CASE ro' = [ro EXCEPT ![r].rw = 0] /\ UNCHANGED outcome
    <3> DEFINE c == [ro[r] EXCEPT !.rw = 0]
    <3>1. ro' = [ro EXCEPT ![r] = c] /\ c.at = ro[r].at
      BY <1>2, <2>1 DEF ReqOut
    <3> HIDE DEF c
    <3> QED
      BY <1>4, <2>1, <3>1
  <2>2. CASE UNCHANGED <<ro, outcome>>
    BY <1>1, <2>2, NothingTold
  <2> QED
    BY <1>11, <2>1, <2>2 DEF OnRcvdRspError
<1>12. ASSUME NEW r \in Reqs, ExpireT1(r)
       PROVE  Promised
  <2> DEFINE c == [ro[r] EXCEPT !.t1 = Off]
  <2>1. ro' = [ro EXCEPT ![r] = c] /\ UNCHANGED outcome
    BY <1>12 DEF ExpireT1
  <2>2. c.at = ro[r].at
    BY <1>2 DEF ReqOut
  <2> HIDE DEF c
  <2> QED
    BY <1>4, <2>1, <2>2
<1>13. ASSUME NEW d \in net, OnReceiveRsp(d)
       PROVE  Promised
  <2>1. UNCHANGED outcome
    BY <1>13 DEF OnReceiveRsp
  <2>2. CASE UNCHANGED ro
    BY <1>1, <2>1, <2>2, NothingTold
  <2>3. CASE ro' = [ro EXCEPT ![d.req].rw = crw, ![d.req].t1 = Off, ![d.req].am = FALSE]
    <3>1. d.req \in Reqs
      BY IInvParts, NetFields
    <3> DEFINE c == [ro[d.req] EXCEPT !.rw = crw, !.t1 = Off, !.am = FALSE]
    <3>2. ro' = [ro EXCEPT ![d.req] = c] /\ c.at = ro[d.req].at
      BY <1>2, <2>3, <3>1 DEF ReqOut
    <3> HIDE DEF c
    <3> QED
      BY <1>4, <2>1, <3>1, <3>2
  <2> QED
    BY <1>13, <2>2, <2>3 DEF OnReceiveRsp
<1>14. CASE OnRspWnd
  <2>1. UNCHANGED outcome
        /\ ro' = [r \in Reqs |-> IF r \in Old(Toggle(crw))
                                   THEN [ro[r] EXCEPT !.at = "deleted"] ELSE ro[r]]
    BY <1>14 DEF OnRspWnd
  <2>2. \A r \in Reqs : ro'[r].at = "unsent" <=> ro[r].at = "unsent"
    BY <1>2, <2>1 DEF Old, ReqOut
  <2> QED
    BY <1>1, <2>1, <2>2, NothingTold
<1>15. CASE ExpireWnd
  BY <1>1, <1>15, NothingTold DEF ExpireWnd
<1> QED
  BY <1>5, <1>6, <1>7, <1>9, <1>10, <1>11, <1>12, <1>13, <1>14, <1>15 DEF Requester, ReqWork

\* A step of the node that answers.
LEMMA ResponderPromised ==
    ASSUME IInv, Remembers, Responder, UNCHANGED <<env, reqVars>>
    PROVE  Promised
<1>1. UNCHANGED <<ro, outcome>> /\ PeerType /\ ReqType /\ (\A q \in Reqs : About(q))
  BY IInvParts DEF reqVars
<1>2. ASSUME UNCHANGED given
      PROVE  Promised
  BY <1>1, <1>2, NothingTold
<1>3. ASSUME NEW r \in Reqs, DecodeReq(r), NEW what \in {"given", "refused"},
             given' = [given EXCEPT ![r] = Append(@, what)]
      PROVE  Promised
  <2>1. pttq # << >> /\ Head(pttq) = Event("RcvdReq", r)
    BY <1>3, EventFacts DEF DecodeReq
  <2>2. In(pttq, "RcvdReq", r)
    BY <1>1, <2>1, Taken DEF Takes, PeerType, EventTypes
  <2>3. given[r] = << >> /\ ~Early(r) /\ ~Failed(r)
    BY <1>1, <2>2 DEF About, Serving, Sending, Unknowing
  <2>4. /\ given'[r] = Append(<< >>, what) /\ Append(<< >>, what) # << >>
        /\ Len(Append(<< >>, what)) = 1 /\ Append(<< >>, what)[1] = what
        /\ \A q \in Reqs \ {r} : given'[q] = given[q]
    BY <1>1, <1>3, <2>3 DEF PeerType
  <2>5. Peer(r) = "unaware" /\ Peer(r)' = what
    BY <2>3, <2>4 DEF Peer
  <2>6. Phase(r) \notin {"unsent", "error"}
    <3>1. CASE Told(r) = {}
      BY <2>3, <3>1 DEF Phase, Early
    <3>2. CASE Told(r) # {}
      <4>1. (CHOOSE i \in Told(r) : TRUE) \in Told(r)
        BY <3>2
      <4>2. \A i \in Told(r) : outcome[r][i] \notin {"unsent", "error"}
        <5>1. \A i \in DOMAIN outcome[r] :
                 outcome[r][i] \in {"rsp", "rspNull", "timeout", "timeoutNull", "error"}
          BY <1>1 DEF ReqType
        <5> QED
          BY <2>3, <5>1 DEF Told, Failed
      <4> QED
        BY <3>2, <4>1, <4>2 DEF Phase, Ending
    <3> QED
      BY <3>1, <3>2
  <2>7. \A q \in Reqs : Phase(q)' = Phase(q)
    BY <1>1, SamePhase
  <2>8. \A q \in Reqs \ {r} : Peer(q)' = Peer(q)
    BY <2>4, SamePeer
  <2>9. UNCHANGED Phases /\ Peers' = [Peers EXCEPT ![r] = what]
    BY <2>5, <2>7, <2>8 DEF Phases, Peers
  <2>10. Transaction!Give(r)
    BY <2>5, <2>6, <2>9 DEF Transaction!Give, Phases, Peers
  <2> QED
    BY <2>10 DEF Promised, Transaction!Next
<1>4. ASSUME NEW r \in Reqs, DecodeReq(r)
      PROVE  Promised
  <2>1. \/ given' = [given EXCEPT ![r] = Append(@, "given")]
        \/ given' = [given EXCEPT ![r] = Append(@, "refused")]
        \/ UNCHANGED given
    BY <1>4 DEF DecodeReq
  <2> QED
    BY <1>2, <1>3, <1>4, <2>1
<1>5. ASSUME NEW r \in Reqs,
             AppAnswer(r) \/ EncodeRsp(r) \/ SndRsp(r) \/ OnRcvdReqError(r)
      PROVE  UNCHANGED given
  BY <1>5 DEF AppAnswer, EncodeRsp, SndRsp, OnRcvdReqError
<1>6. (\E d \in net : OnReceiveReq(d)) \/ OnPeerRspWnd \/ ExpirePeerWnd => UNCHANGED given
  BY DEF OnReceiveReq, OnPeerRspWnd, ExpirePeerWnd
<1> QED
  BY <1>2, <1>4, <1>5, <1>6 DEF Responder, PeerWork

\* Each step is a step of PfcpTransaction or changes nothing that it sees.
LEMMA StepSimulation ==
    ASSUME IInv, Remembers, [Step]_nodeVars
    PROVE  Promised
<1>1. CASE Requester /\ UNCHANGED <<env, peerVars>>
  BY <1>1, RequesterPromised
<1>2. CASE Responder /\ UNCHANGED <<env, reqVars>>
  BY <1>2, ResponderPromised
<1>3. CASE Tick
  <2>1. /\ ro' = [r \in Reqs |-> [ro[r] EXCEPT !.t1 = IF @ > 0 THEN @ - 1 ELSE @]]
        /\ UNCHANGED <<outcome, given>>
    BY <1>3 DEF Tick, ReqTick, PeerTick
  <2>2. ro \in [Reqs -> ReqOut]
    BY IInvParts DEF ReqType
  <2>3. \A r \in Reqs : ro'[r].at = ro[r].at
    BY <2>1, <2>2 DEF ReqOut
  <2> QED
    BY <2>1, <2>3, NothingTold
<1>4. CASE UNCHANGED nodeVars
  BY <1>4, NothingTold DEF nodeVars, reqVars, peerVars
<1> QED
  BY <1>1, <1>2, <1>3, <1>4 DEF Step

\* Both nodes do what PfcpTransaction promises: the peer's application is given a request
\* once, and the application that made it gets it back once, with a response, a timeout
\* or an error (epfcp.h), when the peer remembers it for as long as copies arrive.
THEOREM Refinement ==
    ASSUME \A e \in Envs : (N1 - 1) * T1 + e.transit < PeerRspWait
    PROVE  Spec => ImplementsTransaction
<1>1. Init => Transaction!Init
  <2>1. ASSUME Init, NEW r \in Reqs
        PROVE  Phase(r) = "unsent" /\ Peer(r) = "unaware"
    <3>1. ro[r].at = "unsent" /\ outcome[r] = << >> /\ given[r] = << >>
      BY <2>1 DEF Init, ReqInit, PeerInit
    <3> QED
      BY <3>1 DEF Phase, Told, Peer
  <2> QED
    BY <2>1 DEF Transaction!Init
<1>2. IInv /\ [Next]_vars =>
        [Transaction!Next]_<<[r \in Reqs |-> Phase(r)], [r \in Reqs |-> Peer(r)]>>
  <2>1. IInv => Remembers
    BY DEF IInv, NodeTypes, Remembers
  <2>2. IInv /\ [Next]_vars => Promised
    BY <2>1, StepSimulation, NextStep
  <2> QED
    BY <2>2 DEF Promised, Phases, Peers
<1> QED
  BY <1>1, <1>2, Invariant, PTL DEF Spec, ImplementsTransaction, Transaction!Spec

\* The two reports that contradict the comments of epfcp.h, a timeout of a request that
\* was answered and a response without its request, need a response that is late or a
\* datagram that is doubled.
THEOREM PromptReportsTrue ==
    Spec => [](Prompt /\ ~env.duplicates => TimeoutMeansNoResponse /\ ResponseHasRequest)
<1>1. ASSUME IInv, Prompt, ~env.duplicates
      PROVE  TimeoutMeansNoResponse /\ ResponseHasRequest
  <2>1. \A r \in Reqs : Whole(r) /\ Telling(r)
    BY <1>1 DEF IInv, About, Punctual
  <2>2. ResponseHasRequest
    BY <2>1 DEF Whole, Told, ResponseHasRequest
  <2>3. TimeoutMeansNoResponse
    BY <2>1 DEF Whole, Telling, TimeoutMeansNoResponse
  <2> QED
    BY <2>2, <2>3
<1>2. IInv => (Prompt /\ ~env.duplicates => TimeoutMeansNoResponse /\ ResponseHasRequest)
  BY <1>1
<1> QED
  BY <1>2, Invariant, PTL
===============================================================================
