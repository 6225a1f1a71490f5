------------------------------ MODULE ETimerPool ------------------------------
(***************************************************************************)
(* The timer pool (etimerpool.h, etimerpool.cpp) with an event thread      *)
(* whose handlers register and unregister timers, as the PFCP              *)
(* communication thread does.                                              *)
(*                                                                         *)
(* Registrations that expire at the same (rounded) time share a POSIX      *)
(* timer.  The timer queues a signal for the pool's thread, which posts a  *)
(* message, or makes a callback, for each registration.  Everything the    *)
(* pool keeps is under one mutex, which is not recursive and which the     *)
(* thread holds while it waits for room in the queue it posts to.          *)
(*                                                                         *)
(* The pool's signals are blocked in every thread, as in main of test.cpp  *)
(* and of pfcpex, so that they wait for sigwaitinfo.                       *)
(***************************************************************************)
EXTENDS Integers, Sequences, FiniteSets, Functions

CONSTANTS
    Timers,       \* the POSIX timers that may be created
    NoTimer,
    MaxId,        \* bound: the number of registrations
    CallbackIds,  \* the registrations with a callback instead of a message
    Durations,    \* the durations (ms) registered
    Resolution,   \* m_resolution
    RoundUp,      \* m_rounding = Rounding::up
    MaxTime,      \* bound of the clock
    QueueSize     \* the room in the queue of the event thread

Ids == 1 .. MaxId
Times == 0 .. MaxTime
None == MaxTime + 1
Off == MaxTime + 2

ASSUME TimerPoolAssumption ==
    /\ IsFiniteSet(Timers) /\ NoTimer \notin Timers
    /\ MaxId \in Nat \ {0} /\ CallbackIds \subseteq Ids
    /\ Durations \subseteq Nat /\ Resolution \in Nat \ {0} /\ RoundUp \in BOOLEAN
    /\ MaxTime \in Nat /\ QueueSize \in Nat \ {0}

VARIABLES
    now,         \* CLOCK_REALTIME
    etmap,       \* m_etmap: expiration time -> its entries and timer
    etidmap,     \* m_etidmap: id -> the expiration time of its entry
    timer,       \* the timers: when armed for, and m_etep
    freetimers,  \* m_freetimers
    signals,     \* the timer signals queued for the thread, at most one per timer
    pool,        \* the pool's thread
    queue,       \* the event thread's queue
    handler,     \* what the event thread does
    uninit,      \* the thread that calls uninit
    crashed,     \* an undefined pointer or iterator was used
    fate, due,   \* history: what became of each id, and when it was due
    stale        \* history: timers with a signal of an earlier use in flight

maps == <<etmap, etidmap, fate, due>>
timers == <<timer, freetimers, signals, stale>>
threads == <<pool, queue, handler, uninit, crashed>>
vars == <<now, maps, timers, threads>>

Init ==
    /\ now = 0
    /\ etmap = << >> /\ etidmap = << >>
    /\ timer = [t \in Timers |-> [at |-> Off, etep |-> None]]
    /\ freetimers = << >> /\ signals = << >>
    /\ pool = [pc |-> "wait", timer |-> NoTimer, stale |-> FALSE]
    /\ queue = << >> /\ handler = "idle"
    /\ uninit = [pc |-> "running", id |-> 0] /\ crashed = "no"
    /\ fate = [i \in Ids |-> "unused"] /\ due = [i \in Ids |-> 0]
    /\ stale = {}

-------------------------------------------------------------------------------
Drop(f, x) == Restrict(f, DOMAIN f \ {x})
Put(f, x, y) == [z \in DOMAIN f \cup {x} |-> IF z = x THEN y ELSE f[z]]

SetEntries(et, entries) ==
    etmap' = [etmap EXCEPT ![et] = [entries |-> entries, timer |-> etmap[et].timer]]

\* Nothing happens any more in a process that has crashed.
Alive == crashed = "no"

\* m_mutex: a call of another thread is one step, between its lock and unlock.
MutexFree == pool.pc # "sending"

\* A signal of the timer t was dequeued and is not handled yet.
InHand(t) == pool.pc = "signalled" /\ pool.timer = t

\* timer_settime starts or stops t.  POSIX does not say whether a signal that is
\* already queued stays queued.
DropSignal(k) == SubSeq(signals, 1, k - 1) \o SubSeq(signals, k + 1, Len(signals))
Settime(t, at, etep) ==
    /\ timer' = [timer EXCEPT ![t] = [at |-> at, etep |-> etep]]
    /\ \/ UNCHANGED signals
       \/ \E k \in DOMAIN signals : signals[k] = t /\ signals' = DropSignal(k)
    /\ stale' = IF t \in Range(signals') \/ InHand(t) THEN stale \cup {t} ELSE stale \ {t}

\* ExpirationTime: the clock plus the duration, in units of the resolution.
ExpireTime(ms) ==
    ((now + ms) \div Resolution + (IF RoundUp THEN 1 ELSE 0)) * Resolution

\* The front of the free list, or a timer created now (all of these are alike).
PickTimer(t) ==
    IF freetimers = << >>
    THEN /\ timer[t].etep = None /\ t = CHOOSE u \in Timers : timer[u].etep = None
         /\ UNCHANGED freetimers
    ELSE t = Head(freetimers) /\ freetimers' = Tail(freetimers)

\* The tail of _registerTimer: the entry is added to both maps.
AddEntry(i, ms, et, t) ==
    /\ etmap' = Put(etmap, et,
                    [entries |-> {i} \cup (IF et \in DOMAIN etmap THEN etmap[et].entries ELSE {}),
                     timer |-> t])
    /\ etidmap' = Put(etidmap, i, et)
    /\ fate' = [fate EXCEPT ![i] = "registered"]
    /\ due' = [due EXCEPT ![i] = now + ms]

\* _registerTimer, for the next id.
Register(i, ms) ==
    LET et == ExpireTime(ms) IN
    /\ et \in Times
    /\ fate[i] = "unused" /\ \A j \in 1 .. i - 1 : fate[j] # "unused"
    /\ IF et \in DOMAIN etmap
       THEN AddEntry(i, ms, et, etmap[et].timer) /\ UNCHANGED timers
       ELSE \E t \in Timers :
                PickTimer(t) /\ Settime(t, et, et) /\ AddEntry(i, ms, et, t)

\* Faulty variant: the entry stays in the map.
RemoveTimerOnly(et) ==
    LET t == etmap[et].timer IN
    /\ SetEntries(et, {})
    /\ Settime(t, Off, None)
    /\ freetimers' = Append(freetimers, t)

\* Faulty variant: the timer is not stopped.
RemoveWithoutStop(et) ==
    LET t == etmap[et].timer IN
    /\ etmap' = Drop(etmap, et)
    /\ timer' = [timer EXCEPT ![t] = [at |-> timer[t].at, etep |-> None]]
    /\ stale' = IF t \in Range(signals) \/ InHand(t) THEN stale \cup {t} ELSE stale
    /\ freetimers' = Append(freetimers, t)
    /\ UNCHANGED signals

\* removeExpirationTimeEntry, for an entry without registrations.
RemoveExpirationTimeEntry(et) ==
    LET t == etmap[et].timer IN
    /\ etmap' = Drop(etmap, et)
    /\ Settime(t, Off, None)
    /\ freetimers' = Append(freetimers, t)

\* Faulty variant: the registration stays in its entry.
UnregisterIdOnly(i) ==
    /\ etidmap' = Drop(etidmap, i)
    /\ fate' = IF i \in DOMAIN etidmap THEN [fate EXCEPT ![i] = "unregistered"] ELSE fate
    /\ UNCHANGED <<etmap, due, timers>>

\* unregisterTimer.  An id that is not in the map is ignored.
Unregister(i) ==
    IF i \notin DOMAIN etidmap THEN UNCHANGED <<maps, timers>>
    ELSE LET et == etidmap[i] IN
         /\ etidmap' = Drop(etidmap, i)
         /\ IF etmap[et].entries = {i}
            THEN RemoveExpirationTimeEntry(et)
            ELSE /\ SetEntries(et, etmap[et].entries \ {i})
                 /\ UNCHANGED timers
         /\ fate' = [fate EXCEPT ![i] = "unregistered"]
         /\ UNCHANGED due

-------------------------------------------------------------------------------
(* The clock and the timers. *)

Tick ==
    /\ Alive /\ now < MaxTime /\ now' = now + 1
    /\ UNCHANGED <<maps, timers, threads>>

\* Faulty variant: the signal is lost while the thread does not wait for it.
ExpireUnheard(t) ==
    /\ Alive /\ timer[t].at <= now
    /\ timer' = [timer EXCEPT ![t] = [at |-> Off, etep |-> timer[t].etep]]
    /\ signals' = IF pool.pc # "wait" \/ t \in Range(signals)
                  THEN signals ELSE Append(signals, t)
    /\ UNCHANGED <<now, maps, freetimers, stale, threads>>

\* The timer fires once.  Its signal is queued, unless one of it still is.
Expire(t) ==
    /\ Alive /\ timer[t].at <= now
    /\ timer' = [timer EXCEPT ![t] = [at |-> Off, etep |-> timer[t].etep]]
    /\ signals' = IF t \in Range(signals) THEN signals ELSE Append(signals, t)
    /\ UNCHANGED <<now, maps, freetimers, stale, threads>>

(* The pool's thread: threadProc and sendNotifications. *)

PoolAt(pc, t, isStale) == pool' = [pc |-> pc, timer |-> t, stale |-> isStale]

\* Faulty variant: signals that do not queue, as those below SIGRTMIN.
TakeSignalOfMany ==
    /\ Alive /\ pool.pc = "wait" /\ signals # << >>
    /\ PoolAt("signalled", Head(signals), FALSE)
    /\ signals' = << >>
    /\ UNCHANGED <<now, maps, timer, freetimers, stale, queue, handler, uninit, crashed>>

\* sigwaitinfo returns a timer signal: its number is lower than the quit signal's.
TakeSignal ==
    /\ Alive /\ pool.pc = "wait" /\ signals # << >>
    /\ PoolAt("signalled", Head(signals), FALSE)
    /\ signals' = Tail(signals)
    /\ UNCHANGED <<now, maps, timer, freetimers, stale, queue, handler, uninit, crashed>>

\* The mutex is locked, and only then is the timer's m_etep read.
LockPool ==
    /\ Alive /\ pool.pc = "signalled"
    /\ PoolAt("sending", pool.timer, pool.timer \in stale)
    /\ crashed' = IF timer[pool.timer].etep = None THEN "nullEntry" ELSE crashed
    /\ stale' = IF pool.timer \in Range(signals) THEN stale ELSE stale \ {pool.timer}
    /\ UNCHANGED <<now, maps, timer, freetimers, signals, queue, handler, uninit>>

\* Faulty variant: the message is posted without waiting for room.
NotifyWithoutRoom(i) ==
    LET et == timer[pool.timer].etep IN
    /\ Alive /\ pool.pc = "sending" /\ i \in etmap[et].entries
    /\ queue' = IF i \in CallbackIds THEN queue ELSE Append(queue, i)
    /\ etidmap' = Drop(etidmap, i)
    /\ SetEntries(et, etmap[et].entries \ {i})
    /\ fate' = [fate EXCEPT ![i] = "notified"]
    /\ UNCHANGED <<now, due, timers, pool, handler, uninit, crashed>>

\* One turn of the loop: notify, then erase from both maps.  The order of the
\* unordered map is any order.
Notify(i) ==
    LET et == timer[pool.timer].etep IN
    /\ Alive /\ pool.pc = "sending" /\ i \in etmap[et].entries
    /\ IF i \in CallbackIds THEN UNCHANGED queue
       ELSE Len(queue) < QueueSize /\ queue' = Append(queue, i)
    /\ etidmap' = Drop(etidmap, i)
    /\ SetEntries(et, etmap[et].entries \ {i})
    /\ fate' = [fate EXCEPT ![i] = "notified"]
    /\ UNCHANGED <<now, due, timers, pool, handler, uninit, crashed>>

SendingEnds ==
    LET et == timer[pool.timer].etep IN
    /\ Alive /\ pool.pc = "sending" /\ etmap[et].entries = {}
    /\ RemoveExpirationTimeEntry(et)
    /\ PoolAt("wait", NoTimer, FALSE)
    /\ UNCHANGED <<now, etidmap, fate, due, queue, handler, uninit, crashed>>

\* Faulty variant: uninit does not send the quit signal.
QuitNotSent == FALSE

TakeQuit ==
    /\ Alive /\ pool.pc = "wait" /\ signals = << >> /\ uninit.pc = "join"
    /\ PoolAt("exited", NoTimer, FALSE)
    /\ UNCHANGED <<now, maps, timers, queue, handler, uninit, crashed>>

PoolThread ==
    \/ TakeSignal \/ LockPool \/ SendingEnds \/ TakeQuit
    \/ \E i \in Ids : Notify(i)

(* The threads that use the pool. *)

\* A call of any thread but the event thread and the one that calls uninit.
Call ==
    /\ Alive /\ MutexFree /\ uninit.pc = "running"
    /\ \/ \E i \in Ids, ms \in Durations : Register(i, ms)
       \/ \E i \in DOMAIN etidmap : Unregister(i)
    /\ UNCHANGED <<now, threads>>

\* The event thread pops a message.  Its handler may go on to call the pool.
HandleMessage ==
    /\ Alive /\ handler = "idle" /\ queue # << >>
    /\ queue' = Tail(queue)
    /\ handler' \in {"idle", "calling"}
    /\ UNCHANGED <<now, maps, timers, pool, uninit, crashed>>

\* The handler has the mutex.
HandlerCalls ==
    /\ Alive /\ handler = "calling" /\ MutexFree
    /\ \/ \E i \in Ids : fate[i] # "unused" /\ Unregister(i)
       \/ uninit.pc = "running" /\ \E i \in Ids, ms \in Durations : Register(i, ms)
    /\ handler' = "idle"
    /\ UNCHANGED <<now, pool, queue, uninit, crashed>>

EventThread == HandleMessage \/ HandlerCalls

(* uninit, by a thread of its own.  No thread calls registerTimer any more. *)

UninitAt(pc, id) == uninit' = [pc |-> pc, id |-> id]

\* Faulty variant: if (!m_etidmap.empty()).
UninitTestsOnce ==
    /\ Alive /\ uninit.pc \in {"running", "test"}
    /\ UninitAt(IF uninit.pc = "test" \/ DOMAIN etidmap = {} THEN "join" ELSE "first", 0)
    /\ UNCHANGED <<now, maps, timers, pool, queue, handler, crashed>>

\* while (!m_etidmap.empty()), read without the mutex.
UninitTests ==
    /\ Alive /\ uninit.pc \in {"running", "test"}
    /\ UninitAt(IF DOMAIN etidmap = {} THEN "join" ELSE "first", 0)
    /\ UNCHANGED <<now, maps, timers, pool, queue, handler, crashed>>

\* m_etidmap.begin()->first, read without the mutex: the end of an empty map if
\* the pool's thread erased the last id meanwhile.
UninitReadsFirst ==
    /\ Alive /\ uninit.pc = "first"
    /\ IF DOMAIN etidmap = {} THEN crashed' = "endIterator" /\ UNCHANGED uninit
       ELSE UNCHANGED crashed /\ \E i \in DOMAIN etidmap : UninitAt("unregister", i)
    /\ UNCHANGED <<now, maps, timers, pool, queue, handler>>

UninitUnregisters ==
    /\ Alive /\ uninit.pc = "unregister" /\ MutexFree
    /\ Unregister(uninit.id)
    /\ UninitAt("test", 0)
    /\ UNCHANGED <<now, pool, queue, handler, crashed>>

\* The thread was joined: the timers are deleted with the pool.
UninitDeletes ==
    /\ Alive /\ uninit.pc = "join" /\ pool.pc = "exited"
    /\ UninitAt("done", 0)
    /\ freetimers' = << >>
    /\ UNCHANGED <<now, maps, timer, signals, stale, pool, queue, handler, crashed>>

Uninit == UninitTests \/ UninitReadsFirst \/ UninitUnregisters \/ UninitDeletes

Next ==
    \/ Tick \/ PoolThread \/ Call \/ EventThread \/ Uninit
    \/ \E t \in Timers : Expire(t)

(***************************************************************************)
(* The clock advances, an armed timer fires, and the threads run.  Nobody  *)
(* is obliged to register a timer or to call uninit.                       *)
(***************************************************************************)
Spec ==
    /\ Init /\ [][Next]_vars
    /\ WF_vars(Tick) /\ WF_vars(PoolThread) /\ WF_vars(EventThread)
    /\ WF_vars(uninit.pc # "running" /\ Uninit)
    /\ \A t \in Timers : WF_vars(Expire(t))

-------------------------------------------------------------------------------
\* The type of the pool, of its thread, and of the threads that use it.
TypeOK ==
    /\ now \in Times
    /\ DOMAIN etmap \subseteq Times
    /\ \A et \in DOMAIN etmap : etmap[et] \in [entries : SUBSET Ids, timer : Timers]
    /\ DOMAIN etidmap \subseteq Ids /\ Range(etidmap) \subseteq Times
    /\ timer \in [Timers -> [at : Times \cup {Off}, etep : Times \cup {None}]]
    /\ freetimers \in Seq(Timers) /\ signals \in Seq(Timers)
    /\ pool \in [pc : {"wait", "signalled", "sending", "exited"},
                 timer : Timers \cup {NoTimer}, stale : BOOLEAN]
    /\ queue \in Seq(Ids) /\ Len(queue) <= QueueSize
    /\ handler \in {"idle", "calling"}
    /\ uninit \in [pc : {"running", "test", "first", "unregister", "join", "done"},
                   id : Ids \cup {0}]
    /\ crashed \in {"no", "nullEntry", "endIterator"}
    /\ fate \in [Ids -> {"unused", "registered", "notified", "unregistered"}]
    /\ due \in [Ids -> Nat] /\ stale \subseteq Timers

Sending(et) == pool.pc = "sending" /\ timer[pool.timer].etep = et

\* The two maps, the timers and the free list agree: an id is in the map of ids
\* exactly while it waits, and then its entry has it; an entry and its timer
\* point to each other; a free timer is disarmed, without entry and listed once.
MapsAgree ==
    /\ DOMAIN etidmap = {i \in Ids : fate[i] = "registered"}
    /\ \A i \in Ids, et \in Times :
          (i \in DOMAIN etidmap /\ etidmap[i] = et)
             <=> (et \in DOMAIN etmap /\ i \in etmap[et].entries)
    /\ \A et \in DOMAIN etmap :
          /\ timer[etmap[et].timer].etep = et
          /\ etmap[et].entries = {} => Sending(et)
    /\ \A t \in Timers : timer[t].etep # None =>
          timer[t].etep \in DOMAIN etmap /\ etmap[timer[t].etep].timer = t
    /\ IsInjective(freetimers)
    /\ \A t \in Range(freetimers) : timer[t] = [at |-> Off, etep |-> None]

\* No registration is forgotten: its entry's timer is armed for its time, or has
\* a signal on its way to the thread, or is being handled.
EntriesCovered ==
    \A et \in DOMAIN etmap : LET t == etmap[et].timer IN
        timer[t].at = et \/ t \in Range(signals) \/ pool.timer = t

\* sendNotifications is called without an entry only by a signal that was in
\* flight when its timer's last registration was removed.
NullEntryNeedsStaleSignal == crashed = "nullEntry" => pool.stale

\* After uninit no registration is left, and no timer that could still fire.
UninitLeavesNothing ==
    uninit.pc = "done" =>
        /\ DOMAIN etmap = {} /\ DOMAIN etidmap = {}
        /\ \A t \in Timers : timer[t].at = Off
        /\ \A i \in Ids : fate[i] # "registered"

\* The time from which the notification of i is not early.  Rounding down makes
\* it early by less than the resolution, rounding up never does.
NotBefore(i) == due[i] - (IF RoundUp THEN 0 ELSE Resolution - 1)

\* A registration is notified once, not after it was unregistered, and not before
\* it is due, unless the signal belongs to an earlier use of its timer.
NoticesJustified ==
    [][\A i \in Ids : fate'[i] = "notified" /\ fate[i] # "notified" =>
          fate[i] = "registered" /\ (now >= NotBefore(i) \/ pool.stale)]_vars

\* The thread waits for room in the queue with the mutex locked, and the handler
\* of the thread that would make room waits for the mutex.
MutualWait ==
    /\ Alive /\ pool.pc = "sending"
    /\ handler = "calling" /\ Len(queue) = QueueSize
    /\ etmap[timer[pool.timer].etep].entries \ CallbackIds # {}

\* Every registration is notified or unregistered, unless the pool crashed or the
\* mutual wait has come about.
TimersSettle ==
    \A i \in Ids :
        fate[i] = "registered" ~> (fate[i] # "registered" \/ MutualWait \/ ~Alive)

\* uninit returns, with the same exceptions.
UninitEnds ==
    uninit.pc # "running" ~> (uninit.pc = "done" \/ MutualWait \/ ~Alive)
===============================================================================
