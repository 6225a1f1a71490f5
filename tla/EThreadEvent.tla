----------------------------- MODULE EThreadEvent -----------------------------
(***************************************************************************)
(* Event threads and work groups (etevent.h, etbasic.cpp): threads that    *)
(* take messages from one queue until they take EM_QUIT, and the calls     *)
(* that suspend, resume, add, quit and join them.                          *)
(*                                                                         *)
(* An EThreadEvent is one thread, which can be suspended; the workers of   *)
(* an EThreadEventWorkGroup share a queue, and workers can be added.  The  *)
(* queue does what BoundedFIFO says; EThreadQueue is how.                  *)
(*                                                                         *)
(* Both kinds may have event timers, whose signal handler is installed     *)
(* without SA_RESTART and runs on any thread: it breaks the wait of a push *)
(* on a full queue, so that the message is lost, and the suspension of a   *)
(* thread.  A pop on an empty queue that it breaks is tried again.  When   *)
(* it breaks the wait of a push or a pop whose token was already owed, the *)
(* token is left over and the queue is no FIFO any more (EThreadQueue,     *)
(* PopDeliversPushed): the model goes up to there, as up to a crash.       *)
(***************************************************************************)
EXTENDS Integers, Sequences, FiniteSets

CONSTANTS
    Callers,      \* the threads that make calls
    Main,         \* the one that calls quit and join
    MinWorkers,   \* m_minWorkers of a work group
    MaxWorkers,   \* m_maxWorkers of a work group
    QueueSize,
    MaxPosts,     \* bound: the messages posted
    MaxSuspends,  \* bound: the calls of suspend
    MaxSignals    \* bound: the waits that a signal breaks

ASSUME EventThreadAssumption ==
    /\ IsFiniteSet(Callers) /\ Main \in Callers
    /\ MinWorkers \in Nat \ {0} /\ MaxWorkers \in Nat /\ MinWorkers <= MaxWorkers
    /\ QueueSize \in Nat \ {0} /\ MaxPosts \in Nat
    /\ MaxSuspends \in Nat /\ MaxSignals \in Nat

VARIABLES
    kind,      \* "thread" or "group"
    queue,     \* m_queue
    thread,    \* m_workers, and what each thread does; "none" is a null pointer
    actv,      \* m_actvWorkers
    cnt,       \* m_suspendCnt
    sem,       \* the count of m_suspendSem
    tokens,    \* what was posted for its sleeper
    call,      \* the call each caller is in, and its index
    crashed,   \* a null worker was used
    strayed,   \* a broken wait has left a token of the queue over
    holds,     \* history: suspensions of each caller not yet resumed
    suspends,  \* history: the calls of suspend
    epoch,     \* history: how often cnt left 0
    posts,     \* history: messages posted
    signals,   \* history: waits that a signal broke
    surplus,   \* history: those that lost an EM_SUSPEND, or ended a suspension
    lostQuits, \* history: those that lost an EM_QUIT
    overlap    \* history: addWorker ran at the same time as quit or join

suspension == <<sem, tokens, surplus>>
uses == <<cnt, holds, suspends, epoch>>
sync == <<suspension, uses>>
group == <<actv, overlap>>
faults == <<crashed, strayed, signals, lostQuits>>
vars == <<kind, queue, thread, call, faults, posts, sync, group>>

Size == IF kind = "group" THEN MaxWorkers ELSE 1
Slots == 1 .. (IF MaxWorkers > 1 THEN MaxWorkers ELSE 1)

Init ==
    /\ kind \in {"thread", "group"}
    /\ actv = IF kind = "group" THEN MinWorkers ELSE 1
    /\ thread = [i \in Slots |-> IF i <= actv THEN "pump" ELSE "none"]
    /\ queue = << >> /\ cnt = 0 /\ sem = 0 /\ tokens = 0
    /\ call = [c \in Callers |-> [pc |-> "none", i |-> 0]]
    /\ crashed = FALSE /\ strayed = FALSE /\ holds = [c \in Callers |-> 0]
    /\ suspends = 0 /\ epoch = 0 /\ posts = 0 /\ overlap = FALSE
    /\ signals = 0 /\ surplus = 0 /\ lostQuits = 0

-------------------------------------------------------------------------------
Quitting == call[Main].pc \in {"quit", "join", "joined"}

\* A user message remembers the suspension under which it was posted (0 if the
\* thread was not told to suspend), and whether quit had been called.
UserMsg ==
    [type |-> "user", late |-> Quitting,
     epoch |-> IF cnt > 0 /\ \A c \in Callers : call[c].pc # "suspend" THEN epoch ELSE 0]
Control(type) == [type |-> type, late |-> Quitting, epoch |-> 0]

\* Faulty variant: push does not wait for room.
PushWithoutRoom(m) == queue' = Append(queue, m)

Push(m) == Len(queue) < QueueSize /\ queue' = Append(queue, m)
Goto(c, pc, i) == call' = [call EXCEPT ![c] = [pc |-> pc, i |-> i]]
Live == ~crashed /\ ~strayed
At(c, pc) == Live /\ call[c].pc = pc

\* m_mutex of the work group is held by a caller of addWorker.
Adding == \E c \in Callers : call[c].pc \in {"create", "run"}

(* The calls of EThreadEvent and EThreadEventWorkGroup. *)

\* sendMessage begins ...
SendMessage(c) ==
    /\ At(c, "none") /\ posts < MaxPosts
    /\ posts' = posts + 1 /\ Goto(c, "send", 0)
    /\ UNCHANGED <<kind, queue, thread, faults, sync, group>>

\* ... and its message is pushed.
PushMessage(c) ==
    /\ At(c, "send")
    /\ Push(UserMsg) /\ Goto(c, "none", 0)
    /\ UNCHANGED <<kind, thread, faults, posts, sync, group>>

\* suspend: atomic_inc(m_suspendCnt) == 1 ...
Suspend(c) ==
    /\ At(c, "none") /\ kind # "group" /\ suspends < MaxSuspends
    /\ cnt' = cnt + 1 /\ suspends' = suspends + 1
    /\ holds' = [holds EXCEPT ![c] = @ + 1]
    /\ IF cnt' = 1 THEN epoch' = epoch + 1 /\ Goto(c, "suspend", 0)
       ELSE UNCHANGED <<epoch, call>>
    /\ UNCHANGED <<kind, queue, thread, faults, posts, suspension, group>>

\* ... sendMessage(EM_SUSPEND)
SendSuspend(c) ==
    /\ At(c, "suspend")
    /\ Push(Control("suspend")) /\ Goto(c, "none", 0)
    /\ UNCHANGED <<kind, thread, faults, posts, sync, group>>

\* Faulty variant: every resume increments the semaphore.
ResumeEach(c) ==
    /\ At(c, "none") /\ holds[c] > 0
    /\ cnt' = cnt - 1
    /\ holds' = [holds EXCEPT ![c] = @ - 1]
    /\ Goto(c, "resume", 0)
    /\ UNCHANGED <<kind, queue, thread, faults, posts, suspension, suspends, epoch, group>>

\* resume, by a caller that has suspended: atomic_dec(m_suspendCnt) == 0 ...
Resume(c) ==
    /\ At(c, "none") /\ holds[c] > 0
    /\ cnt' = cnt - 1
    /\ holds' = [holds EXCEPT ![c] = @ - 1]
    /\ IF cnt' = 0 THEN Goto(c, "resume", 0) ELSE UNCHANGED call
    /\ UNCHANGED <<kind, queue, thread, faults, posts, suspension, suspends, epoch, group>>

\* Faulty variant: a resume before the thread has suspended itself is lost.
IncrementIfSuspended(c) ==
    /\ At(c, "resume")
    /\ sem' = IF thread[1] = "suspended" THEN sem + 1 ELSE sem
    /\ tokens' = IF thread[1] = "suspended" /\ sem + 1 <= 0 THEN tokens + 1 ELSE tokens
    /\ Goto(c, "none", 0)
    /\ UNCHANGED <<kind, queue, thread, faults, posts, surplus, uses, group>>

\* ... m_suspendSem.Increment()
IncrementSem(c) ==
    /\ At(c, "resume") /\ Goto(c, "none", 0)
    /\ sem' = sem + 1
    /\ tokens' = IF sem + 1 <= 0 THEN tokens + 1 ELSE tokens
    /\ UNCHANGED <<kind, queue, thread, faults, posts, surplus, uses, group>>

\* addWorker, with m_mutex: the number of workers is raised ...
AddWorker(c) ==
    /\ At(c, "none") /\ kind = "group" /\ actv < MaxWorkers
    /\ ~Adding
    /\ actv' = actv + 1 /\ overlap' = Quitting
    /\ Goto(c, "create", actv')
    /\ UNCHANGED <<kind, queue, thread, faults, posts, sync>>

\* ... m_workers[idx] = worker ...
CreateWorker(c) ==
    /\ At(c, "create")
    /\ thread' = [thread EXCEPT ![call[c].i] = "waiting"]
    /\ Goto(c, "run", call[c].i)
    /\ UNCHANGED <<kind, queue, faults, posts, sync, group>>

\* ... and its thread runs (EThreadBasic::init waits for that).
RunWorker(c) ==
    /\ At(c, "run")
    /\ thread' = [thread EXCEPT ![call[c].i] = "pump"]
    /\ Goto(c, "none", 0)
    /\ UNCHANGED <<kind, queue, faults, posts, sync, group>>

\* Faulty variant: for (i = 1; i < m_actvWorkers; i++).
QuitFromOne ==
    /\ At(Main, "none") /\ holds[Main] = 0
    /\ Goto(Main, "quit", 1)
    /\ overlap' = Adding
    /\ UNCHANGED <<kind, queue, thread, faults, posts, sync, actv>>

\* quit, with nothing suspended by the caller.
Quit ==
    /\ At(Main, "none") /\ holds[Main] = 0
    /\ Goto(Main, "quit", 0)
    /\ overlap' = Adding
    /\ UNCHANGED <<kind, queue, thread, faults, posts, sync, actv>>

\* for (i = 0; i < m_actvWorkers; i++), read without the mutex, sendMessage(EM_QUIT)
SendQuit ==
    /\ At(Main, "quit") /\ call[Main].i < actv
    /\ Push(Control("quit")) /\ Goto(Main, "quit", call[Main].i + 1)
    /\ UNCHANGED <<kind, thread, faults, posts, sync, group>>

\* quit returns, and join is called.
QuitReturns ==
    /\ At(Main, "quit") /\ call[Main].i >= actv
    /\ Goto(Main, "join", 1)
    /\ UNCHANGED <<kind, queue, thread, faults, posts, sync, group>>

\* Faulty variant: a running thread is not waited for.
JoinWithoutWait ==
    LET i == call[Main].i IN
    /\ At(Main, "join") /\ i <= Size
    /\ IF thread[i] = "none" THEN crashed' = TRUE /\ UNCHANGED call
       ELSE Goto(Main, "join", i + 1) /\ UNCHANGED crashed
    /\ UNCHANGED <<kind, queue, thread, strayed, signals, lostQuits, posts, sync, group>>

\* join goes through all of m_workers.  A thread that is not running is not waited
\* for, and a null pointer is not tested for.
Join ==
    LET i == call[Main].i IN
    /\ At(Main, "join") /\ i <= Size
    /\ IF thread[i] = "none" THEN crashed' = TRUE /\ UNCHANGED call
       ELSE /\ thread[i] \in {"waiting", "done"}
            /\ Goto(Main, "join", i + 1) /\ UNCHANGED crashed
    /\ UNCHANGED <<kind, queue, thread, strayed, signals, lostQuits, posts, sync, group>>

JoinReturns ==
    /\ At(Main, "join") /\ call[Main].i > Size
    /\ Goto(Main, "joined", 0)
    /\ UNCHANGED <<kind, queue, thread, faults, posts, sync, group>>

(* The threads: pumpMessages. *)

Turns(i, st) == thread' = [thread EXCEPT ![i] = st]

\* pumpMessage: the first message is taken and dispatched.  Of a suspension,
\* m_suspendSem.Decrement() has begun.
PumpMessage(i) ==
    /\ Live /\ thread[i] = "pump" /\ queue # << >>
    /\ queue' = Tail(queue)
    /\ \/ Head(queue).type = "user" /\ Turns(i, "handling") /\ UNCHANGED sem
       \/ Head(queue).type = "quit" /\ Turns(i, "done") /\ UNCHANGED sem
       \/ /\ Head(queue).type = "suspend" /\ sem' = sem - 1
          /\ Turns(i, IF sem <= 0 THEN "suspended" ELSE "pump")
    /\ UNCHANGED <<kind, call, faults, posts, tokens, surplus, uses, group>>

\* The handler of the message returns.
HandlerReturns(i) ==
    /\ Live /\ thread[i] = "handling" /\ Turns(i, "pump")
    /\ UNCHANGED <<kind, queue, call, faults, posts, sync, group>>

\* m_suspendSem.Decrement() gets its token.
WakeSem(i) ==
    /\ Live /\ thread[i] = "suspended" /\ tokens > 0
    /\ tokens' = tokens - 1 /\ Turns(i, "pump")
    /\ UNCHANGED <<kind, queue, call, faults, posts, sem, surplus, uses, group>>

-------------------------------------------------------------------------------
(* Signals. *)

Broken == Live /\ signals < MaxSignals /\ signals' = signals + 1

\* Decrement gives its count back and returns False, at which pumpMessages does not
\* look.  A token that was already posted for it stays.
DecrementInterrupted(i) ==
    /\ Broken /\ thread[i] = "suspended"
    /\ sem' = sem + 1 /\ surplus' = surplus + 1 /\ Turns(i, "pump")
    /\ UNCHANGED <<kind, queue, call, crashed, strayed, lostQuits, posts, tokens, uses, group>>

\* The callers inside push.
Pushing ==
    {c \in Callers : call[c].pc \in {"send", "suspend"}}
      \cup {c \in {Main} : call[c].pc = "quit" /\ call[c].i < actv}

\* push sleeps, since every slot is taken or given to another push, and returns
\* False.  suspend and quit do not look at that.
PushInterrupted(c) ==
    /\ Broken /\ c \in Pushing
    /\ Len(queue) + Cardinality(Pushing \ {c}) >= QueueSize
    /\ IF call[c].pc = "quit" THEN Goto(c, "quit", call[c].i + 1) ELSE Goto(c, "none", 0)
    /\ lostQuits' = IF call[c].pc = "quit" THEN lostQuits + 1 ELSE lostQuits
    /\ surplus' = IF call[c].pc = "suspend" THEN surplus + 1 ELSE surplus
    /\ UNCHANGED <<kind, queue, thread, crashed, strayed, posts, sem, tokens, uses,
                   group>>

\* A push that has slept, or a pop, is broken when its token is already owed.
TokenStrays ==
    /\ Broken /\ strayed' = TRUE
    /\ \/ Pushing # {} /\ Len(queue) < QueueSize
       \/ queue # << >> /\ \E i \in Slots : thread[i] = "pump"
    /\ UNCHANGED <<kind, queue, thread, call, crashed, lostQuits, posts, sync, group>>

-------------------------------------------------------------------------------
Thread(i) == PumpMessage(i) \/ HandlerReturns(i) \/ WakeSem(i)

\* The rest of a call that has begun.
GoOn(c) == PushMessage(c) \/ SendSuspend(c) \/ IncrementSem(c) \/ CreateWorker(c) \/ RunWorker(c)

QuitAndJoin == SendQuit \/ QuitReturns \/ Join \/ JoinReturns

Next ==
    \/ \E c \in Callers : SendMessage(c) \/ Suspend(c) \/ Resume(c) \/ AddWorker(c) \/ GoOn(c)
    \/ Quit \/ QuitAndJoin
    \/ \E i \in Slots : Thread(i) \/ DecrementInterrupted(i)
    \/ \E c \in Callers : PushInterrupted(c)
    \/ TokenStrays

(***************************************************************************)
(* The threads run, calls go on, and who has suspended a thread resumes    *)
(* it.  Nobody is obliged to begin any other call.                         *)
(***************************************************************************)
Spec ==
    /\ Init /\ [][Next]_vars
    /\ \A c \in Callers : WF_vars(GoOn(c)) /\ WF_vars(Resume(c))
    /\ WF_vars(QuitAndJoin)
    /\ \A i \in Slots : WF_vars(Thread(i))

-------------------------------------------------------------------------------
\* The type of the threads, of their queue and of the calls.
TypeOK ==
    /\ kind \in {"thread", "group"}
    /\ queue \in Seq([type : {"user", "suspend", "quit"}, late : BOOLEAN, epoch : 0 .. MaxSuspends])
    /\ Len(queue) <= QueueSize
    /\ thread \in [Slots -> {"none", "waiting", "pump", "handling", "suspended", "done"}]
    /\ actv \in 1 .. Size
    /\ cnt \in Nat /\ sem \in Int /\ tokens \in Nat
    /\ call \in [Callers -> [pc : {"none", "send", "suspend", "resume", "create", "run",
                                   "quit", "join", "joined"}, i : 0 .. Size + 1]]
    /\ crashed \in BOOLEAN /\ strayed \in BOOLEAN /\ overlap \in BOOLEAN
    /\ signals \in 0 .. MaxSignals /\ surplus \in Nat /\ lostQuits \in Nat
    /\ holds \in [Callers -> Nat] /\ suspends \in 0 .. MaxSuspends
    /\ epoch \in 0 .. MaxSuspends /\ posts \in 0 .. MaxPosts

Queued(type) == Cardinality({k \in DOMAIN queue : queue[k].type = type})
CallersAt(pc) == Cardinality({c \in Callers : call[c].pc = pc})
ThreadsAt(st) == Cardinality({i \in Slots : thread[i] = st})
One(b) == IF b THEN 1 ELSE 0

\* Each EM_SUSPEND on its way has its resume: the count of the semaphore, from which
\* it will be taken, a resume on its way, or the suspension that lasts.  An
\* EM_SUSPEND that a signal loses, and a suspension that it ends, leave a resume
\* too many.
SuspendBalance ==
    Queued("suspend") + CallersAt("suspend") + surplus
        = sem + CallersAt("resume") + One(cnt > 0)

\* quit posts an EM_QUIT for each worker, and each worker takes one, but for those
\* that signals lose.
QuitsMatch ==
    ~overlap =>
        Queued("quit") + ThreadsAt("done") + lostQuits =
            CASE call[Main].pc = "quit" -> call[Main].i
              [] call[Main].pc \in {"join", "joined"} -> actv
              [] OTHER -> 0

\* "Returns after successfully joining each worker thread" (etevent.h, join): then
\* every worker is done and every message sent before quit was handled.  It fails,
\* on a null pointer, when there are fewer workers than the maximum.
JoinComplete ==
    ~overlap =>
        /\ call[Main].pc = "joined" =>
              /\ \A i \in 1 .. Size : thread[i] = "done"
              /\ \A k \in DOMAIN queue : queue[k].late
        /\ crashed => actv < Size

\* "The thread will not process any more thread messages until the resume() method
\* is called" (etevent.h, suspend): a message sent after suspend returned is not
\* handled in that suspension, unless a signal has lost or ended one.
SuspensionHolds ==
    [][\A i \in Slots :
          thread[i] = "pump" /\ thread'[i] = "handling" /\ cnt > 0 /\ surplus = 0 =>
              Head(queue).epoch # epoch]_vars

\* quit and join return, unless join comes upon a null pointer, a worker is added
\* meanwhile, a signal loses an EM_QUIT or leaves a token over, or a caller that has
\* suspended the thread waits for room in its queue.
QuitAndJoinEnd ==
    \/ call[Main].pc = "quit" ~>
          (call[Main].pc = "joined" \/ crashed \/ overlap \/ lostQuits > 0 \/ strayed)
    \/ <>[](\E c \in Callers : call[c].pc = "send" /\ holds[c] > 0)
===============================================================================
