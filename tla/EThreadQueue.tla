----------------------------- MODULE EThreadQueue -----------------------------
(***************************************************************************)
(* The bounded event queue of a thread or of a work group:                 *)
(* EThreadQueueBase<T> of etevent.h over two ESemaphores and an EMutex.    *)
(*                                                                         *)
(* push takes a free slot (semFree), stores the message at the head under  *)
(* the mutex and announces it (semMsgs).  pop takes a message (semMsgs),   *)
(* copies it from the tail - under the mutex only when the queue allows    *)
(* several readers - and returns the slot (semFree).                       *)
(*                                                                         *)
(* How a queue is used is fixed when it is made: all pushes pass the same  *)
(* value of wait and so do all pops, and init() is told whether several    *)
(* readers may attach.  An event thread pops with wait = True, a socket    *)
(* thread with wait = False, and a work group has several readers.         *)
(***************************************************************************)
EXTENDS Integers, Sequences, FiniteSets

CONSTANTS
    Producers,      \* threads that push
    Consumers,      \* objects attached for reading, one thread each
    Msgs,           \* the messages
    MsgCnt,         \* m_msgCnt, the number of slots
    Usages,         \* the usages to consider
    SEM_VALUE_MAX,  \* the largest value of a kernel semaphore
    NoMsg,          \* a slot never written
    NoThread        \* nobody holds the mutex

Threads == Producers \cup Consumers

ASSUME QueueAssumption ==
    /\ IsFiniteSet(Producers) /\ IsFiniteSet(Consumers)
    /\ Producers \cap Consumers = {}
    /\ MsgCnt \in Nat \ {0}
    /\ SEM_VALUE_MAX \in Nat /\ Cardinality(Threads) <= SEM_VALUE_MAX
    /\ Usages \subseteq [push : BOOLEAN, pop : BOOLEAN, multipleReaders : BOOLEAN]
    /\ NoMsg \notin Msgs
    /\ NoThread \notin Threads

VARIABLES
    usage,           \* the values of wait for push and pop, and m_multipleReaders
    readers,         \* the objects attached for reading (m_numReaders of them)
    freeCnt, freeSem,\* semFree()
    msgsCnt, msgsSem,\* semMsgs()
    mutex,           \* the holder of mutex()
    slot,            \* data()
    head,            \* m_head, next location to write
    tail,            \* m_tail, next location to read
    arg,             \* the message each producer is pushing, NoMsg outside push
    got,             \* the message a pop has copied out, NoMsg outside pop
    pc,              \* where each thread is in push or pop
    fifo             \* history: the messages stored and not yet copied out

freeVars == <<freeCnt, freeSem>>
msgsVars == <<msgsCnt, msgsSem>>
ringVars == <<slot, head, tail, fifo>>
setup == <<usage, readers>>
vars == <<setup, freeVars, msgsVars, mutex, ringVars, arg, got, pc>>

semFree == INSTANCE ESemaphoreData WITH currCount <- freeCnt, sem <- freeSem
semMsgs == INSTANCE ESemaphoreData WITH currCount <- msgsCnt, sem <- msgsSem

ProducerPlaces ==
    {"idle", "freeWait", "freeUndo", "lock", "store", "unlock",
     "msgsInc", "msgsPost", "threw"}
ConsumerPlaces ==
    {"idle", "msgsWait", "msgsUndo", "readLock", "read", "freeInc",
     "freePost", "release", "releaseThrow", "threw"}

At(L) == {t \in Threads : pc[t] \in L}

Slots == 0 .. MsgCnt - 1

\* m_head++ or m_tail++ with the wrap to zero that follows.
Wrap(i) == IF i + 1 >= MsgCnt THEN 0 ELSE i + 1

\* The slot of the k-th message after the tail.
Ahead(k) == IF tail + k >= MsgCnt THEN tail + k - MsgCnt ELSE tail + k

\* EThreadQueueBase::init.
Init ==
    /\ usage \in Usages
    /\ readers = {}
    /\ semFree!SemInit(MsgCnt)
    /\ semMsgs!SemInit(0)
    /\ mutex = NoThread
    /\ slot = [i \in Slots |-> NoMsg]
    /\ head = 0 /\ tail = 0
    /\ arg = [p \in Producers |-> NoMsg]
    /\ got = [c \in Consumers |-> NoMsg]
    /\ pc = [t \in Threads |-> "idle"]
    /\ fifo = << >>

Goto(t, l) == pc' = [pc EXCEPT ![t] = l]

\* Faulty variant of Attach: a second reader is let in.
AttachUnchecked(c) ==
    /\ c \notin readers
    /\ mutex = NoThread
    /\ readers' = readers \cup {c}
    /\ UNCHANGED <<usage, freeVars, msgsVars, mutex, ringVars, arg, got, pc>>

\* attach(): a second reader is refused unless the queue allows several.
Attach(c) ==
    /\ c \notin readers
    /\ mutex = NoThread
    /\ usage.multipleReaders \/ readers = {}
    /\ readers' = readers \cup {c}
    /\ UNCHANGED <<usage, freeVars, msgsVars, mutex, ringVars, arg, got, pc>>

-------------------------------------------------------------------------------
\* push: semFree().Decrement(wait).
Push(p, m) ==
    /\ pc[p] = "idle"
    /\ arg' = [arg EXCEPT ![p] = m]
    /\ \/ semFree!DecAdmitted /\ Goto(p, "lock")
       \/ semFree!DecRefused /\ Goto(p, IF usage.push THEN "freeWait" ELSE "freeUndo")
    /\ UNCHANGED <<setup, msgsVars, mutex, ringVars, got>>

\* push asleep in semFree().Decrement gets a token.
PushWake(p) ==
    /\ pc[p] = "freeWait"
    /\ semFree!SemWait
    /\ Goto(p, "lock")
    /\ UNCHANGED <<setup, msgsVars, mutex, ringVars, arg, got>>

\* semFree().Decrement refused: push returns False.
PushRefused(p) ==
    /\ pc[p] = "freeUndo"
    /\ semFree!DecUndo
    /\ Goto(p, "idle")
    /\ arg' = [arg EXCEPT ![p] = NoMsg]
    /\ UNCHANGED <<setup, msgsVars, mutex, ringVars, got>>

\* EMutexLock l(mutex()): the compare-and-swap that succeeds.
PushLock(p) ==
    /\ pc[p] = "lock"
    /\ mutex = NoThread
    /\ mutex' = p
    /\ Goto(p, "store")
    /\ UNCHANGED <<setup, freeVars, msgsVars, ringVars, arg, got>>

\* Faulty variant of PushStore: the head wraps one slot late.
PushStoreWrapsLate(p) ==
    /\ pc[p] = "store"
    /\ slot' = [i \in Slots |-> IF i = head THEN arg[p] ELSE slot[i]]
    /\ head' = IF head + 1 > MsgCnt THEN 0 ELSE head + 1
    /\ fifo' = Append(fifo, arg[p])
    /\ Goto(p, "unlock")
    /\ UNCHANGED <<setup, freeVars, msgsVars, mutex, tail, got, arg>>

\* data()[msgHead()] = msg; msgHead()++ and the wrap.
PushStore(p) ==
    /\ pc[p] = "store"
    /\ slot' = [slot EXCEPT ![head] = arg[p]]
    /\ head' = Wrap(head)
    /\ fifo' = Append(fifo, arg[p])
    /\ Goto(p, "unlock")
    /\ UNCHANGED <<setup, freeVars, msgsVars, mutex, tail, got, arg>>

\* The end of the EMutexLock's scope.
PushUnlock(p) ==
    /\ pc[p] = "unlock"
    /\ mutex' = NoThread
    /\ Goto(p, "msgsInc")
    /\ UNCHANGED <<setup, freeVars, msgsVars, ringVars, arg, got>>

\* semMsgs().Increment(), up to its sem_post.
PushAnnounce(p) ==
    /\ pc[p] = "msgsInc"
    /\ \/ semMsgs!IncDone /\ Goto(p, "idle") /\ arg' = [arg EXCEPT ![p] = NoMsg]
       \/ semMsgs!IncOwesPost /\ Goto(p, "msgsPost") /\ UNCHANGED arg
    /\ UNCHANGED <<setup, freeVars, mutex, ringVars, got>>

\* Faulty variant of PushPost: the token is dropped.
PushPostDropped(p) ==
    /\ pc[p] = "msgsPost"
    /\ Goto(p, "idle")
    /\ arg' = [arg EXCEPT ![p] = NoMsg]
    /\ UNCHANGED <<setup, freeVars, msgsVars, mutex, ringVars, got>>

\* The sem_post of semMsgs().Increment(); push returns True.
PushPost(p) ==
    /\ pc[p] = "msgsPost"
    /\ semMsgs!SemPost
    /\ Goto(p, "idle")
    /\ arg' = [arg EXCEPT ![p] = NoMsg]
    /\ UNCHANGED <<setup, freeVars, mutex, ringVars, got>>

\* That sem_post fails: the exception leaves push with the message stored.
PushPostThrows(p) ==
    /\ pc[p] = "msgsPost"
    /\ semMsgs!SemPostFails
    /\ Goto(p, "threw")
    /\ UNCHANGED <<setup, freeVars, mutex, ringVars, arg, got>>

-------------------------------------------------------------------------------
\* pop: semMsgs().Decrement(wait).
Pop(c) ==
    /\ c \in readers
    /\ pc[c] = "idle"
    /\ \/ semMsgs!DecAdmitted /\ Goto(c, "readLock")
       \/ semMsgs!DecRefused /\ Goto(c, IF usage.pop THEN "msgsWait" ELSE "msgsUndo")
    /\ UNCHANGED <<setup, freeVars, mutex, ringVars, arg, got>>

\* pop asleep in semMsgs().Decrement gets a token.
PopWake(c) ==
    /\ pc[c] = "msgsWait"
    /\ semMsgs!SemWait
    /\ Goto(c, "readLock")
    /\ UNCHANGED <<setup, freeVars, mutex, ringVars, arg, got>>

\* semMsgs().Decrement refused: pop returns False.
PopRefused(c) ==
    /\ pc[c] = "msgsUndo"
    /\ semMsgs!DecUndo
    /\ Goto(c, "idle")
    /\ UNCHANGED <<setup, freeVars, mutex, ringVars, arg, got>>

\* if (multipleReaders()) l.acquire();
PopLock(c) ==
    /\ pc[c] = "readLock"
    /\ usage.multipleReaders => mutex = NoThread
    /\ mutex' = IF usage.multipleReaders THEN c ELSE mutex
    /\ Goto(c, "read")
    /\ UNCHANGED <<setup, freeVars, msgsVars, ringVars, arg, got>>

\* msg = data()[msgTail()++] and the wrap.  The copy takes as long as the thread
\* stays at "read": NoSlotRace says that nobody writes the slot meanwhile.
PopRead(c) ==
    /\ pc[c] = "read"
    /\ got' = [got EXCEPT ![c] = slot[tail]]
    /\ tail' = Wrap(tail)
    /\ fifo' = IF fifo = << >> THEN << >> ELSE Tail(fifo)
    /\ Goto(c, "freeInc")
    /\ UNCHANGED <<setup, freeVars, msgsVars, mutex, slot, head, arg>>

\* Faulty variant of PopFree: the slot is returned twice.
PopFreeTwice(c) ==
    /\ pc[c] = "freeInc"
    /\ freeCnt' = freeCnt + 2
    /\ Goto(c, "release")
    /\ UNCHANGED <<setup, freeSem, msgsVars, mutex, ringVars, arg, got>>

\* semFree().Increment(), up to its sem_post.
PopFree(c) ==
    /\ pc[c] = "freeInc"
    /\ \/ semFree!IncDone /\ Goto(c, "release")
       \/ semFree!IncOwesPost /\ Goto(c, "freePost")
    /\ UNCHANGED <<setup, msgsVars, mutex, ringVars, arg, got>>

\* Faulty variant of PopPost: the token is dropped.
PopPostDropped(c) ==
    /\ pc[c] = "freePost"
    /\ Goto(c, "release")
    /\ UNCHANGED <<setup, freeVars, msgsVars, mutex, ringVars, arg, got>>

\* The sem_post of semFree().Increment().
PopPost(c) ==
    /\ pc[c] = "freePost"
    /\ semFree!SemPost
    /\ Goto(c, "release")
    /\ UNCHANGED <<setup, msgsVars, mutex, ringVars, arg, got>>

\* That sem_post fails: the exception unwinds the EMutexLock.
PopPostThrows(c) ==
    /\ pc[c] = "freePost"
    /\ semFree!SemPostFails
    /\ Goto(c, "releaseThrow")
    /\ UNCHANGED <<setup, msgsVars, mutex, ringVars, arg, got>>

\* The end of the EMutexLock's scope, if it was acquired; pop returns or throws,
\* and its caller dispatches the message.
PopUnlock(c) ==
    /\ pc[c] \in {"release", "releaseThrow"}
    /\ mutex' = IF usage.multipleReaders THEN NoThread ELSE mutex
    /\ Goto(c, IF pc[c] = "release" THEN "idle" ELSE "threw")
    /\ got' = [got EXCEPT ![c] = NoMsg]
    /\ UNCHANGED <<setup, freeVars, msgsVars, ringVars, arg>>

\* A signal breaks the sem_wait of a push or a pop (EINTR): Decrement fails.
Interrupted(t) ==
    /\ pc[t] \in {"freeWait", "msgsWait"}
    /\ Goto(t, IF pc[t] = "freeWait" THEN "freeUndo" ELSE "msgsUndo")
    /\ UNCHANGED <<setup, freeVars, msgsVars, mutex, ringVars, arg, got>>

-------------------------------------------------------------------------------
\* The steps of a push that has begun, which end it.
PushSteps(p) ==
    \/ PushWake(p) \/ PushRefused(p) \/ PushLock(p) \/ PushStore(p)
    \/ PushUnlock(p) \/ PushAnnounce(p) \/ PushPost(p) \/ PushPostThrows(p)

\* The steps of a pop.
PopSteps(c) ==
    \/ Pop(c) \/ PopWake(c) \/ PopRefused(c) \/ PopLock(c) \/ PopRead(c)
    \/ PopFree(c) \/ PopPost(c) \/ PopPostThrows(c) \/ PopUnlock(c)

Next ==
    \/ \E c \in Consumers : Attach(c) \/ PopSteps(c)
    \/ \E p \in Producers : PushSteps(p) \/ \E m \in Msgs : Push(p, m)

(***************************************************************************)
(* A reader pops for ever (pumpMessages) and every operation that has      *)
(* begun is scheduled until it ends.  Nothing obliges anybody to push.     *)
(***************************************************************************)
Spec ==
    /\ Init /\ [][Next]_vars
    /\ \A p \in Producers : WF_vars(PushSteps(p))
    /\ \A c \in Consumers : WF_vars(PopSteps(c))

\* The same threads when signals are handled while they sleep.
SpecSignals == Init /\ [][Next \/ \E t \in Threads : Interrupted(t)]_vars

-------------------------------------------------------------------------------
\* The type of the shared memory of the queue and of its threads.
TypeOK ==
    /\ usage \in Usages
    /\ readers \in SUBSET Consumers
    /\ freeCnt \in Int /\ freeSem \in 0 .. SEM_VALUE_MAX
    /\ msgsCnt \in Int /\ msgsSem \in 0 .. SEM_VALUE_MAX
    /\ mutex \in Threads \cup {NoThread}
    /\ slot \in [Slots -> Msgs \cup {NoMsg}]
    /\ head \in Slots /\ tail \in Slots
    /\ arg \in [Producers -> Msgs \cup {NoMsg}]
    /\ got \in [Consumers -> Msgs \cup {NoMsg}]
    /\ pc \in [Threads -> ProducerPlaces \cup ConsumerPlaces]
    /\ \A p \in Producers : pc[p] \in ProducerPlaces
    /\ \A c \in Consumers : pc[c] \in ConsumerPlaces
    /\ fifo \in Seq(Msgs)

\* push never writes the slot that a pop is copying out, although a single reader
\* copies without the mutex, and no two threads move m_tail or m_head at a time.
NoSlotRace ==
    /\ \A p \in Producers, c \in Consumers :
          pc[p] = "store" /\ pc[c] = "read" => head # tail
    /\ \A s, t \in Threads :
          pc[s] = pc[t] /\ pc[s] \in {"store", "read"} => s = t

\* The ring holds exactly the messages pushed and not yet popped, oldest at the
\* tail: m_head and m_tail never pass each other, although neither is compared
\* with the other anywhere in the code.
RingMatches ==
    /\ Len(fifo) <= MsgCnt
    /\ head = Ahead(Len(fifo))
    /\ \A k \in 1 .. Len(fifo) : slot[Ahead(k - 1)] = fifo[k]

\* A message or a free slot is promised only to as many threads as there are:
\* the messages stored cover the pops admitted, and the slots cover the pushes
\* admitted, the messages stored and the slots about to be returned.
CreditsCovered ==
    /\ Cardinality(At({"readLock", "read"})) <= Len(fifo)
    /\ Cardinality(At({"lock", "store", "freeInc"})) + Len(fifo) <= MsgCnt

\* The queue of etevent.h is a bounded FIFO: each pop that returns True delivers
\* the oldest message not yet delivered.
FIFO == INSTANCE BoundedFIFO WITH q <- fifo, Capacity <- MsgCnt
ImplementsFIFO == FIFO!Spec

Sleepable == usage.push /\ usage.pop

\* A message in a queue with a reader is eventually popped.
Delivered ==
    \A i \in Slots :
        (Sleepable /\ readers # {} /\ fifo # << >> /\ tail = i) ~> (tail # i)

\* When a push sleeps on a full queue that has a reader, some push eventually
\* stores its message: the returned slot wakes a sleeper.
PushesProceed ==
    \A i \in Slots :
        (Sleepable /\ readers # {} /\ At({"freeWait"}) # {} /\ head = i) ~> (head # i)

\* A pop that returns True delivers a message that was pushed (etevent.h, pop:
\* "True indicates that a message was successfully popped from the queue").
PopDeliversPushed == \A c \in Consumers : pc[c] = "read" => fifo # << >>
===============================================================================
