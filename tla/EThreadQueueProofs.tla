-------------------------- MODULE EThreadQueueProofs --------------------------
(***************************************************************************)
(* The safety of EThreadQueue, proved for any number of producers and      *)
(* readers, any size of the ring and any usage without signals: the two    *)
(* semaphores alone keep push and pop apart, and the queue implements      *)
(* BoundedFIFO.                                                            *)
(***************************************************************************)
EXTENDS EThreadQueue, CountingLemmas

\* The number of producers, and of readers, at a place of L.
NP(L) == Cardinality(Places(Producers, pc, L))
NC(L) == Cardinality(Places(Consumers, pc, L))

Reading == {"read", "freeInc", "freePost", "release", "releaseThrow"}

\* Who holds the mutex, and who may be inside pop.
Owners ==
    /\ \A p \in Producers : pc[p] \in {"store", "unlock"} => mutex = p
    /\ \A c \in Consumers : usage.multipleReaders /\ pc[c] \in Reading => mutex = c
    /\ \A c \in Consumers : c \notin readers => pc[c] = "idle"
    /\ \A c, d \in readers : usage.multipleReaders \/ c = d

\* The messages that threads carry.
Carried ==
    /\ \A p \in Producers : pc[p] # "idle" => arg[p] \in Msgs
    /\ \A c \in Consumers :
          got[c] = NoMsg <=> pc[c] \notin {"freeInc", "freePost", "release", "releaseThrow"}

(***************************************************************************)
(* The account of a semaphore that guards size units: the counter is the   *)
(* size less the threads asleep, those giving their count back, the units  *)
(* in use and those lost to a failed sem_post.  When Decrement sleeps,     *)
(* each sleeper has a token, a post owed or a negative count of its own.   *)
(***************************************************************************)
Account(size, cnt, sem, wait, undo, used, post, lost, sleeps) ==
    /\ cnt = size - wait - undo - used - lost
    /\ sleeps = TRUE =>
          undo = 0 /\ wait = (IF cnt < 0 THEN -cnt ELSE 0) + sem + post
    /\ sleeps = FALSE => wait = 0
    /\ used <= size

\* A slot is in use from the admission of a push until a pop has returned it.
FreeUsed == NP({"lock", "store"}) + Len(fifo) + NC({"freeInc"})

FreeSide ==
    Account(MsgCnt, freeCnt, freeSem, NP({"freeWait"}), NP({"freeUndo"}), FreeUsed,
            NC({"freePost"}), NC({"releaseThrow", "threw"}), usage.push)

\* A stored message is in use while it is not announced, and once it is promised
\* to a pop.
MsgsUsed == NC({"readLock", "read"}) + NP({"unlock", "msgsInc"})

MsgsSide ==
    Account(Len(fifo), msgsCnt, msgsSem, NC({"msgsWait"}), NC({"msgsUndo"}), MsgsUsed,
            NP({"msgsPost"}), NP({"threw"}), usage.pop)

\* The inductive invariant.
IInv == TypeOK /\ Owners /\ Carried /\ FreeSide /\ MsgsSide /\ RingMatches
-------------------------------------------------------------------------------
\* Decrement admits at once.
LEMMA AccountAdmitted ==
    ASSUME NEW size \in Int, NEW cnt \in Int, NEW sem \in Int, NEW wait \in Int,
           NEW undo \in Int,
           NEW used \in Int, NEW post \in Int, NEW lost \in Int, NEW sleeps,
           Account(size, cnt, sem, wait, undo, used, post, lost, sleeps),
           cnt - 1 >= 0, wait >= 0, undo >= 0, lost >= 0, sleeps \in BOOLEAN
    PROVE  Account(size, cnt - 1, sem, wait, undo, used + 1, post, lost, sleeps)
BY DEF Account

\* Decrement goes to sleep.
LEMMA AccountSleep ==
    ASSUME NEW size \in Int, NEW cnt \in Int, NEW sem \in Int, NEW wait \in Int,
           NEW undo \in Int,
           NEW used \in Int, NEW post \in Int, NEW lost \in Int, NEW sleeps,
           Account(size, cnt, sem, wait, undo, used, post, lost, sleeps), cnt - 1 < 0, sleeps = TRUE
    PROVE  Account(size, cnt - 1, sem, wait + 1, undo, used, post, lost, sleeps)
BY DEF Account

\* Decrement is refused and has yet to give its count back.
LEMMA AccountPolled ==
    ASSUME NEW size \in Int, NEW cnt \in Int, NEW sem \in Int, NEW wait \in Int,
           NEW undo \in Int,
           NEW used \in Int, NEW post \in Int, NEW lost \in Int, NEW sleeps,
           Account(size, cnt, sem, wait, undo, used, post, lost, sleeps), cnt - 1 < 0, sleeps = FALSE
    PROVE  Account(size, cnt - 1, sem, wait, undo + 1, used, post, lost, sleeps)
BY DEF Account

\* A sleeper takes a token.
LEMMA AccountWake ==
    ASSUME NEW size \in Int, NEW cnt \in Int, NEW sem \in Int, NEW wait \in Int,
           NEW undo \in Int,
           NEW used \in Int, NEW post \in Int, NEW lost \in Int, NEW sleeps,
           Account(size, cnt, sem, wait, undo, used, post, lost, sleeps),
           sem >= 1, wait >= 1, post >= 0, lost >= 0, sleeps \in BOOLEAN
    PROVE  Account(size, cnt, sem - 1, wait - 1, undo, used + 1, post, lost, sleeps)
BY DEF Account

\* A refused Decrement gives its count back.
LEMMA AccountUndo ==
    ASSUME NEW size \in Int, NEW cnt \in Int, NEW sem \in Int, NEW wait \in Int,
           NEW undo \in Int,
           NEW used \in Int, NEW post \in Int, NEW lost \in Int, NEW sleeps,
           Account(size, cnt, sem, wait, undo, used, post, lost, sleeps), undo >= 1, sleeps \in BOOLEAN
    PROVE  Account(size, cnt + 1, sem, wait, undo - 1, used, post, lost, sleeps)
BY DEF Account

\* Increment finds nobody asleep.
LEMMA AccountReturned ==
    ASSUME NEW size \in Int, NEW cnt \in Int, NEW sem \in Int, NEW wait \in Int,
           NEW undo \in Int,
           NEW used \in Int, NEW post \in Int, NEW lost \in Int, NEW sleeps,
           Account(size, cnt, sem, wait, undo, used, post, lost, sleeps), cnt + 1 >= 1, sleeps \in BOOLEAN
    PROVE  Account(size, cnt + 1, sem, wait, undo, used - 1, post, lost, sleeps)
BY DEF Account

\* Increment has a sleeper to wake.
LEMMA AccountOwesPost ==
    ASSUME NEW size \in Int, NEW cnt \in Int, NEW sem \in Int, NEW wait \in Int,
           NEW undo \in Int,
           NEW used \in Int, NEW post \in Int, NEW lost \in Int, NEW sleeps,
           Account(size, cnt, sem, wait, undo, used, post, lost, sleeps), cnt + 1 < 1, sleeps \in BOOLEAN
    PROVE  Account(size, cnt + 1, sem, wait, undo, used - 1, post + 1, lost, sleeps)
BY DEF Account

\* The token is posted.
LEMMA AccountPost ==
    ASSUME NEW size \in Int, NEW cnt \in Int, NEW sem \in Int, NEW wait \in Int,
           NEW undo \in Int,
           NEW used \in Int, NEW post \in Int, NEW lost \in Int, NEW sleeps,
           Account(size, cnt, sem, wait, undo, used, post, lost, sleeps)
    PROVE  Account(size, cnt, sem + 1, wait, undo, used, post - 1, lost, sleeps)
BY DEF Account

\* The sem_post fails: only when nobody sleeps, for there are fewer threads than
\* tokens that the kernel semaphore can hold.
LEMMA AccountPostFails ==
    ASSUME NEW size \in Int, NEW cnt \in Int, NEW sem \in Int, NEW wait \in Int,
           NEW undo \in Int,
           NEW used \in Int, NEW post \in Int, NEW lost \in Int, NEW sleeps,
           Account(size, cnt, sem, wait, undo, used, post, lost, sleeps),
           NEW max \in Int, sem >= max, wait <= max, post >= 1, sleeps \in BOOLEAN
    PROVE  Account(size, cnt - 1, sem, wait, undo, used, post - 1, lost + 1, sleeps)
BY DEF Account

\* A unit is added, already in use, or removed together with its use.
LEMMA AccountResized ==
    ASSUME NEW size \in Int, NEW cnt \in Int, NEW sem \in Int, NEW wait \in Int,
           NEW undo \in Int,
           NEW used \in Int, NEW post \in Int, NEW lost \in Int, NEW sleeps,
           Account(size, cnt, sem, wait, undo, used, post, lost, sleeps), NEW d \in Int
    PROVE  Account(size + d, cnt, sem, wait, undo, used + d, post, lost, sleeps)
BY DEF Account

\* What the assumptions on the constants say, one fact at a time.
LEMMA Constants ==
    /\ IsFiniteSet(Producers) /\ IsFiniteSet(Consumers)
    /\ Producers \subseteq Threads /\ Consumers \subseteq Threads
    /\ \A t \in Producers : t \notin Consumers
    /\ MsgCnt \in Nat /\ MsgCnt >= 1
    /\ SEM_VALUE_MAX \in Nat
    /\ NoMsg \notin Msgs /\ NoThread \notin Threads
BY QueueAssumption DEF Threads

\* The values of wait and of m_multipleReaders are Boolean.
LEMMA UsageTypes ==
    ASSUME TypeOK
    PROVE  /\ usage.push \in BOOLEAN
           /\ usage.pop \in BOOLEAN
           /\ usage.multipleReaders \in BOOLEAN
BY QueueAssumption DEF TypeOK

\* There are at most SEM_VALUE_MAX producers, and at most as many readers.
LEMMA ThreadsFit ==
    /\ Cardinality(Producers) \in Nat /\ Cardinality(Producers) <= SEM_VALUE_MAX
    /\ Cardinality(Consumers) \in Nat /\ Cardinality(Consumers) <= SEM_VALUE_MAX
<1>1. IsFiniteSet(Threads)
  BY Constants, FS_Union DEF Threads
<1>2. /\ Cardinality(Producers) <= Cardinality(Threads)
      /\ Cardinality(Consumers) <= Cardinality(Threads)
  BY <1>1, Constants, FS_Subset
<1>3. /\ Cardinality(Producers) \in Nat
      /\ Cardinality(Consumers) \in Nat
      /\ Cardinality(Threads) \in Nat
  BY <1>1, Constants, FS_CardinalityType
<1> QED
  BY <1>2, <1>3, QueueAssumption

\* The counts are natural numbers, no larger than SEM_VALUE_MAX.
LEMMA NType ==
    ASSUME NEW L
    PROVE  /\ NP(L) \in Nat /\ NP(L)' \in Nat /\ NP(L) <= SEM_VALUE_MAX
           /\ NC(L) \in Nat /\ NC(L)' \in Nat /\ NC(L) <= SEM_VALUE_MAX
<1>1. /\ NP(L) \in Nat /\ NP(L)' \in Nat /\ NP(L) <= Cardinality(Producers)
      /\ NC(L) \in Nat /\ NC(L)' \in Nat /\ NC(L) <= Cardinality(Consumers)
  BY PlacesCount, Constants DEF NP, NC
<1> QED
  BY <1>1, ThreadsFit, Constants

\* A place where some producer, or reader, is counts at least one.
LEMMA NPPositive ==
    ASSUME NEW p \in Producers, NEW L, pc[p] \in L
    PROVE  NP(L) >= 1
<1>1. NP(L) # 0
  BY PlacesEmpty, Constants DEF NP
<1> QED
  BY <1>1, NType

LEMMA NCPositive ==
    ASSUME NEW c \in Consumers, NEW L, pc[c] \in L
    PROVE  NC(L) >= 1
<1>1. NC(L) # 0
  BY PlacesEmpty, Constants DEF NC
<1> QED
  BY <1>1, NType

\* A producer that moves to l changes the counts of producers accordingly and
\* those of readers not at all.
LEMMA ProducerMove ==
    ASSUME TypeOK, NEW p \in Producers, NEW l, Goto(p, l), NEW L
    PROVE  /\ NP(L)' = NP(L) - Is(pc[p], L) + Is(l, L)
           /\ NC(L)' = NC(L)
<1>1. Moves(Producers, pc, pc', p, pc[p], l)
  BY Constants DEF Moves, Goto, TypeOK
<1>2. NP(L)' = NP(L) - Is(pc[p], L) + Is(l, L)
  BY <1>1, PlacesMove, Constants DEF NP
<1>3. Places(Consumers, pc', L) = Places(Consumers, pc, L)
  BY Constants DEF Places, Goto, TypeOK
<1> QED
  BY <1>2, <1>3 DEF NC

\* Likewise for a reader.
LEMMA ConsumerMove ==
    ASSUME TypeOK, NEW c \in Consumers, NEW l, Goto(c, l), NEW L
    PROVE  /\ NC(L)' = NC(L) - Is(pc[c], L) + Is(l, L)
           /\ NP(L)' = NP(L)
<1>1. Moves(Consumers, pc, pc', c, pc[c], l)
  BY Constants DEF Moves, Goto, TypeOK
<1>2. NC(L)' = NC(L) - Is(pc[c], L) + Is(l, L)
  BY <1>1, PlacesMove, Constants DEF NC
<1>3. Places(Producers, pc', L) = Places(Producers, pc, L)
  BY Constants DEF Places, Goto, TypeOK
<1> QED
  BY <1>2, <1>3 DEF NP

\* The counts that the invariant speaks of, after producer p goes from a to l.
LEMMA ProducerCounts ==
    ASSUME TypeOK, NEW p \in Producers, NEW a, pc[p] = a, NEW l, Goto(p, l)
    PROVE  /\ NP({"freeWait"})' = NP({"freeWait"}) - Is(a, {"freeWait"}) + Is(l, {"freeWait"})
           /\ NP({"freeUndo"})' = NP({"freeUndo"}) - Is(a, {"freeUndo"}) + Is(l, {"freeUndo"})
           /\ NP({"lock", "store"})' = NP({"lock", "store"}) - Is(a, {"lock", "store"})
                                         + Is(l, {"lock", "store"})
           /\ NP({"unlock", "msgsInc"})' = NP({"unlock", "msgsInc"}) - Is(a, {"unlock", "msgsInc"})
                                             + Is(l, {"unlock", "msgsInc"})
           /\ NP({"msgsPost"})' = NP({"msgsPost"}) - Is(a, {"msgsPost"}) + Is(l, {"msgsPost"})
           /\ NP({"threw"})' = NP({"threw"}) - Is(a, {"threw"}) + Is(l, {"threw"})
           /\ \A L : NC(L)' = NC(L)
BY ProducerMove

\* The counts that the invariant speaks of, after reader c goes from a to l.
LEMMA ConsumerCounts ==
    ASSUME TypeOK, NEW c \in Consumers, NEW a, pc[c] = a, NEW l, Goto(c, l)
    PROVE  /\ NC({"msgsWait"})' = NC({"msgsWait"}) - Is(a, {"msgsWait"}) + Is(l, {"msgsWait"})
           /\ NC({"msgsUndo"})' = NC({"msgsUndo"}) - Is(a, {"msgsUndo"}) + Is(l, {"msgsUndo"})
           /\ NC({"readLock", "read"})' = NC({"readLock", "read"}) - Is(a, {"readLock", "read"})
                                            + Is(l, {"readLock", "read"})
           /\ NC({"freeInc"})' = NC({"freeInc"}) - Is(a, {"freeInc"}) + Is(l, {"freeInc"})
           /\ NC({"freePost"})' = NC({"freePost"}) - Is(a, {"freePost"}) + Is(l, {"freePost"})
           /\ NC({"releaseThrow", "threw"})' = NC({"releaseThrow", "threw"})
                                                 - Is(a, {"releaseThrow", "threw"})
                                                 + Is(l, {"releaseThrow", "threw"})
           /\ \A L : NP(L)' = NP(L)
BY ConsumerMove

FreeCounts == <<NP({"freeWait"}), NP({"freeUndo"}), NP({"lock", "store"}),
                NC({"freeInc"}), NC({"freePost"}), NC({"releaseThrow", "threw"})>>

MsgsCounts == <<NP({"unlock", "msgsInc"}), NP({"msgsPost"}), NP({"threw"}),
                NC({"msgsWait"}), NC({"msgsUndo"}), NC({"readLock", "read"})>>

\* The counts as numbers.
LEMMA FreeNumbers ==
    /\ NP({"freeWait"}) \in Nat /\ NP({"freeUndo"}) \in Nat /\ NP({"lock", "store"}) \in Nat
    /\ NC({"freeInc"}) \in Nat /\ NC({"freePost"}) \in Nat
    /\ NC({"releaseThrow", "threw"}) \in Nat
    /\ NP({"freeWait"}) <= SEM_VALUE_MAX
BY NType

LEMMA MsgsNumbers ==
    /\ NP({"unlock", "msgsInc"}) \in Nat /\ NP({"msgsPost"}) \in Nat /\ NP({"threw"}) \in Nat
    /\ NC({"msgsWait"}) \in Nat /\ NC({"msgsUndo"}) \in Nat
    /\ NC({"readLock", "read"}) \in Nat
    /\ NC({"msgsWait"}) <= SEM_VALUE_MAX
BY NType

\* The counters, the units in use and the length of the queue are numbers.
Numeric ==
    /\ freeCnt \in Int /\ freeSem \in Nat /\ freeSem <= SEM_VALUE_MAX
    /\ msgsCnt \in Int /\ msgsSem \in Nat /\ msgsSem <= SEM_VALUE_MAX
    /\ Len(fifo) \in Nat /\ FreeUsed \in Nat /\ MsgsUsed \in Nat
    /\ MsgCnt \in Nat /\ SEM_VALUE_MAX \in Nat
    /\ usage.push \in BOOLEAN /\ usage.pop \in BOOLEAN

LEMMA Numbers ==
    ASSUME TypeOK
    PROVE  Numeric
<1>1. FreeUsed \in Nat /\ MsgsUsed \in Nat
  BY FreeNumbers, MsgsNumbers, Constants DEF FreeUsed, MsgsUsed, TypeOK
<1> QED
  BY <1>1, UsageTypes, Constants DEF TypeOK, Numeric

\* What a step leaves alone stays covered.
LEMMA FreeSideSame ==
    ASSUME FreeSide, UNCHANGED <<usage, freeVars, FreeCounts>>, Len(fifo)' = Len(fifo)
    PROVE  FreeSide'
BY DEF FreeSide, FreeUsed, freeVars, FreeCounts

LEMMA MsgsSideSame ==
    ASSUME MsgsSide, UNCHANGED <<usage, msgsVars, MsgsCounts>>, Len(fifo)' = Len(fifo)
    PROVE  MsgsSide'
BY DEF MsgsSide, MsgsUsed, msgsVars, MsgsCounts

LEMMA RingSame ==
    ASSUME RingMatches, UNCHANGED ringVars
    PROVE  RingMatches'
BY DEF RingMatches, ringVars, Ahead

\* A push that has its slot finds the ring not full.
LEMMA StoreHasRoom ==
    ASSUME IInv, NEW p \in Producers, pc[p] \in {"lock", "store"}
    PROVE  Len(fifo) < MsgCnt
<1>1. Numeric
  BY Numbers DEF IInv
<1>2. NP({"lock", "store"}) >= 1
  BY NPPositive
<1>3. FreeUsed <= MsgCnt
  BY DEF IInv, FreeSide, Account
<1> QED
  BY <1>1, <1>2, <1>3, FreeNumbers DEF FreeUsed, Numeric

\* A pop that has been promised a message finds one, and the oldest is in the slot
\* at the tail.
LEMMA ReadHasMessage ==
    ASSUME IInv, NEW c \in Consumers, pc[c] \in {"readLock", "read"}
    PROVE  /\ Len(fifo) >= 1
           /\ slot[tail] = fifo[1]
           /\ fifo[1] \in Msgs
<1>1. Numeric
  BY Numbers DEF IInv
<1>2. Len(fifo) >= 1
  <2>1. NC({"readLock", "read"}) >= 1
    BY NCPositive
  <2>2. MsgsUsed <= Len(fifo)
    BY DEF IInv, MsgsSide, Account
  <2> QED
    BY <1>1, <2>1, <2>2, MsgsNumbers DEF MsgsUsed, Numeric
<1>3. 1 \in 1 .. Len(fifo) /\ fifo \in Seq(Msgs) /\ tail \in 0 .. MsgCnt - 1
  BY <1>1, <1>2 DEF Numeric, IInv, TypeOK, Slots
<1>4. Ahead(0) = tail
  BY <1>1, <1>3 DEF Ahead, Numeric
<1>5. slot[Ahead(1 - 1)] = fifo[1]
  BY <1>3 DEF IInv, RingMatches
<1> QED
  BY <1>2, <1>3, <1>4, <1>5

\* A wakened push preserves the invariant.
LEMMA PushWakeIInv ==
    ASSUME IInv, NEW p \in Producers, PushWake(p)
    PROVE  IInv'
<1>0. TypeOK /\ Owners /\ Carried /\ FreeSide /\ MsgsSide /\ RingMatches
  BY DEF IInv
<1>n. Numeric
  BY <1>0, Numbers
<1>1. pc[p] = "freeWait" /\ Goto(p, "lock")
  BY <1>0 DEF PushWake, semFree!SemWait
<1>2. TypeOK'
  BY <1>1, <1>0, Constants DEF PushWake, semFree!SemWait, Goto, TypeOK, ProducerPlaces,
     ConsumerPlaces, setup, freeVars, msgsVars, ringVars
<1>3. Owners'
  BY <1>1, <1>0, Constants DEF PushWake, semFree!SemWait, Goto, TypeOK, Owners, Reading,
     setup
<1>4. Carried'
  BY <1>1, <1>0, Constants DEF PushWake, semFree!SemWait, Goto, TypeOK, Carried
<1>5. /\ NP({"freeWait"})' = NP({"freeWait"}) - 1
      /\ NP({"lock", "store"})' = NP({"lock", "store"}) + 1
      /\ UNCHANGED <<NP({"freeUndo"}), NC({"freeInc"}),
                      NC({"freePost"}), NC({"releaseThrow", "threw"})>>
      /\ UNCHANGED MsgsCounts
  BY <1>1, <1>0, ProducerCounts, NType DEF Is, FreeCounts, MsgsCounts
<1>6. FreeSide'
  <2>1. /\ freeCnt' = freeCnt /\ freeSem' = freeSem - 1
        /\ Len(fifo)' = Len(fifo) /\ usage' = usage /\ freeSem >= 1
    BY <1>0, <1>1 DEF PushWake, semFree!SemWait, setup, freeVars, ringVars, TypeOK
  <2>2. NP({"freeWait"}) >= 1
    BY <1>1, NPPositive
  <2>3. FreeUsed' = FreeUsed + 1
    BY <2>1, <1>5, FreeNumbers, <1>n DEF FreeUsed, Numeric
  <2>4. Account(MsgCnt, freeCnt, freeSem - 1, NP({"freeWait"}) - 1, NP({"freeUndo"}),
                      FreeUsed + 1, NC({"freePost"}), NC({"releaseThrow", "threw"}), usage.push)
    BY <2>1, <2>2, <1>0, AccountWake, FreeNumbers, <1>n DEF FreeSide, Numeric
  <2> QED
    BY <2>1, <2>3, <2>4, <1>5 DEF FreeSide
<1>7. MsgsSide'
  BY <1>5, <1>0, MsgsSideSame DEF PushWake, semFree!SemWait, setup, ringVars
<1>8. RingMatches'
  BY <1>0, RingSame DEF PushWake, semFree!SemWait
<1> QED
  BY <1>2, <1>3, <1>4, <1>6, <1>7, <1>8 DEF IInv

\* A refused push preserves the invariant.
LEMMA PushRefusedIInv ==
    ASSUME IInv, NEW p \in Producers, PushRefused(p)
    PROVE  IInv'
<1>0. TypeOK /\ Owners /\ Carried /\ FreeSide /\ MsgsSide /\ RingMatches
  BY DEF IInv
<1>n. Numeric
  BY <1>0, Numbers
<1>1. pc[p] = "freeUndo" /\ Goto(p, "idle")
  BY <1>0 DEF PushRefused, semFree!DecUndo
<1>2. TypeOK'
  BY <1>1, <1>0, Constants DEF PushRefused, semFree!DecUndo, Goto, TypeOK, ProducerPlaces,
     ConsumerPlaces, setup, freeVars, msgsVars, ringVars
<1>3. Owners'
  BY <1>1, <1>0, Constants DEF PushRefused, semFree!DecUndo, Goto, TypeOK, Owners, Reading,
     setup
<1>4. Carried'
  BY <1>1, <1>0, Constants DEF PushRefused, semFree!DecUndo, Goto, TypeOK, Carried
<1>5. /\ NP({"freeUndo"})' = NP({"freeUndo"}) - 1
      /\ UNCHANGED <<NP({"freeWait"}), NP({"lock", "store"}), NC({"freeInc"}),
                      NC({"freePost"}), NC({"releaseThrow", "threw"})>>
      /\ UNCHANGED MsgsCounts
  BY <1>1, <1>0, ProducerCounts, NType DEF Is, FreeCounts, MsgsCounts
<1>6. FreeSide'
  <2>1. /\ freeCnt' = freeCnt + 1 /\ freeSem' = freeSem
        /\ Len(fifo)' = Len(fifo) /\ usage' = usage
    BY <1>0, <1>1 DEF PushRefused, semFree!DecUndo, setup, freeVars, ringVars, TypeOK
  <2>2. NP({"freeUndo"}) >= 1
    BY <1>1, NPPositive
  <2>3. FreeUsed' = FreeUsed
    BY <2>1, <1>5, FreeNumbers, <1>n DEF FreeUsed, Numeric
  <2>4. Account(MsgCnt, freeCnt + 1, freeSem, NP({"freeWait"}), NP({"freeUndo"}) - 1,
                      FreeUsed, NC({"freePost"}), NC({"releaseThrow", "threw"}), usage.push)
    BY <2>1, <2>2, <1>0, AccountUndo, FreeNumbers, <1>n DEF FreeSide, Numeric
  <2> QED
    BY <2>1, <2>3, <2>4, <1>5 DEF FreeSide
<1>7. MsgsSide'
  BY <1>5, <1>0, MsgsSideSame DEF PushRefused, semFree!DecUndo, setup, ringVars
<1>8. RingMatches'
  BY <1>0, RingSame DEF PushRefused, semFree!DecUndo
<1> QED
  BY <1>2, <1>3, <1>4, <1>6, <1>7, <1>8 DEF IInv

\* Taking the mutex for a push preserves the invariant.
LEMMA PushLockIInv ==
    ASSUME IInv, NEW p \in Producers, PushLock(p)
    PROVE  IInv'
<1>0. TypeOK /\ Owners /\ Carried /\ FreeSide /\ MsgsSide /\ RingMatches
  BY DEF IInv
<1>n. Numeric
  BY <1>0, Numbers
<1>1. pc[p] = "lock" /\ Goto(p, "store")
  BY <1>0 DEF PushLock
<1>2. TypeOK'
  BY <1>1, <1>0, Constants DEF PushLock, Goto, TypeOK, ProducerPlaces, ConsumerPlaces,
     setup, freeVars, msgsVars, ringVars
<1>3. Owners'
  BY <1>1, <1>0, Constants DEF PushLock, Goto, TypeOK, Owners, Reading, setup
<1>4. Carried'
  BY <1>1, <1>0, Constants DEF PushLock, Goto, TypeOK, Carried
<1>5. /\ UNCHANGED FreeCounts
      /\ UNCHANGED MsgsCounts
  BY <1>1, <1>0, ProducerCounts, NType DEF Is, FreeCounts, MsgsCounts
<1>6. FreeSide'
  BY <1>5, <1>0, FreeSideSame DEF PushLock, setup, ringVars
<1>7. MsgsSide'
  BY <1>5, <1>0, MsgsSideSame DEF PushLock, setup, ringVars
<1>8. RingMatches'
  BY <1>0, RingSame DEF PushLock
<1> QED
  BY <1>2, <1>3, <1>4, <1>6, <1>7, <1>8 DEF IInv

\* Storing a message preserves the invariant.
LEMMA PushStoreIInv ==
    ASSUME IInv, NEW p \in Producers, PushStore(p)
    PROVE  IInv'
<1>0. TypeOK /\ Owners /\ Carried /\ FreeSide /\ MsgsSide /\ RingMatches
  BY DEF IInv
<1>n. Numeric
  BY <1>0, Numbers
<1>a. Len(fifo) < MsgCnt
  BY StoreHasRoom DEF PushStore
<1>b. arg[p] \in Msgs
  BY <1>0 DEF PushStore, Carried
<1>c. head \in 0 .. MsgCnt - 1 /\ tail \in 0 .. MsgCnt - 1
  BY <1>0 DEF TypeOK, Slots
<1>1. pc[p] = "store" /\ Goto(p, "unlock")
  BY <1>0 DEF PushStore
<1>2. TypeOK'
  <2>1. head' \in Slots
    BY <1>c, Constants DEF PushStore, Wrap, Slots
  <2>2. slot' \in [Slots -> Msgs \cup {NoMsg}]
    BY <1>0, <1>b DEF PushStore, TypeOK
  <2>3. fifo' \in Seq(Msgs)
    BY <1>0, <1>b DEF PushStore, TypeOK
  <2> QED
    BY <1>1, <1>0, <2>1, <2>2, <2>3, Constants
    DEF PushStore, Goto, TypeOK, ProducerPlaces, ConsumerPlaces, setup, freeVars, msgsVars
<1>3. Owners'
  BY <1>1, <1>0, Constants DEF PushStore, Goto, TypeOK, Owners, Reading, setup
<1>4. Carried'
  BY <1>1, <1>0, Constants DEF PushStore, Goto, TypeOK, Carried
<1>5. /\ NP({"lock", "store"})' = NP({"lock", "store"}) - 1
      /\ UNCHANGED <<NP({"freeWait"}), NP({"freeUndo"}), NC({"freeInc"}),
                      NC({"freePost"}), NC({"releaseThrow", "threw"})>>
      /\ NP({"unlock", "msgsInc"})' = NP({"unlock", "msgsInc"}) + 1
      /\ UNCHANGED <<NP({"msgsPost"}), NP({"threw"}), NC({"msgsWait"}),
                      NC({"msgsUndo"}), NC({"readLock", "read"})>>
  BY <1>1, <1>0, ProducerCounts, NType DEF Is, FreeCounts, MsgsCounts
<1>6. FreeSide'
  <2>1. /\ freeCnt' = freeCnt /\ freeSem' = freeSem
        /\ Len(fifo)' = Len(fifo) + 1 /\ usage' = usage
    BY <1>0, <1>1 DEF PushStore, setup, freeVars, ringVars, TypeOK
  <2>2. NP({"lock", "store"}) >= 1
    BY <1>1, NPPositive
  <2>3. FreeUsed' = FreeUsed
    BY <2>1, <1>5, FreeNumbers, <1>n DEF FreeUsed, Numeric
  <2> QED
    BY <2>1, <2>3, <1>5, <1>0 DEF FreeSide
<1>7. MsgsSide'
  <2>1. /\ msgsCnt' = msgsCnt /\ msgsSem' = msgsSem
        /\ Len(fifo)' = Len(fifo) + 1 /\ usage' = usage
    BY <1>0, <1>1 DEF PushStore, setup, msgsVars, ringVars, TypeOK
  <2>3. MsgsUsed' = MsgsUsed + 1
    BY <2>1, <1>5, MsgsNumbers, <1>n DEF MsgsUsed, Numeric
  <2>4. Account(Len(fifo) + 1, msgsCnt, msgsSem, NC({"msgsWait"}), NC({"msgsUndo"}),
                      MsgsUsed + 1, NP({"msgsPost"}), NP({"threw"}), usage.pop)
    BY <2>1, <1>0, AccountResized, MsgsNumbers, <1>n DEF MsgsSide, Numeric
  <2> QED
    BY <2>1, <2>3, <2>4, <1>5 DEF MsgsSide
<1>8. RingMatches'
  <2>1. /\ Len(fifo') = Len(fifo) + 1
        /\ \A k \in 1 .. Len(fifo) : fifo'[k] = fifo[k]
        /\ fifo'[Len(fifo) + 1] = arg[p]
    BY <1>0, <1>b DEF PushStore, TypeOK
  <2>2. tail' = tail /\ head' = Wrap(head) /\ slot' = [slot EXCEPT ![head] = arg[p]]
    BY DEF PushStore
  <2>3. head = Ahead(Len(fifo))
    BY <1>0 DEF RingMatches
  <2>4. head' = Ahead(Len(fifo) + 1)
    BY <1>a, <1>c, <1>n, <2>2, <2>3 DEF Ahead, Wrap, Numeric
  <2>5. \A k \in 1 .. Len(fifo) : Ahead(k - 1) \in Slots /\ Ahead(k - 1) # head
    BY <1>a, <1>c, <1>n, <2>3 DEF Ahead, Numeric, Slots
  <2>6. head \in Slots /\ slot \in [Slots -> Msgs \cup {NoMsg}]
    BY <1>0 DEF TypeOK
  <2>7. ASSUME NEW k \in 1 .. Len(fifo') PROVE slot'[Ahead(k - 1)] = fifo'[k]
    <3>1. CASE k = Len(fifo) + 1
      <4>1. Ahead(k - 1) = head
        BY <3>1, <2>3, <1>n DEF Numeric
      <4> QED
        BY <4>1, <3>1, <2>1, <2>2, <2>6
    <3>2. CASE k \in 1 .. Len(fifo)
      <4>1. slot[Ahead(k - 1)] = fifo[k]
        BY <1>0, <3>2 DEF RingMatches
      <4> QED
        BY <4>1, <3>2, <2>1, <2>2, <2>5, <2>6
    <3> QED
      BY <3>1, <3>2, <2>1, <1>n DEF Numeric
  <2> QED
    BY <1>a, <1>n, <2>1, <2>2, <2>4, <2>7 DEF RingMatches, Ahead, Numeric
<1> QED
  BY <1>2, <1>3, <1>4, <1>6, <1>7, <1>8 DEF IInv

\* Releasing the mutex preserves the invariant.
LEMMA PushUnlockIInv ==
    ASSUME IInv, NEW p \in Producers, PushUnlock(p)
    PROVE  IInv'
<1>0. TypeOK /\ Owners /\ Carried /\ FreeSide /\ MsgsSide /\ RingMatches
  BY DEF IInv
<1>n. Numeric
  BY <1>0, Numbers
<1>1. pc[p] = "unlock" /\ Goto(p, "msgsInc")
  BY <1>0 DEF PushUnlock
<1>2. TypeOK'
  BY <1>1, <1>0, Constants DEF PushUnlock, Goto, TypeOK, ProducerPlaces, ConsumerPlaces,
     setup, freeVars, msgsVars, ringVars
<1>3. Owners'
  BY <1>1, <1>0, Constants DEF PushUnlock, Goto, TypeOK, Owners, Reading, setup
<1>4. Carried'
  BY <1>1, <1>0, Constants DEF PushUnlock, Goto, TypeOK, Carried
<1>5. /\ UNCHANGED FreeCounts
      /\ UNCHANGED MsgsCounts
  BY <1>1, <1>0, ProducerCounts, NType DEF Is, FreeCounts, MsgsCounts
<1>6. FreeSide'
  BY <1>5, <1>0, FreeSideSame DEF PushUnlock, setup, ringVars
<1>7. MsgsSide'
  BY <1>5, <1>0, MsgsSideSame DEF PushUnlock, setup, ringVars
<1>8. RingMatches'
  BY <1>0, RingSame DEF PushUnlock
<1> QED
  BY <1>2, <1>3, <1>4, <1>6, <1>7, <1>8 DEF IInv

\* The token of a push preserves the invariant.
LEMMA PushPostIInv ==
    ASSUME IInv, NEW p \in Producers, PushPost(p)
    PROVE  IInv'
<1>0. TypeOK /\ Owners /\ Carried /\ FreeSide /\ MsgsSide /\ RingMatches
  BY DEF IInv
<1>n. Numeric
  BY <1>0, Numbers
<1>1. pc[p] = "msgsPost" /\ Goto(p, "idle")
  BY <1>0 DEF PushPost, semMsgs!SemPost
<1>2. TypeOK'
  BY <1>1, <1>0, Constants DEF PushPost, semMsgs!SemPost, Goto, TypeOK, ProducerPlaces,
     ConsumerPlaces, setup, freeVars, msgsVars, ringVars
<1>3. Owners'
  BY <1>1, <1>0, Constants DEF PushPost, semMsgs!SemPost, Goto, TypeOK, Owners, Reading,
     setup
<1>4. Carried'
  BY <1>1, <1>0, Constants DEF PushPost, semMsgs!SemPost, Goto, TypeOK, Carried
<1>5. /\ UNCHANGED FreeCounts
      /\ NP({"msgsPost"})' = NP({"msgsPost"}) - 1
      /\ UNCHANGED <<NP({"unlock", "msgsInc"}), NP({"threw"}), NC({"msgsWait"}),
                      NC({"msgsUndo"}), NC({"readLock", "read"})>>
  BY <1>1, <1>0, ProducerCounts, NType DEF Is, FreeCounts, MsgsCounts
<1>6. FreeSide'
  BY <1>5, <1>0, FreeSideSame DEF PushPost, semMsgs!SemPost, setup, ringVars
<1>7. MsgsSide'
  <2>1. /\ msgsCnt' = msgsCnt /\ msgsSem' = msgsSem + 1
        /\ Len(fifo)' = Len(fifo) /\ usage' = usage
    BY <1>0, <1>1 DEF PushPost, semMsgs!SemPost, setup, msgsVars, ringVars, TypeOK
  <2>2. NP({"msgsPost"}) >= 1
    BY <1>1, NPPositive
  <2>3. MsgsUsed' = MsgsUsed
    BY <2>1, <1>5, MsgsNumbers, <1>n DEF MsgsUsed, Numeric
  <2>4. Account(Len(fifo), msgsCnt, msgsSem + 1, NC({"msgsWait"}), NC({"msgsUndo"}),
                      MsgsUsed, NP({"msgsPost"}) - 1, NP({"threw"}), usage.pop)
    BY <2>1, <2>2, <1>0, AccountPost, MsgsNumbers, <1>n DEF MsgsSide, Numeric
  <2> QED
    BY <2>1, <2>3, <2>4, <1>5 DEF MsgsSide
<1>8. RingMatches'
  BY <1>0, RingSame DEF PushPost, semMsgs!SemPost
<1> QED
  BY <1>2, <1>3, <1>4, <1>6, <1>7, <1>8 DEF IInv

\* A failing sem_post in push preserves the invariant.
LEMMA PushPostThrowsIInv ==
    ASSUME IInv, NEW p \in Producers, PushPostThrows(p)
    PROVE  IInv'
<1>0. TypeOK /\ Owners /\ Carried /\ FreeSide /\ MsgsSide /\ RingMatches
  BY DEF IInv
<1>n. Numeric
  BY <1>0, Numbers
<1>1. pc[p] = "msgsPost" /\ Goto(p, "threw")
  BY <1>0 DEF PushPostThrows, semMsgs!SemPostFails
<1>2. TypeOK'
  BY <1>1, <1>0, Constants DEF PushPostThrows, semMsgs!SemPostFails, Goto, TypeOK,
     ProducerPlaces, ConsumerPlaces, setup, freeVars, msgsVars, ringVars
<1>3. Owners'
  BY <1>1, <1>0, Constants DEF PushPostThrows, semMsgs!SemPostFails, Goto, TypeOK, Owners,
     Reading, setup
<1>4. Carried'
  BY <1>1, <1>0, Constants DEF PushPostThrows, semMsgs!SemPostFails, Goto, TypeOK, Carried
<1>5. /\ UNCHANGED FreeCounts
      /\ NP({"msgsPost"})' = NP({"msgsPost"}) - 1
      /\ NP({"threw"})' = NP({"threw"}) + 1
      /\ UNCHANGED <<NP({"unlock", "msgsInc"}), NC({"msgsWait"}),
                      NC({"msgsUndo"}), NC({"readLock", "read"})>>
  BY <1>1, <1>0, ProducerCounts, NType DEF Is, FreeCounts, MsgsCounts
<1>6. FreeSide'
  BY <1>5, <1>0, FreeSideSame DEF PushPostThrows, semMsgs!SemPostFails, setup, ringVars
<1>7. MsgsSide'
  <2>1. /\ msgsCnt' = msgsCnt - 1 /\ msgsSem' = msgsSem
        /\ Len(fifo)' = Len(fifo) /\ usage' = usage /\ msgsSem >= SEM_VALUE_MAX
    BY <1>0, <1>1 DEF PushPostThrows, semMsgs!SemPostFails, setup, msgsVars, ringVars,
       TypeOK
  <2>2. NP({"msgsPost"}) >= 1
    BY <1>1, NPPositive
  <2>3. MsgsUsed' = MsgsUsed
    BY <2>1, <1>5, MsgsNumbers, <1>n DEF MsgsUsed, Numeric
  <2>4. Account(Len(fifo), msgsCnt - 1, msgsSem, NC({"msgsWait"}), NC({"msgsUndo"}),
                      MsgsUsed, NP({"msgsPost"}) - 1, NP({"threw"}) + 1, usage.pop)
    BY <2>1, <2>2, <1>0, AccountPostFails, MsgsNumbers, <1>n DEF MsgsSide, Numeric
  <2> QED
    BY <2>1, <2>3, <2>4, <1>5 DEF MsgsSide
<1>8. RingMatches'
  BY <1>0, RingSame DEF PushPostThrows, semMsgs!SemPostFails
<1> QED
  BY <1>2, <1>3, <1>4, <1>6, <1>7, <1>8 DEF IInv

\* A wakened pop preserves the invariant.
LEMMA PopWakeIInv ==
    ASSUME IInv, NEW c \in Consumers, PopWake(c)
    PROVE  IInv'
<1>0. TypeOK /\ Owners /\ Carried /\ FreeSide /\ MsgsSide /\ RingMatches
  BY DEF IInv
<1>n. Numeric
  BY <1>0, Numbers
<1>1. pc[c] = "msgsWait" /\ Goto(c, "readLock")
  BY <1>0 DEF PopWake, semMsgs!SemWait
<1>2. TypeOK'
  BY <1>1, <1>0, Constants DEF PopWake, semMsgs!SemWait, Goto, TypeOK, ProducerPlaces,
     ConsumerPlaces, setup, freeVars, msgsVars, ringVars
<1>3. Owners'
  BY <1>1, <1>0, Constants DEF PopWake, semMsgs!SemWait, Goto, TypeOK, Owners, Reading,
     setup
<1>4. Carried'
  BY <1>1, <1>0, Constants DEF PopWake, semMsgs!SemWait, Goto, TypeOK, Carried
<1>5. /\ UNCHANGED FreeCounts
      /\ NC({"msgsWait"})' = NC({"msgsWait"}) - 1
      /\ NC({"readLock", "read"})' = NC({"readLock", "read"}) + 1
      /\ UNCHANGED <<NP({"unlock", "msgsInc"}), NP({"msgsPost"}),
                      NP({"threw"}), NC({"msgsUndo"})>>
  BY <1>1, <1>0, ConsumerCounts, NType DEF Is, FreeCounts, MsgsCounts
<1>6. FreeSide'
  BY <1>5, <1>0, FreeSideSame DEF PopWake, semMsgs!SemWait, setup, ringVars
<1>7. MsgsSide'
  <2>1. /\ msgsCnt' = msgsCnt /\ msgsSem' = msgsSem - 1
        /\ Len(fifo)' = Len(fifo) /\ usage' = usage /\ msgsSem >= 1
    BY <1>0, <1>1 DEF PopWake, semMsgs!SemWait, setup, msgsVars, ringVars, TypeOK
  <2>2. NC({"msgsWait"}) >= 1
    BY <1>1, NCPositive
  <2>3. MsgsUsed' = MsgsUsed + 1
    BY <2>1, <1>5, MsgsNumbers, <1>n DEF MsgsUsed, Numeric
  <2>4. Account(Len(fifo), msgsCnt, msgsSem - 1, NC({"msgsWait"}) - 1, NC({"msgsUndo"}),
                      MsgsUsed + 1, NP({"msgsPost"}), NP({"threw"}), usage.pop)
    BY <2>1, <2>2, <1>0, AccountWake, MsgsNumbers, <1>n DEF MsgsSide, Numeric
  <2> QED
    BY <2>1, <2>3, <2>4, <1>5 DEF MsgsSide
<1>8. RingMatches'
  BY <1>0, RingSame DEF PopWake, semMsgs!SemWait
<1> QED
  BY <1>2, <1>3, <1>4, <1>6, <1>7, <1>8 DEF IInv

\* A refused pop preserves the invariant.
LEMMA PopRefusedIInv ==
    ASSUME IInv, NEW c \in Consumers, PopRefused(c)
    PROVE  IInv'
<1>0. TypeOK /\ Owners /\ Carried /\ FreeSide /\ MsgsSide /\ RingMatches
  BY DEF IInv
<1>n. Numeric
  BY <1>0, Numbers
<1>1. pc[c] = "msgsUndo" /\ Goto(c, "idle")
  BY <1>0 DEF PopRefused, semMsgs!DecUndo
<1>2. TypeOK'
  BY <1>1, <1>0, Constants DEF PopRefused, semMsgs!DecUndo, Goto, TypeOK, ProducerPlaces,
     ConsumerPlaces, setup, freeVars, msgsVars, ringVars
<1>3. Owners'
  BY <1>1, <1>0, Constants DEF PopRefused, semMsgs!DecUndo, Goto, TypeOK, Owners, Reading,
     setup
<1>4. Carried'
  BY <1>1, <1>0, Constants DEF PopRefused, semMsgs!DecUndo, Goto, TypeOK, Carried
<1>5. /\ UNCHANGED FreeCounts
      /\ NC({"msgsUndo"})' = NC({"msgsUndo"}) - 1
      /\ UNCHANGED <<NP({"unlock", "msgsInc"}), NP({"msgsPost"}), NP({"threw"}),
                      NC({"msgsWait"}), NC({"readLock", "read"})>>
  BY <1>1, <1>0, ConsumerCounts, NType DEF Is, FreeCounts, MsgsCounts
<1>6. FreeSide'
  BY <1>5, <1>0, FreeSideSame DEF PopRefused, semMsgs!DecUndo, setup, ringVars
<1>7. MsgsSide'
  <2>1. /\ msgsCnt' = msgsCnt + 1 /\ msgsSem' = msgsSem
        /\ Len(fifo)' = Len(fifo) /\ usage' = usage
    BY <1>0, <1>1 DEF PopRefused, semMsgs!DecUndo, setup, msgsVars, ringVars, TypeOK
  <2>2. NC({"msgsUndo"}) >= 1
    BY <1>1, NCPositive
  <2>3. MsgsUsed' = MsgsUsed
    BY <2>1, <1>5, MsgsNumbers, <1>n DEF MsgsUsed, Numeric
  <2>4. Account(Len(fifo), msgsCnt + 1, msgsSem, NC({"msgsWait"}), NC({"msgsUndo"}) - 1,
                      MsgsUsed, NP({"msgsPost"}), NP({"threw"}), usage.pop)
    BY <2>1, <2>2, <1>0, AccountUndo, MsgsNumbers, <1>n DEF MsgsSide, Numeric
  <2> QED
    BY <2>1, <2>3, <2>4, <1>5 DEF MsgsSide
<1>8. RingMatches'
  BY <1>0, RingSame DEF PopRefused, semMsgs!DecUndo
<1> QED
  BY <1>2, <1>3, <1>4, <1>6, <1>7, <1>8 DEF IInv

\* Taking the mutex for a pop preserves the invariant.
LEMMA PopLockIInv ==
    ASSUME IInv, NEW c \in Consumers, PopLock(c)
    PROVE  IInv'
<1>0. TypeOK /\ Owners /\ Carried /\ FreeSide /\ MsgsSide /\ RingMatches
  BY DEF IInv
<1>n. Numeric
  BY <1>0, Numbers
<1>1. pc[c] = "readLock" /\ Goto(c, "read")
  BY <1>0 DEF PopLock
<1>2. TypeOK'
  BY <1>1, <1>0, Constants DEF PopLock, Goto, TypeOK, ProducerPlaces, ConsumerPlaces, setup,
     freeVars, msgsVars, ringVars
<1>3. Owners'
  BY <1>1, <1>0, Constants DEF PopLock, Goto, TypeOK, Owners, Reading, setup
<1>4. Carried'
  BY <1>1, <1>0, Constants DEF PopLock, Goto, TypeOK, Carried
<1>5. /\ UNCHANGED FreeCounts
      /\ UNCHANGED MsgsCounts
  BY <1>1, <1>0, ConsumerCounts, NType DEF Is, FreeCounts, MsgsCounts
<1>6. FreeSide'
  BY <1>5, <1>0, FreeSideSame DEF PopLock, setup, ringVars
<1>7. MsgsSide'
  BY <1>5, <1>0, MsgsSideSame DEF PopLock, setup, ringVars
<1>8. RingMatches'
  BY <1>0, RingSame DEF PopLock
<1> QED
  BY <1>2, <1>3, <1>4, <1>6, <1>7, <1>8 DEF IInv

\* Copying a message preserves the invariant.
LEMMA PopReadIInv ==
    ASSUME IInv, NEW c \in Consumers, PopRead(c)
    PROVE  IInv'
<1>0. TypeOK /\ Owners /\ Carried /\ FreeSide /\ MsgsSide /\ RingMatches
  BY DEF IInv
<1>n. Numeric
  BY <1>0, Numbers
<1>a. Len(fifo) >= 1 /\ slot[tail] = fifo[1] /\ fifo[1] \in Msgs
  BY ReadHasMessage DEF PopRead
<1>b. head \in 0 .. MsgCnt - 1 /\ tail \in 0 .. MsgCnt - 1
  BY <1>0 DEF TypeOK, Slots
<1>d. /\ fifo' \in Seq(Msgs) /\ Len(fifo') = Len(fifo) - 1
      /\ \A k \in 1 .. Len(fifo') : fifo'[k] = fifo[k + 1]
  <2>1. fifo \in Seq(Msgs) /\ fifo # << >> /\ fifo' = Tail(fifo)
    BY <1>0, <1>a DEF PopRead, TypeOK
  <2> QED
    BY <2>1
<1>1. pc[c] = "read" /\ Goto(c, "freeInc")
  BY <1>0 DEF PopRead
<1>2. TypeOK'
  <2>1. tail' \in Slots
    BY <1>b, Constants DEF PopRead, Wrap, Slots
  <2>2. got' \in [Consumers -> Msgs \cup {NoMsg}]
    BY <1>0, <1>a DEF PopRead, TypeOK
  <2> QED
    BY <1>1, <1>0, <1>d, <2>1, <2>2, Constants
    DEF PopRead, Goto, TypeOK, ProducerPlaces, ConsumerPlaces, setup, freeVars, msgsVars
<1>3. Owners'
  BY <1>1, <1>0, Constants DEF PopRead, Goto, TypeOK, Owners, Reading, setup
<1>4. Carried'
  BY <1>1, <1>0, <1>a, Constants DEF PopRead, Goto, TypeOK, Carried
<1>5. /\ NC({"freeInc"})' = NC({"freeInc"}) + 1
      /\ UNCHANGED <<NP({"freeWait"}), NP({"freeUndo"}), NP({"lock", "store"}),
                      NC({"freePost"}), NC({"releaseThrow", "threw"})>>
      /\ NC({"readLock", "read"})' = NC({"readLock", "read"}) - 1
      /\ UNCHANGED <<NP({"unlock", "msgsInc"}), NP({"msgsPost"}), NP({"threw"}),
                      NC({"msgsWait"}), NC({"msgsUndo"})>>
  BY <1>1, <1>0, ConsumerCounts, NType DEF Is, FreeCounts, MsgsCounts
<1>6. FreeSide'
  <2>1. /\ freeCnt' = freeCnt /\ freeSem' = freeSem
        /\ Len(fifo)' = Len(fifo) - 1 /\ usage' = usage
    BY <1>0, <1>1, <1>d DEF PopRead, setup, freeVars, ringVars, TypeOK
  <2>3. FreeUsed' = FreeUsed
    BY <2>1, <1>5, FreeNumbers, <1>n DEF FreeUsed, Numeric
  <2> QED
    BY <2>1, <2>3, <1>5, <1>0 DEF FreeSide
<1>7. MsgsSide'
  <2>1. /\ msgsCnt' = msgsCnt /\ msgsSem' = msgsSem
        /\ Len(fifo)' = Len(fifo) - 1 /\ usage' = usage
    BY <1>0, <1>1, <1>d DEF PopRead, setup, msgsVars, ringVars, TypeOK
  <2>2. NC({"readLock", "read"}) >= 1
    BY <1>1, NCPositive
  <2>3. MsgsUsed' = MsgsUsed - 1
    BY <2>1, <1>5, MsgsNumbers, <1>n DEF MsgsUsed, Numeric
  <2>4. Account(Len(fifo) + (-1), msgsCnt, msgsSem, NC({"msgsWait"}), NC({"msgsUndo"}),
                      MsgsUsed + (-1), NP({"msgsPost"}), NP({"threw"}), usage.pop)
    BY <2>1, <2>2, <1>0, AccountResized, MsgsNumbers, <1>n DEF MsgsSide, Numeric
  <2> QED
    BY <2>1, <2>3, <2>4, <1>5 DEF MsgsSide
<1>8. RingMatches'
  <2>1. tail' = Wrap(tail) /\ head' = head /\ slot' = slot
    BY DEF PopRead
  <2>2. head = Ahead(Len(fifo)) /\ Len(fifo) <= MsgCnt
    BY <1>0 DEF RingMatches
  <2>3. \A k \in 0 .. Len(fifo') : Ahead(k)' = Ahead(k + 1)
    BY <1>a, <1>b, <1>d, <1>n, <2>1, <2>2 DEF Ahead, Wrap, Numeric
  <2>4. head' = Ahead(Len(fifo))'
    BY <1>a, <1>b, <1>d, <1>n, <2>1, <2>2 DEF Ahead, Wrap, Numeric
  <2>5. ASSUME NEW k \in 1 .. Len(fifo') PROVE slot'[Ahead(k - 1)'] = fifo'[k]
    <3>1. k \in 1 .. Len(fifo) /\ k + 1 \in 1 .. Len(fifo) /\ k - 1 \in 0 .. Len(fifo')
      BY <1>a, <1>d, <1>n DEF Numeric
    <3>2. Ahead(k - 1)' = Ahead((k + 1) - 1)
      BY <3>1, <2>3
    <3>3. slot[Ahead((k + 1) - 1)] = fifo[k + 1]
      BY <1>0, <3>1 DEF RingMatches
    <3> QED
      BY <3>2, <3>3, <1>d, <2>1
  <2> QED
    BY <1>d, <1>n, <2>2, <2>4, <2>5 DEF RingMatches, Numeric
<1> QED
  BY <1>2, <1>3, <1>4, <1>6, <1>7, <1>8 DEF IInv

\* The token of a pop preserves the invariant.
LEMMA PopPostIInv ==
    ASSUME IInv, NEW c \in Consumers, PopPost(c)
    PROVE  IInv'
<1>0. TypeOK /\ Owners /\ Carried /\ FreeSide /\ MsgsSide /\ RingMatches
  BY DEF IInv
<1>n. Numeric
  BY <1>0, Numbers
<1>1. pc[c] = "freePost" /\ Goto(c, "release")
  BY <1>0 DEF PopPost, semFree!SemPost
<1>2. TypeOK'
  BY <1>1, <1>0, Constants DEF PopPost, semFree!SemPost, Goto, TypeOK, ProducerPlaces,
     ConsumerPlaces, setup, freeVars, msgsVars, ringVars
<1>3. Owners'
  BY <1>1, <1>0, Constants DEF PopPost, semFree!SemPost, Goto, TypeOK, Owners, Reading,
     setup
<1>4. Carried'
  BY <1>1, <1>0, Constants DEF PopPost, semFree!SemPost, Goto, TypeOK, Carried
<1>5. /\ NC({"freePost"})' = NC({"freePost"}) - 1
      /\ UNCHANGED <<NP({"freeWait"}), NP({"freeUndo"}), NP({"lock", "store"}),
                      NC({"freeInc"}), NC({"releaseThrow", "threw"})>>
      /\ UNCHANGED MsgsCounts
  BY <1>1, <1>0, ConsumerCounts, NType DEF Is, FreeCounts, MsgsCounts
<1>6. FreeSide'
  <2>1. /\ freeCnt' = freeCnt /\ freeSem' = freeSem + 1
        /\ Len(fifo)' = Len(fifo) /\ usage' = usage
    BY <1>0, <1>1 DEF PopPost, semFree!SemPost, setup, freeVars, ringVars, TypeOK
  <2>2. NC({"freePost"}) >= 1
    BY <1>1, NCPositive
  <2>3. FreeUsed' = FreeUsed
    BY <2>1, <1>5, FreeNumbers, <1>n DEF FreeUsed, Numeric
  <2>4. Account(MsgCnt, freeCnt, freeSem + 1, NP({"freeWait"}), NP({"freeUndo"}),
                      FreeUsed, NC({"freePost"}) - 1, NC({"releaseThrow", "threw"}), usage.push)
    BY <2>1, <2>2, <1>0, AccountPost, FreeNumbers, <1>n DEF FreeSide, Numeric
  <2> QED
    BY <2>1, <2>3, <2>4, <1>5 DEF FreeSide
<1>7. MsgsSide'
  BY <1>5, <1>0, MsgsSideSame DEF PopPost, semFree!SemPost, setup, ringVars
<1>8. RingMatches'
  BY <1>0, RingSame DEF PopPost, semFree!SemPost
<1> QED
  BY <1>2, <1>3, <1>4, <1>6, <1>7, <1>8 DEF IInv

\* A failing sem_post in pop preserves the invariant.
LEMMA PopPostThrowsIInv ==
    ASSUME IInv, NEW c \in Consumers, PopPostThrows(c)
    PROVE  IInv'
<1>0. TypeOK /\ Owners /\ Carried /\ FreeSide /\ MsgsSide /\ RingMatches
  BY DEF IInv
<1>n. Numeric
  BY <1>0, Numbers
<1>1. pc[c] = "freePost" /\ Goto(c, "releaseThrow")
  BY <1>0 DEF PopPostThrows, semFree!SemPostFails
<1>2. TypeOK'
  BY <1>1, <1>0, Constants DEF PopPostThrows, semFree!SemPostFails, Goto, TypeOK,
     ProducerPlaces, ConsumerPlaces, setup, freeVars, msgsVars, ringVars
<1>3. Owners'
  BY <1>1, <1>0, Constants DEF PopPostThrows, semFree!SemPostFails, Goto, TypeOK, Owners,
     Reading, setup
<1>4. Carried'
  BY <1>1, <1>0, Constants DEF PopPostThrows, semFree!SemPostFails, Goto, TypeOK, Carried
<1>5. /\ NC({"freePost"})' = NC({"freePost"}) - 1
      /\ NC({"releaseThrow", "threw"})' = NC({"releaseThrow", "threw"}) + 1
      /\ UNCHANGED <<NP({"freeWait"}), NP({"freeUndo"}),
                      NP({"lock", "store"}), NC({"freeInc"})>>
      /\ UNCHANGED MsgsCounts
  BY <1>1, <1>0, ConsumerCounts, NType DEF Is, FreeCounts, MsgsCounts
<1>6. FreeSide'
  <2>1. /\ freeCnt' = freeCnt - 1 /\ freeSem' = freeSem
        /\ Len(fifo)' = Len(fifo) /\ usage' = usage /\ freeSem >= SEM_VALUE_MAX
    BY <1>0, <1>1 DEF PopPostThrows, semFree!SemPostFails, setup, freeVars, ringVars, TypeOK
  <2>2. NC({"freePost"}) >= 1
    BY <1>1, NCPositive
  <2>3. FreeUsed' = FreeUsed
    BY <2>1, <1>5, FreeNumbers, <1>n DEF FreeUsed, Numeric
  <2>4. Account(MsgCnt, freeCnt - 1, freeSem, NP({"freeWait"}), NP({"freeUndo"}),
                      FreeUsed, NC({"freePost"}) - 1, NC({"releaseThrow", "threw"}) + 1, usage.push)
    BY <2>1, <2>2, <1>0, AccountPostFails, FreeNumbers, <1>n DEF FreeSide, Numeric
  <2> QED
    BY <2>1, <2>3, <2>4, <1>5 DEF FreeSide
<1>7. MsgsSide'
  BY <1>5, <1>0, MsgsSideSame DEF PopPostThrows, semFree!SemPostFails, setup, ringVars
<1>8. RingMatches'
  BY <1>0, RingSame DEF PopPostThrows, semFree!SemPostFails
<1> QED
  BY <1>2, <1>3, <1>4, <1>6, <1>7, <1>8 DEF IInv

\* A push admitted at once preserves the invariant.
LEMMA PushAdmittedIInv ==
    ASSUME IInv, NEW p \in Producers, NEW m \in Msgs, Push(p, m), semFree!DecAdmitted,
           Goto(p, "lock")
    PROVE  IInv'
<1>0. TypeOK /\ Owners /\ Carried /\ FreeSide /\ MsgsSide /\ RingMatches
  BY DEF IInv
<1>n. Numeric
  BY <1>0, Numbers
<1>1. pc[p] = "idle" /\ Goto(p, "lock")
  BY <1>0 DEF Push, semFree!DecAdmitted
<1>2. TypeOK'
  BY <1>1, <1>0, Constants DEF Push, semFree!DecAdmitted, Goto, TypeOK, ProducerPlaces,
     ConsumerPlaces, setup, freeVars, msgsVars, ringVars
<1>3. Owners'
  BY <1>1, <1>0, Constants DEF Push, semFree!DecAdmitted, Goto, TypeOK, Owners, Reading,
     setup
<1>4. Carried'
  BY <1>1, <1>0, Constants DEF Push, semFree!DecAdmitted, Goto, TypeOK, Carried
<1>5. /\ NP({"lock", "store"})' = NP({"lock", "store"}) + 1
      /\ UNCHANGED <<NP({"freeWait"}), NP({"freeUndo"}), NC({"freeInc"}),
                      NC({"freePost"}), NC({"releaseThrow", "threw"})>>
      /\ UNCHANGED MsgsCounts
  BY <1>1, <1>0, ProducerCounts, NType DEF Is, FreeCounts, MsgsCounts
<1>6. FreeSide'
  <2>1. /\ freeCnt' = freeCnt - 1 /\ freeSem' = freeSem
        /\ Len(fifo)' = Len(fifo) /\ usage' = usage /\ freeCnt - 1 >= 0
    BY <1>0, <1>1 DEF Push, semFree!DecAdmitted, setup, freeVars, ringVars, TypeOK
  <2>3. FreeUsed' = FreeUsed + 1
    BY <2>1, <1>5, FreeNumbers, <1>n DEF FreeUsed, Numeric
  <2>4. Account(MsgCnt, freeCnt - 1, freeSem, NP({"freeWait"}), NP({"freeUndo"}),
                      FreeUsed + 1, NC({"freePost"}), NC({"releaseThrow", "threw"}), usage.push)
    BY <2>1, <1>0, AccountAdmitted, FreeNumbers, <1>n DEF FreeSide, Numeric
  <2> QED
    BY <2>1, <2>3, <2>4, <1>5 DEF FreeSide
<1>7. MsgsSide'
  BY <1>5, <1>0, MsgsSideSame DEF Push, semFree!DecAdmitted, setup, ringVars
<1>8. RingMatches'
  BY <1>0, RingSame DEF Push, semFree!DecAdmitted
<1> QED
  BY <1>2, <1>3, <1>4, <1>6, <1>7, <1>8 DEF IInv

\* A push that goes to sleep preserves the invariant.
LEMMA PushSleepsIInv ==
    ASSUME IInv, NEW p \in Producers, NEW m \in Msgs, Push(p, m), semFree!DecRefused,
           Goto(p, "freeWait"), usage.push = TRUE
    PROVE  IInv'
<1>0. TypeOK /\ Owners /\ Carried /\ FreeSide /\ MsgsSide /\ RingMatches
  BY DEF IInv
<1>n. Numeric
  BY <1>0, Numbers
<1>1. pc[p] = "idle" /\ Goto(p, "freeWait")
  BY <1>0 DEF Push, semFree!DecRefused
<1>2. TypeOK'
  BY <1>1, <1>0, Constants DEF Push, semFree!DecRefused, Goto, TypeOK, ProducerPlaces,
     ConsumerPlaces, setup, freeVars, msgsVars, ringVars
<1>3. Owners'
  BY <1>1, <1>0, Constants DEF Push, semFree!DecRefused, Goto, TypeOK, Owners, Reading,
     setup
<1>4. Carried'
  BY <1>1, <1>0, Constants DEF Push, semFree!DecRefused, Goto, TypeOK, Carried
<1>5. /\ NP({"freeWait"})' = NP({"freeWait"}) + 1
      /\ UNCHANGED <<NP({"freeUndo"}), NP({"lock", "store"}), NC({"freeInc"}),
                      NC({"freePost"}), NC({"releaseThrow", "threw"})>>
      /\ UNCHANGED MsgsCounts
  BY <1>1, <1>0, ProducerCounts, NType DEF Is, FreeCounts, MsgsCounts
<1>6. FreeSide'
  <2>1. /\ freeCnt' = freeCnt - 1 /\ freeSem' = freeSem
        /\ Len(fifo)' = Len(fifo) /\ usage' = usage /\ freeCnt - 1 < 0
    BY <1>0, <1>1 DEF Push, semFree!DecRefused, setup, freeVars, ringVars, TypeOK
  <2>3. FreeUsed' = FreeUsed
    BY <2>1, <1>5, FreeNumbers, <1>n DEF FreeUsed, Numeric
  <2>4. freeCnt - 1 < 0
    BY <2>1
  <2>5. /\ MsgCnt \in Int /\ freeCnt \in Int /\ freeSem \in Int
        /\ NP({"freeWait"}) \in Int /\ NP({"freeUndo"}) \in Int /\ FreeUsed \in Int
        /\ NC({"freePost"}) \in Int /\ NC({"releaseThrow", "threw"}) \in Int
    BY FreeNumbers, <1>n DEF Numeric
  <2>6. Account(MsgCnt, freeCnt, freeSem, NP({"freeWait"}), NP({"freeUndo"}),
                      FreeUsed, NC({"freePost"}), NC({"releaseThrow", "threw"}), usage.push)
    BY <1>0 DEF FreeSide
  <2>7. Account(MsgCnt, freeCnt - 1, freeSem, NP({"freeWait"}) + 1, NP({"freeUndo"}),
                      FreeUsed, NC({"freePost"}), NC({"releaseThrow", "threw"}), usage.push)
    BY <2>4, <2>5, <2>6, AccountSleep, Zenon
  <2> QED
    BY <2>1, <2>3, <2>7, <1>5 DEF FreeSide
<1>7. MsgsSide'
  BY <1>5, <1>0, MsgsSideSame DEF Push, semFree!DecRefused, setup, ringVars
<1>8. RingMatches'
  BY <1>0, RingSame DEF Push, semFree!DecRefused
<1> QED
  BY <1>2, <1>3, <1>4, <1>6, <1>7, <1>8 DEF IInv

\* A push that finds the queue full preserves the invariant.
LEMMA PushPollsIInv ==
    ASSUME IInv, NEW p \in Producers, NEW m \in Msgs, Push(p, m), semFree!DecRefused,
           Goto(p, "freeUndo"), usage.push = FALSE
    PROVE  IInv'
<1>0. TypeOK /\ Owners /\ Carried /\ FreeSide /\ MsgsSide /\ RingMatches
  BY DEF IInv
<1>n. Numeric
  BY <1>0, Numbers
<1>1. pc[p] = "idle" /\ Goto(p, "freeUndo")
  BY <1>0 DEF Push, semFree!DecRefused
<1>2. TypeOK'
  BY <1>1, <1>0, Constants DEF Push, semFree!DecRefused, Goto, TypeOK, ProducerPlaces,
     ConsumerPlaces, setup, freeVars, msgsVars, ringVars
<1>3. Owners'
  BY <1>1, <1>0, Constants DEF Push, semFree!DecRefused, Goto, TypeOK, Owners, Reading,
     setup
<1>4. Carried'
  BY <1>1, <1>0, Constants DEF Push, semFree!DecRefused, Goto, TypeOK, Carried
<1>5. /\ NP({"freeUndo"})' = NP({"freeUndo"}) + 1
      /\ UNCHANGED <<NP({"freeWait"}), NP({"lock", "store"}), NC({"freeInc"}),
                      NC({"freePost"}), NC({"releaseThrow", "threw"})>>
      /\ UNCHANGED MsgsCounts
  BY <1>1, <1>0, ProducerCounts, NType DEF Is, FreeCounts, MsgsCounts
<1>6. FreeSide'
  <2>1. /\ freeCnt' = freeCnt - 1 /\ freeSem' = freeSem
        /\ Len(fifo)' = Len(fifo) /\ usage' = usage /\ freeCnt - 1 < 0
    BY <1>0, <1>1 DEF Push, semFree!DecRefused, setup, freeVars, ringVars, TypeOK
  <2>3. FreeUsed' = FreeUsed
    BY <2>1, <1>5, FreeNumbers, <1>n DEF FreeUsed, Numeric
  <2>4. freeCnt - 1 < 0
    BY <2>1
  <2>5. /\ MsgCnt \in Int /\ freeCnt \in Int /\ freeSem \in Int
        /\ NP({"freeWait"}) \in Int /\ NP({"freeUndo"}) \in Int /\ FreeUsed \in Int
        /\ NC({"freePost"}) \in Int /\ NC({"releaseThrow", "threw"}) \in Int
    BY FreeNumbers, <1>n DEF Numeric
  <2>6. Account(MsgCnt, freeCnt, freeSem, NP({"freeWait"}), NP({"freeUndo"}),
                      FreeUsed, NC({"freePost"}), NC({"releaseThrow", "threw"}), usage.push)
    BY <1>0 DEF FreeSide
  <2>7. Account(MsgCnt, freeCnt - 1, freeSem, NP({"freeWait"}), NP({"freeUndo"}) + 1,
                      FreeUsed, NC({"freePost"}), NC({"releaseThrow", "threw"}), usage.push)
    BY <2>4, <2>5, <2>6, AccountPolled, Zenon
  <2> QED
    BY <2>1, <2>3, <2>7, <1>5 DEF FreeSide
<1>7. MsgsSide'
  BY <1>5, <1>0, MsgsSideSame DEF Push, semFree!DecRefused, setup, ringVars
<1>8. RingMatches'
  BY <1>0, RingSame DEF Push, semFree!DecRefused
<1> QED
  BY <1>2, <1>3, <1>4, <1>6, <1>7, <1>8 DEF IInv

\* Announcing a message to nobody preserves the invariant.
LEMMA PushAnnouncedIInv ==
    ASSUME IInv, NEW p \in Producers, PushAnnounce(p), semMsgs!IncDone, Goto(p, "idle"),
           arg' = [arg EXCEPT ![p] = NoMsg]
    PROVE  IInv'
<1>0. TypeOK /\ Owners /\ Carried /\ FreeSide /\ MsgsSide /\ RingMatches
  BY DEF IInv
<1>n. Numeric
  BY <1>0, Numbers
<1>1. pc[p] = "msgsInc" /\ Goto(p, "idle")
  BY <1>0 DEF PushAnnounce, semMsgs!IncDone
<1>2. TypeOK'
  BY <1>1, <1>0, Constants DEF PushAnnounce, semMsgs!IncDone, Goto, TypeOK, ProducerPlaces,
     ConsumerPlaces, setup, freeVars, msgsVars, ringVars
<1>3. Owners'
  BY <1>1, <1>0, Constants DEF PushAnnounce, semMsgs!IncDone, Goto, TypeOK, Owners, Reading,
     setup
<1>4. Carried'
  BY <1>1, <1>0, Constants DEF PushAnnounce, semMsgs!IncDone, Goto, TypeOK, Carried
<1>5. /\ UNCHANGED FreeCounts
      /\ NP({"unlock", "msgsInc"})' = NP({"unlock", "msgsInc"}) - 1
      /\ UNCHANGED <<NP({"msgsPost"}), NP({"threw"}), NC({"msgsWait"}),
                      NC({"msgsUndo"}), NC({"readLock", "read"})>>
  BY <1>1, <1>0, ProducerCounts, NType DEF Is, FreeCounts, MsgsCounts
<1>6. FreeSide'
  BY <1>5, <1>0, FreeSideSame DEF PushAnnounce, semMsgs!IncDone, setup, ringVars
<1>7. MsgsSide'
  <2>1. /\ msgsCnt' = msgsCnt + 1 /\ msgsSem' = msgsSem
        /\ Len(fifo)' = Len(fifo) /\ usage' = usage /\ msgsCnt + 1 >= 1
    BY <1>0, <1>1 DEF PushAnnounce, semMsgs!IncDone, setup, msgsVars, ringVars, TypeOK
  <2>2. NP({"unlock", "msgsInc"}) >= 1
    BY <1>1, NPPositive
  <2>3. MsgsUsed' = MsgsUsed - 1
    BY <2>1, <1>5, MsgsNumbers, <1>n DEF MsgsUsed, Numeric
  <2>4. Account(Len(fifo), msgsCnt + 1, msgsSem, NC({"msgsWait"}), NC({"msgsUndo"}),
                      MsgsUsed - 1, NP({"msgsPost"}), NP({"threw"}), usage.pop)
    BY <2>1, <2>2, <1>0, AccountReturned, MsgsNumbers, <1>n DEF MsgsSide, Numeric
  <2> QED
    BY <2>1, <2>3, <2>4, <1>5 DEF MsgsSide
<1>8. RingMatches'
  BY <1>0, RingSame DEF PushAnnounce, semMsgs!IncDone
<1> QED
  BY <1>2, <1>3, <1>4, <1>6, <1>7, <1>8 DEF IInv

\* Announcing a message to a sleeper preserves the invariant.
LEMMA PushOwesTokenIInv ==
    ASSUME IInv, NEW p \in Producers, PushAnnounce(p), semMsgs!IncOwesPost,
           Goto(p, "msgsPost"), UNCHANGED arg
    PROVE  IInv'
<1>0. TypeOK /\ Owners /\ Carried /\ FreeSide /\ MsgsSide /\ RingMatches
  BY DEF IInv
<1>n. Numeric
  BY <1>0, Numbers
<1>1. pc[p] = "msgsInc" /\ Goto(p, "msgsPost")
  BY <1>0 DEF PushAnnounce, semMsgs!IncOwesPost
<1>2. TypeOK'
  BY <1>1, <1>0, Constants DEF PushAnnounce, semMsgs!IncOwesPost, Goto, TypeOK,
     ProducerPlaces, ConsumerPlaces, setup, freeVars, msgsVars, ringVars
<1>3. Owners'
  BY <1>1, <1>0, Constants DEF PushAnnounce, semMsgs!IncOwesPost, Goto, TypeOK, Owners,
     Reading, setup
<1>4. Carried'
  BY <1>1, <1>0, Constants DEF PushAnnounce, semMsgs!IncOwesPost, Goto, TypeOK, Carried
<1>5. /\ UNCHANGED FreeCounts
      /\ NP({"unlock", "msgsInc"})' = NP({"unlock", "msgsInc"}) - 1
      /\ NP({"msgsPost"})' = NP({"msgsPost"}) + 1
      /\ UNCHANGED <<NP({"threw"}), NC({"msgsWait"}),
                      NC({"msgsUndo"}), NC({"readLock", "read"})>>
  BY <1>1, <1>0, ProducerCounts, NType DEF Is, FreeCounts, MsgsCounts
<1>6. FreeSide'
  BY <1>5, <1>0, FreeSideSame DEF PushAnnounce, semMsgs!IncOwesPost, setup, ringVars
<1>7. MsgsSide'
  <2>1. /\ msgsCnt' = msgsCnt + 1 /\ msgsSem' = msgsSem
        /\ Len(fifo)' = Len(fifo) /\ usage' = usage /\ msgsCnt + 1 < 1
    BY <1>0, <1>1 DEF PushAnnounce, semMsgs!IncOwesPost, setup, msgsVars, ringVars, TypeOK
  <2>2. NP({"unlock", "msgsInc"}) >= 1
    BY <1>1, NPPositive
  <2>3. MsgsUsed' = MsgsUsed - 1
    BY <2>1, <1>5, MsgsNumbers, <1>n DEF MsgsUsed, Numeric
  <2>4. Account(Len(fifo), msgsCnt + 1, msgsSem, NC({"msgsWait"}), NC({"msgsUndo"}),
                      MsgsUsed - 1, NP({"msgsPost"}) + 1, NP({"threw"}), usage.pop)
    BY <2>1, <2>2, <1>0, AccountOwesPost, MsgsNumbers, <1>n DEF MsgsSide, Numeric
  <2> QED
    BY <2>1, <2>3, <2>4, <1>5 DEF MsgsSide
<1>8. RingMatches'
  BY <1>0, RingSame DEF PushAnnounce, semMsgs!IncOwesPost
<1> QED
  BY <1>2, <1>3, <1>4, <1>6, <1>7, <1>8 DEF IInv

\* A pop admitted at once preserves the invariant.
LEMMA PopAdmittedIInv ==
    ASSUME IInv, NEW c \in Consumers, Pop(c), semMsgs!DecAdmitted, Goto(c, "readLock")
    PROVE  IInv'
<1>0. TypeOK /\ Owners /\ Carried /\ FreeSide /\ MsgsSide /\ RingMatches
  BY DEF IInv
<1>n. Numeric
  BY <1>0, Numbers
<1>1. pc[c] = "idle" /\ Goto(c, "readLock")
  BY <1>0 DEF Pop, semMsgs!DecAdmitted
<1>2. TypeOK'
  BY <1>1, <1>0, Constants DEF Pop, semMsgs!DecAdmitted, Goto, TypeOK, ProducerPlaces,
     ConsumerPlaces, setup, freeVars, msgsVars, ringVars
<1>3. Owners'
  BY <1>1, <1>0, Constants DEF Pop, semMsgs!DecAdmitted, Goto, TypeOK, Owners, Reading,
     setup
<1>4. Carried'
  BY <1>1, <1>0, Constants DEF Pop, semMsgs!DecAdmitted, Goto, TypeOK, Carried
<1>5. /\ UNCHANGED FreeCounts
      /\ NC({"readLock", "read"})' = NC({"readLock", "read"}) + 1
      /\ UNCHANGED <<NP({"unlock", "msgsInc"}), NP({"msgsPost"}), NP({"threw"}),
                      NC({"msgsWait"}), NC({"msgsUndo"})>>
  BY <1>1, <1>0, ConsumerCounts, NType DEF Is, FreeCounts, MsgsCounts
<1>6. FreeSide'
  BY <1>5, <1>0, FreeSideSame DEF Pop, semMsgs!DecAdmitted, setup, ringVars
<1>7. MsgsSide'
  <2>1. /\ msgsCnt' = msgsCnt - 1 /\ msgsSem' = msgsSem
        /\ Len(fifo)' = Len(fifo) /\ usage' = usage /\ msgsCnt - 1 >= 0
    BY <1>0, <1>1 DEF Pop, semMsgs!DecAdmitted, setup, msgsVars, ringVars, TypeOK
  <2>3. MsgsUsed' = MsgsUsed + 1
    BY <2>1, <1>5, MsgsNumbers, <1>n DEF MsgsUsed, Numeric
  <2>4. Account(Len(fifo), msgsCnt - 1, msgsSem, NC({"msgsWait"}), NC({"msgsUndo"}),
                      MsgsUsed + 1, NP({"msgsPost"}), NP({"threw"}), usage.pop)
    BY <2>1, <1>0, AccountAdmitted, MsgsNumbers, <1>n DEF MsgsSide, Numeric
  <2> QED
    BY <2>1, <2>3, <2>4, <1>5 DEF MsgsSide
<1>8. RingMatches'
  BY <1>0, RingSame DEF Pop, semMsgs!DecAdmitted
<1> QED
  BY <1>2, <1>3, <1>4, <1>6, <1>7, <1>8 DEF IInv

\* A pop that goes to sleep preserves the invariant.
LEMMA PopSleepsIInv ==
    ASSUME IInv, NEW c \in Consumers, Pop(c), semMsgs!DecRefused, Goto(c, "msgsWait"),
           usage.pop = TRUE
    PROVE  IInv'
<1>0. TypeOK /\ Owners /\ Carried /\ FreeSide /\ MsgsSide /\ RingMatches
  BY DEF IInv
<1>n. Numeric
  BY <1>0, Numbers
<1>1. pc[c] = "idle" /\ Goto(c, "msgsWait")
  BY <1>0 DEF Pop, semMsgs!DecRefused
<1>2. TypeOK'
  BY <1>1, <1>0, Constants DEF Pop, semMsgs!DecRefused, Goto, TypeOK, ProducerPlaces,
     ConsumerPlaces, setup, freeVars, msgsVars, ringVars
<1>3. Owners'
  BY <1>1, <1>0, Constants DEF Pop, semMsgs!DecRefused, Goto, TypeOK, Owners, Reading, setup
<1>4. Carried'
  BY <1>1, <1>0, Constants DEF Pop, semMsgs!DecRefused, Goto, TypeOK, Carried
<1>5. /\ UNCHANGED FreeCounts
      /\ NC({"msgsWait"})' = NC({"msgsWait"}) + 1
      /\ UNCHANGED <<NP({"unlock", "msgsInc"}), NP({"msgsPost"}), NP({"threw"}),
                      NC({"msgsUndo"}), NC({"readLock", "read"})>>
  BY <1>1, <1>0, ConsumerCounts, NType DEF Is, FreeCounts, MsgsCounts
<1>6. FreeSide'
  BY <1>5, <1>0, FreeSideSame DEF Pop, semMsgs!DecRefused, setup, ringVars
<1>7. MsgsSide'
  <2>1. /\ msgsCnt' = msgsCnt - 1 /\ msgsSem' = msgsSem
        /\ Len(fifo)' = Len(fifo) /\ usage' = usage /\ msgsCnt - 1 < 0
    BY <1>0, <1>1 DEF Pop, semMsgs!DecRefused, setup, msgsVars, ringVars, TypeOK
  <2>3. MsgsUsed' = MsgsUsed
    BY <2>1, <1>5, MsgsNumbers, <1>n DEF MsgsUsed, Numeric
  <2>4. msgsCnt - 1 < 0
    BY <2>1
  <2>5. /\ Len(fifo) \in Int /\ msgsCnt \in Int /\ msgsSem \in Int
        /\ NC({"msgsWait"}) \in Int /\ NC({"msgsUndo"}) \in Int /\ MsgsUsed \in Int
        /\ NP({"msgsPost"}) \in Int /\ NP({"threw"}) \in Int
    BY MsgsNumbers, <1>n DEF Numeric
  <2>6. Account(Len(fifo), msgsCnt, msgsSem, NC({"msgsWait"}), NC({"msgsUndo"}),
                      MsgsUsed, NP({"msgsPost"}), NP({"threw"}), usage.pop)
    BY <1>0 DEF MsgsSide
  <2>7. Account(Len(fifo), msgsCnt - 1, msgsSem, NC({"msgsWait"}) + 1, NC({"msgsUndo"}),
                      MsgsUsed, NP({"msgsPost"}), NP({"threw"}), usage.pop)
    BY <2>4, <2>5, <2>6, AccountSleep, Zenon
  <2> QED
    BY <2>1, <2>3, <2>7, <1>5 DEF MsgsSide
<1>8. RingMatches'
  BY <1>0, RingSame DEF Pop, semMsgs!DecRefused
<1> QED
  BY <1>2, <1>3, <1>4, <1>6, <1>7, <1>8 DEF IInv

\* A pop that finds the queue empty preserves the invariant.
LEMMA PopPollsIInv ==
    ASSUME IInv, NEW c \in Consumers, Pop(c), semMsgs!DecRefused, Goto(c, "msgsUndo"),
           usage.pop = FALSE
    PROVE  IInv'
<1>0. TypeOK /\ Owners /\ Carried /\ FreeSide /\ MsgsSide /\ RingMatches
  BY DEF IInv
<1>n. Numeric
  BY <1>0, Numbers
<1>1. pc[c] = "idle" /\ Goto(c, "msgsUndo")
  BY <1>0 DEF Pop, semMsgs!DecRefused
<1>2. TypeOK'
  BY <1>1, <1>0, Constants DEF Pop, semMsgs!DecRefused, Goto, TypeOK, ProducerPlaces,
     ConsumerPlaces, setup, freeVars, msgsVars, ringVars
<1>3. Owners'
  BY <1>1, <1>0, Constants DEF Pop, semMsgs!DecRefused, Goto, TypeOK, Owners, Reading, setup
<1>4. Carried'
  BY <1>1, <1>0, Constants DEF Pop, semMsgs!DecRefused, Goto, TypeOK, Carried
<1>5. /\ UNCHANGED FreeCounts
      /\ NC({"msgsUndo"})' = NC({"msgsUndo"}) + 1
      /\ UNCHANGED <<NP({"unlock", "msgsInc"}), NP({"msgsPost"}), NP({"threw"}),
                      NC({"msgsWait"}), NC({"readLock", "read"})>>
  BY <1>1, <1>0, ConsumerCounts, NType DEF Is, FreeCounts, MsgsCounts
<1>6. FreeSide'
  BY <1>5, <1>0, FreeSideSame DEF Pop, semMsgs!DecRefused, setup, ringVars
<1>7. MsgsSide'
  <2>1. /\ msgsCnt' = msgsCnt - 1 /\ msgsSem' = msgsSem
        /\ Len(fifo)' = Len(fifo) /\ usage' = usage /\ msgsCnt - 1 < 0
    BY <1>0, <1>1 DEF Pop, semMsgs!DecRefused, setup, msgsVars, ringVars, TypeOK
  <2>3. MsgsUsed' = MsgsUsed
    BY <2>1, <1>5, MsgsNumbers, <1>n DEF MsgsUsed, Numeric
  <2>4. msgsCnt - 1 < 0
    BY <2>1
  <2>5. /\ Len(fifo) \in Int /\ msgsCnt \in Int /\ msgsSem \in Int
        /\ NC({"msgsWait"}) \in Int /\ NC({"msgsUndo"}) \in Int /\ MsgsUsed \in Int
        /\ NP({"msgsPost"}) \in Int /\ NP({"threw"}) \in Int
    BY MsgsNumbers, <1>n DEF Numeric
  <2>6. Account(Len(fifo), msgsCnt, msgsSem, NC({"msgsWait"}), NC({"msgsUndo"}),
                      MsgsUsed, NP({"msgsPost"}), NP({"threw"}), usage.pop)
    BY <1>0 DEF MsgsSide
  <2>7. Account(Len(fifo), msgsCnt - 1, msgsSem, NC({"msgsWait"}), NC({"msgsUndo"}) + 1,
                      MsgsUsed, NP({"msgsPost"}), NP({"threw"}), usage.pop)
    BY <2>4, <2>5, <2>6, AccountPolled, Zenon
  <2> QED
    BY <2>1, <2>3, <2>7, <1>5 DEF MsgsSide
<1>8. RingMatches'
  BY <1>0, RingSame DEF Pop, semMsgs!DecRefused
<1> QED
  BY <1>2, <1>3, <1>4, <1>6, <1>7, <1>8 DEF IInv

\* Returning a slot to nobody preserves the invariant.
LEMMA PopFreedIInv ==
    ASSUME IInv, NEW c \in Consumers, PopFree(c), semFree!IncDone, Goto(c, "release")
    PROVE  IInv'
<1>0. TypeOK /\ Owners /\ Carried /\ FreeSide /\ MsgsSide /\ RingMatches
  BY DEF IInv
<1>n. Numeric
  BY <1>0, Numbers
<1>1. pc[c] = "freeInc" /\ Goto(c, "release")
  BY <1>0 DEF PopFree, semFree!IncDone
<1>2. TypeOK'
  BY <1>1, <1>0, Constants DEF PopFree, semFree!IncDone, Goto, TypeOK, ProducerPlaces,
     ConsumerPlaces, setup, freeVars, msgsVars, ringVars
<1>3. Owners'
  BY <1>1, <1>0, Constants DEF PopFree, semFree!IncDone, Goto, TypeOK, Owners, Reading,
     setup
<1>4. Carried'
  BY <1>1, <1>0, Constants DEF PopFree, semFree!IncDone, Goto, TypeOK, Carried
<1>5. /\ NC({"freeInc"})' = NC({"freeInc"}) - 1
      /\ UNCHANGED <<NP({"freeWait"}), NP({"freeUndo"}), NP({"lock", "store"}),
                      NC({"freePost"}), NC({"releaseThrow", "threw"})>>
      /\ UNCHANGED MsgsCounts
  BY <1>1, <1>0, ConsumerCounts, NType DEF Is, FreeCounts, MsgsCounts
<1>6. FreeSide'
  <2>1. /\ freeCnt' = freeCnt + 1 /\ freeSem' = freeSem
        /\ Len(fifo)' = Len(fifo) /\ usage' = usage /\ freeCnt + 1 >= 1
    BY <1>0, <1>1 DEF PopFree, semFree!IncDone, setup, freeVars, ringVars, TypeOK
  <2>2. NC({"freeInc"}) >= 1
    BY <1>1, NCPositive
  <2>3. FreeUsed' = FreeUsed - 1
    BY <2>1, <1>5, FreeNumbers, <1>n DEF FreeUsed, Numeric
  <2>4. Account(MsgCnt, freeCnt + 1, freeSem, NP({"freeWait"}), NP({"freeUndo"}),
                      FreeUsed - 1, NC({"freePost"}), NC({"releaseThrow", "threw"}), usage.push)
    BY <2>1, <2>2, <1>0, AccountReturned, FreeNumbers, <1>n DEF FreeSide, Numeric
  <2> QED
    BY <2>1, <2>3, <2>4, <1>5 DEF FreeSide
<1>7. MsgsSide'
  BY <1>5, <1>0, MsgsSideSame DEF PopFree, semFree!IncDone, setup, ringVars
<1>8. RingMatches'
  BY <1>0, RingSame DEF PopFree, semFree!IncDone
<1> QED
  BY <1>2, <1>3, <1>4, <1>6, <1>7, <1>8 DEF IInv

\* Returning a slot to a sleeper preserves the invariant.
LEMMA PopOwesTokenIInv ==
    ASSUME IInv, NEW c \in Consumers, PopFree(c), semFree!IncOwesPost, Goto(c, "freePost")
    PROVE  IInv'
<1>0. TypeOK /\ Owners /\ Carried /\ FreeSide /\ MsgsSide /\ RingMatches
  BY DEF IInv
<1>n. Numeric
  BY <1>0, Numbers
<1>1. pc[c] = "freeInc" /\ Goto(c, "freePost")
  BY <1>0 DEF PopFree, semFree!IncOwesPost
<1>2. TypeOK'
  BY <1>1, <1>0, Constants DEF PopFree, semFree!IncOwesPost, Goto, TypeOK, ProducerPlaces,
     ConsumerPlaces, setup, freeVars, msgsVars, ringVars
<1>3. Owners'
  BY <1>1, <1>0, Constants DEF PopFree, semFree!IncOwesPost, Goto, TypeOK, Owners, Reading,
     setup
<1>4. Carried'
  BY <1>1, <1>0, Constants DEF PopFree, semFree!IncOwesPost, Goto, TypeOK, Carried
<1>5. /\ NC({"freeInc"})' = NC({"freeInc"}) - 1
      /\ NC({"freePost"})' = NC({"freePost"}) + 1
      /\ UNCHANGED <<NP({"freeWait"}), NP({"freeUndo"}),
                      NP({"lock", "store"}), NC({"releaseThrow", "threw"})>>
      /\ UNCHANGED MsgsCounts
  BY <1>1, <1>0, ConsumerCounts, NType DEF Is, FreeCounts, MsgsCounts
<1>6. FreeSide'
  <2>1. /\ freeCnt' = freeCnt + 1 /\ freeSem' = freeSem
        /\ Len(fifo)' = Len(fifo) /\ usage' = usage /\ freeCnt + 1 < 1
    BY <1>0, <1>1 DEF PopFree, semFree!IncOwesPost, setup, freeVars, ringVars, TypeOK
  <2>2. NC({"freeInc"}) >= 1
    BY <1>1, NCPositive
  <2>3. FreeUsed' = FreeUsed - 1
    BY <2>1, <1>5, FreeNumbers, <1>n DEF FreeUsed, Numeric
  <2>4. Account(MsgCnt, freeCnt + 1, freeSem, NP({"freeWait"}), NP({"freeUndo"}),
                      FreeUsed - 1, NC({"freePost"}) + 1, NC({"releaseThrow", "threw"}), usage.push)
    BY <2>1, <2>2, <1>0, AccountOwesPost, FreeNumbers, <1>n DEF FreeSide, Numeric
  <2> QED
    BY <2>1, <2>3, <2>4, <1>5 DEF FreeSide
<1>7. MsgsSide'
  BY <1>5, <1>0, MsgsSideSame DEF PopFree, semFree!IncOwesPost, setup, ringVars
<1>8. RingMatches'
  BY <1>0, RingSame DEF PopFree, semFree!IncOwesPost
<1> QED
  BY <1>2, <1>3, <1>4, <1>6, <1>7, <1>8 DEF IInv

\* The return of a pop preserves the invariant.
LEMMA PopReturnsIInv ==
    ASSUME IInv, NEW c \in Consumers, PopUnlock(c), pc[c] = "release"
    PROVE  IInv'
<1>0. TypeOK /\ Owners /\ Carried /\ FreeSide /\ MsgsSide /\ RingMatches
  BY DEF IInv
<1>n. Numeric
  BY <1>0, Numbers
<1>1. pc[c] = "release" /\ Goto(c, "idle")
  BY <1>0 DEF PopUnlock
<1>2. TypeOK'
  BY <1>1, <1>0, Constants DEF PopUnlock, Goto, TypeOK, ProducerPlaces, ConsumerPlaces,
     setup, freeVars, msgsVars, ringVars
<1>3. Owners'
  BY <1>1, <1>0, Constants DEF PopUnlock, Goto, TypeOK, Owners, Reading, setup
<1>4. Carried'
  BY <1>1, <1>0, Constants DEF PopUnlock, Goto, TypeOK, Carried
<1>5. /\ UNCHANGED FreeCounts
      /\ UNCHANGED MsgsCounts
  BY <1>1, <1>0, ConsumerCounts, NType DEF Is, FreeCounts, MsgsCounts
<1>6. FreeSide'
  BY <1>5, <1>0, FreeSideSame DEF PopUnlock, setup, ringVars
<1>7. MsgsSide'
  BY <1>5, <1>0, MsgsSideSame DEF PopUnlock, setup, ringVars
<1>8. RingMatches'
  BY <1>0, RingSame DEF PopUnlock
<1> QED
  BY <1>2, <1>3, <1>4, <1>6, <1>7, <1>8 DEF IInv

\* A pop left by an exception preserves the invariant.
LEMMA PopThrowsIInv ==
    ASSUME IInv, NEW c \in Consumers, PopUnlock(c), pc[c] = "releaseThrow"
    PROVE  IInv'
<1>0. TypeOK /\ Owners /\ Carried /\ FreeSide /\ MsgsSide /\ RingMatches
  BY DEF IInv
<1>n. Numeric
  BY <1>0, Numbers
<1>1. pc[c] = "releaseThrow" /\ Goto(c, "threw")
  BY <1>0 DEF PopUnlock
<1>2. TypeOK'
  BY <1>1, <1>0, Constants DEF PopUnlock, Goto, TypeOK, ProducerPlaces, ConsumerPlaces,
     setup, freeVars, msgsVars, ringVars
<1>3. Owners'
  BY <1>1, <1>0, Constants DEF PopUnlock, Goto, TypeOK, Owners, Reading, setup
<1>4. Carried'
  BY <1>1, <1>0, Constants DEF PopUnlock, Goto, TypeOK, Carried
<1>5. /\ UNCHANGED FreeCounts
      /\ UNCHANGED MsgsCounts
  BY <1>1, <1>0, ConsumerCounts, NType DEF Is, FreeCounts, MsgsCounts
<1>6. FreeSide'
  BY <1>5, <1>0, FreeSideSame DEF PopUnlock, setup, ringVars
<1>7. MsgsSide'
  BY <1>5, <1>0, MsgsSideSame DEF PopUnlock, setup, ringVars
<1>8. RingMatches'
  BY <1>0, RingSame DEF PopUnlock
<1> QED
  BY <1>2, <1>3, <1>4, <1>6, <1>7, <1>8 DEF IInv
-------------------------------------------------------------------------------
\* A reader that attaches preserves the invariant.
LEMMA AttachIInv ==
    ASSUME IInv, NEW c \in Consumers, Attach(c)
    PROVE  IInv'
<1>0. TypeOK /\ Owners /\ Carried /\ FreeSide /\ MsgsSide /\ RingMatches
  BY DEF IInv
<1>1. UNCHANGED <<usage, freeVars, msgsVars, mutex, ringVars, arg, got, pc>>
  BY DEF Attach
<1>2. TypeOK'
  BY <1>0, <1>1 DEF Attach, TypeOK, freeVars, msgsVars, ringVars
<1>3. Owners'
  BY <1>0, <1>1 DEF Attach, Owners
<1>4. Carried'
  BY <1>0, <1>1 DEF Carried
<1>5. UNCHANGED FreeCounts /\ UNCHANGED MsgsCounts /\ Len(fifo)' = Len(fifo)
  BY <1>1 DEF FreeCounts, MsgsCounts, NP, NC, Places, ringVars
<1>6. FreeSide'
  BY <1>0, <1>1, <1>5, FreeSideSame
<1>7. MsgsSide'
  BY <1>0, <1>1, <1>5, MsgsSideSame
<1>8. RingMatches'
  BY <1>0, <1>1, RingSame
<1> QED
  BY <1>2, <1>3, <1>4, <1>6, <1>7, <1>8 DEF IInv

\* No producer and no reader is anywhere but at "idle" at the start.
LEMMA InitCounts ==
    ASSUME Init, NEW L, "idle" \notin L
    PROVE  NP(L) = 0 /\ NC(L) = 0
<1>1. \A t \in Producers : pc[t] \notin L
  BY Constants DEF Init
<1>2. \A t \in Consumers : pc[t] \notin L
  BY Constants DEF Init
<1> QED
  BY <1>1, <1>2, PlacesEmpty, Constants DEF NP, NC

\* The invariant holds at the start.
LEMMA InitIInv == Init => IInv
<1> SUFFICES ASSUME Init PROVE IInv
  OBVIOUS
<1>1. TypeOK
  BY Constants DEF Init, TypeOK, Slots, ProducerPlaces, ConsumerPlaces,
     semFree!SemInit, semMsgs!SemInit
<1>2. Owners
  BY Constants DEF Init, Owners, Reading
<1>3. Carried
  BY Constants DEF Init, Carried
<1>4. /\ NP({"freeWait"}) = 0 /\ NP({"freeUndo"}) = 0 /\ NP({"lock", "store"}) = 0
      /\ NP({"unlock", "msgsInc"}) = 0 /\ NP({"msgsPost"}) = 0 /\ NP({"threw"}) = 0
      /\ NC({"msgsWait"}) = 0 /\ NC({"msgsUndo"}) = 0 /\ NC({"readLock", "read"}) = 0
      /\ NC({"freeInc"}) = 0 /\ NC({"freePost"}) = 0 /\ NC({"releaseThrow", "threw"}) = 0
  BY InitCounts
<1>5. freeCnt = MsgCnt /\ freeSem = 0 /\ msgsCnt = 0 /\ msgsSem = 0 /\ Len(fifo) = 0
  BY DEF Init, semFree!SemInit, semMsgs!SemInit
<1>6. FreeSide
  BY <1>4, <1>5, Constants DEF FreeSide, FreeUsed, Account
<1>7. MsgsSide
  BY <1>4, <1>5 DEF MsgsSide, MsgsUsed, Account
<1>8. RingMatches
  BY <1>5, Constants DEF Init, RingMatches, Ahead
<1> QED
  BY <1>1, <1>2, <1>3, <1>6, <1>7, <1>8 DEF IInv

\* Every step of a producer preserves the invariant.
LEMMA ProducerIInv ==
    ASSUME IInv, NEW p \in Producers, PushSteps(p) \/ \E m \in Msgs : Push(p, m)
    PROVE  IInv'
<1>0. usage.push = TRUE \/ usage.push = FALSE
  BY UsageTypes DEF IInv
<1>1. ASSUME NEW m \in Msgs, Push(p, m) PROVE IInv'
  <2>1. CASE semFree!DecAdmitted /\ Goto(p, "lock")
    BY <1>1, <2>1, PushAdmittedIInv
  <2>2. CASE /\ semFree!DecRefused
             /\ Goto(p, IF usage.push THEN "freeWait" ELSE "freeUndo")
    <3>1. CASE usage.push = TRUE
      <4>1. Goto(p, "freeWait")
        BY <2>2, <3>1
      <4> QED
        BY <1>1, <2>2, <3>1, <4>1, PushSleepsIInv
    <3>2. CASE usage.push = FALSE
      <4>1. Goto(p, "freeUndo")
        BY <2>2, <3>2
      <4> QED
        BY <1>1, <2>2, <3>2, <4>1, PushPollsIInv
    <3> QED
      BY <1>0, <3>1, <3>2
  <2> QED
    BY <1>1, <2>1, <2>2 DEF Push
<1>2. CASE PushAnnounce(p)
  <2>1. CASE semMsgs!IncDone /\ Goto(p, "idle") /\ arg' = [arg EXCEPT ![p] = NoMsg]
    BY <1>2, <2>1, PushAnnouncedIInv
  <2>2. CASE semMsgs!IncOwesPost /\ Goto(p, "msgsPost") /\ UNCHANGED arg
    BY <1>2, <2>2, PushOwesTokenIInv
  <2> QED
    BY <1>2, <2>1, <2>2 DEF PushAnnounce
<1> QED
  BY <1>1, <1>2, PushWakeIInv, PushRefusedIInv, PushLockIInv, PushStoreIInv,
     PushUnlockIInv, PushPostIInv, PushPostThrowsIInv DEF PushSteps

\* Every step of a reader preserves the invariant.
LEMMA ConsumerIInv ==
    ASSUME IInv, NEW c \in Consumers, Attach(c) \/ PopSteps(c)
    PROVE  IInv'
<1>0. usage.pop = TRUE \/ usage.pop = FALSE
  BY UsageTypes DEF IInv
<1>1. CASE Pop(c)
  <2>1. CASE semMsgs!DecAdmitted /\ Goto(c, "readLock")
    BY <1>1, <2>1, PopAdmittedIInv
  <2>2. CASE /\ semMsgs!DecRefused
             /\ Goto(c, IF usage.pop THEN "msgsWait" ELSE "msgsUndo")
    <3>1. CASE usage.pop = TRUE
      <4>1. Goto(c, "msgsWait")
        BY <2>2, <3>1
      <4> QED
        BY <1>1, <2>2, <3>1, <4>1, PopSleepsIInv
    <3>2. CASE usage.pop = FALSE
      <4>1. Goto(c, "msgsUndo")
        BY <2>2, <3>2
      <4> QED
        BY <1>1, <2>2, <3>2, <4>1, PopPollsIInv
    <3> QED
      BY <1>0, <3>1, <3>2
  <2> QED
    BY <1>1, <2>1, <2>2 DEF Pop
<1>2. CASE PopFree(c)
  <2>1. CASE semFree!IncDone /\ Goto(c, "release")
    BY <1>2, <2>1, PopFreedIInv
  <2>2. CASE semFree!IncOwesPost /\ Goto(c, "freePost")
    BY <1>2, <2>2, PopOwesTokenIInv
  <2> QED
    BY <1>2, <2>1, <2>2 DEF PopFree
<1>3. CASE PopUnlock(c)
  <2>1. pc[c] = "release" \/ pc[c] = "releaseThrow"
    BY <1>3 DEF PopUnlock
  <2> QED
    BY <1>3, <2>1, PopReturnsIInv, PopThrowsIInv
<1> QED
  BY <1>1, <1>2, <1>3, AttachIInv, PopWakeIInv, PopRefusedIInv, PopLockIInv, PopReadIInv,
     PopPostIInv, PopPostThrowsIInv DEF PopSteps

\* A step that changes nothing preserves the invariant.
LEMMA StutterIInv ==
    ASSUME IInv, UNCHANGED vars
    PROVE  IInv'
<1>1. UNCHANGED <<usage, readers, freeVars, msgsVars, mutex, ringVars, arg, got, pc>>
  BY DEF vars, setup
<1>2. TypeOK' /\ Owners' /\ Carried'
  BY <1>1 DEF IInv, TypeOK, Owners, Carried, freeVars, msgsVars, ringVars
<1>3. UNCHANGED FreeCounts /\ UNCHANGED MsgsCounts /\ Len(fifo)' = Len(fifo)
  BY <1>1 DEF FreeCounts, MsgsCounts, NP, NC, Places, ringVars
<1>4. FreeSide' /\ MsgsSide' /\ RingMatches'
  BY <1>1, <1>3, FreeSideSame, MsgsSideSame, RingSame DEF IInv
<1> QED
  BY <1>2, <1>4 DEF IInv

\* Every step preserves the invariant.
LEMMA NextIInv == IInv /\ [Next]_vars => IInv'
<1>1. IInv /\ Next => IInv'
  BY ProducerIInv, ConsumerIInv DEF Next
<1> QED
  BY <1>1, StutterIInv

\* The inductive invariant, on which every theorem below rests.
THEOREM Inductive == Spec => []IInv
BY InitIInv, NextIInv, PTL DEF Spec

-------------------------------------------------------------------------------
\* Type correctness: the kernel semaphores never exceed SEM_VALUE_MAX, m_head and
\* m_tail stay inside data(), and no thread is anywhere but in its own operation.
THEOREM TypeCorrect == Spec => []TypeOK
<1>1. IInv => TypeOK
  BY DEF IInv
<1> QED
  BY <1>1, Inductive, PTL

\* Nobody writes the slot that a pop is copying, and no two threads move the same
\* index: the semaphores keep push and pop apart even where pop takes no mutex.
THEOREM SlotsApart == Spec => []NoSlotRace
<1>1. ASSUME IInv PROVE NoSlotRace
  <2>0. TypeOK /\ Owners /\ RingMatches
    BY <1>1 DEF IInv
  <2>1. ASSUME NEW p \in Producers, NEW c \in Consumers, pc[p] = "store", pc[c] = "read"
        PROVE  head # tail
    <3>1. Len(fifo) < MsgCnt
      BY <1>1, <2>1, StoreHasRoom
    <3>2. Len(fifo) >= 1
      BY <1>1, <2>1, ReadHasMessage
    <3>3. head = Ahead(Len(fifo)) /\ tail \in 0 .. MsgCnt - 1 /\ Len(fifo) \in Nat
      BY <2>0 DEF RingMatches, TypeOK, Slots
    <3> QED
      BY <3>1, <3>2, <3>3, Constants DEF Ahead
  <2>2. ASSUME NEW s \in Threads, NEW t \in Threads, pc[s] = "store", pc[t] = "store"
        PROVE  s = t
    <3>1. s \in Producers /\ t \in Producers
      BY <2>0, <2>2 DEF TypeOK, Threads, ConsumerPlaces
    <3> QED
      BY <2>0, <2>2, <3>1 DEF Owners
  <2>3. ASSUME NEW s \in Threads, NEW t \in Threads, pc[s] = "read", pc[t] = "read"
        PROVE  s = t
    <3>1. s \in Consumers /\ t \in Consumers
      BY <2>0, <2>3 DEF TypeOK, Threads, ProducerPlaces
    <3>2. s \in readers /\ t \in readers
      BY <2>0, <2>3, <3>1 DEF Owners
    <3> QED
      BY <2>0, <2>3, <3>1, <3>2 DEF Owners, Reading
  <2> QED
    BY <2>1, <2>2, <2>3 DEF NoSlotRace
<1> QED
  BY <1>1, Inductive, PTL

\* The ring holds exactly the messages pushed and not yet popped: m_head and m_tail,
\* which no code compares, never pass each other.
THEOREM RingInvariant == Spec => []RingMatches
<1>1. IInv => RingMatches
  BY DEF IInv
<1> QED
  BY <1>1, Inductive, PTL

\* The messages stored cover the pops admitted, and the slots cover the pushes
\* admitted, the messages stored and the slots about to be returned.
THEOREM Credits == Spec => []CreditsCovered
<1>1. ASSUME IInv PROVE CreditsCovered
  <2>0. TypeOK /\ Numeric /\ FreeUsed <= MsgCnt /\ MsgsUsed <= Len(fifo)
    BY <1>1, Numbers DEF IInv, FreeSide, MsgsSide, Account
  <2>1. Cardinality(At({"readLock", "read"})) = NC({"readLock", "read"})
    <3>1. At({"readLock", "read"}) = Places(Consumers, pc, {"readLock", "read"})
      BY <2>0 DEF At, Places, Threads, TypeOK, ProducerPlaces
    <3> QED
      BY <3>1 DEF NC
  <2>2. Cardinality(At({"lock", "store", "freeInc"})) = NP({"lock", "store"}) + NC({"freeInc"})
    <3> DEFINE P == Places(Producers, pc, {"lock", "store"})
               C == Places(Consumers, pc, {"freeInc"})
    <3>1. At({"lock", "store", "freeInc"}) = P \cup C
      BY <2>0 DEF At, Places, Threads, TypeOK, ProducerPlaces, ConsumerPlaces
    <3>2. P \cap C = {}
      BY DEF Places
    <3>3. IsFiniteSet(P) /\ IsFiniteSet(C)
      BY PlacesCount, Constants
    <3> HIDE DEF P, C
    <3>4. Cardinality(P \cup C) = Cardinality(P) + Cardinality(C) - Cardinality({})
      BY <3>2, <3>3, FS_Union
    <3>5. Cardinality({}) = 0 /\ Cardinality(P) \in Nat /\ Cardinality(C) \in Nat
      BY <3>3, FS_EmptySet, FS_CardinalityType
    <3>6. Cardinality(P \cup C) = Cardinality(P) + Cardinality(C)
      BY <3>4, <3>5
    <3> QED
      BY <3>1, <3>6 DEF P, C, NP, NC
  <2>3. Cardinality(At({"readLock", "read"})) <= Len(fifo)
    BY <2>0, <2>1, MsgsNumbers DEF MsgsUsed, Numeric
  <2>4. Cardinality(At({"lock", "store", "freeInc"})) + Len(fifo) <= MsgCnt
    BY <2>0, <2>2, FreeNumbers DEF FreeUsed, Numeric
  <2> QED
    BY <2>3, <2>4 DEF CreditsCovered
<1> QED
  BY <1>1, Inductive, PTL

-------------------------------------------------------------------------------
\* Storing a message is the Push of the bounded FIFO.
LEMMA StoreIsPush ==
    ASSUME IInv, NEW p \in Producers, PushStore(p)
    PROVE  FIFO!Push(arg[p]) /\ arg[p] \in Msgs
BY StoreHasRoom DEF PushStore, FIFO!Push, IInv, Carried

\* Copying a message is its Pop: the slot at the tail holds the oldest message.
LEMMA ReadIsPop ==
    ASSUME IInv, NEW c \in Consumers, PopRead(c)
    PROVE  FIFO!Pop(c)
<1>1. pc[c] = "read" /\ got[c] = NoMsg
  BY DEF PopRead, IInv, Carried
<1>2. Len(fifo) >= 1 /\ slot[tail] = fifo[1] /\ fifo \in Seq(Msgs)
  BY <1>1, ReadHasMessage DEF IInv, TypeOK
<1>3. fifo # << >> /\ Head(fifo) = fifo[1]
  BY <1>2
<1> QED
  BY <1>1, <1>2, <1>3 DEF PopRead, FIFO!Pop

\* The return of a pop is its Use.
LEMMA UnlockIsUse ==
    ASSUME IInv, NEW c \in Consumers, PopUnlock(c)
    PROVE  FIFO!Use(c)
BY DEF PopUnlock, FIFO!Use, IInv, Carried, ringVars

\* Every step of the queue is a step of the bounded FIFO or leaves it alone.
LEMMA StepSimulation == IInv /\ [Next]_vars => [FIFO!Next]_<<fifo, got>>
<1> SUFFICES ASSUME IInv, [Next]_vars PROVE [FIFO!Next]_<<fifo, got>>
  OBVIOUS
<1> USE DEF ringVars, FIFO!Next
<1>1. ASSUME NEW p \in Producers, PushSteps(p) \/ \E m \in Msgs : Push(p, m)
      PROVE  [FIFO!Next]_<<fifo, got>>
  <2>1. CASE PushStore(p)
    BY <2>1, StoreIsPush
  <2>2. CASE \E m \in Msgs : Push(p, m)
    BY <2>2 DEF Push
  <2>3. CASE PushWake(p) \/ PushRefused(p) \/ PushLock(p) \/ PushUnlock(p)
    BY <2>3 DEF PushWake, PushRefused, PushLock, PushUnlock
  <2>4. CASE PushAnnounce(p) \/ PushPost(p) \/ PushPostThrows(p)
    BY <2>4 DEF PushAnnounce, PushPost, PushPostThrows
  <2> QED
    BY <1>1, <2>1, <2>2, <2>3, <2>4 DEF PushSteps
<1>2. ASSUME NEW c \in Consumers, Attach(c) \/ PopSteps(c)
      PROVE  [FIFO!Next]_<<fifo, got>>
  <2>1. CASE PopRead(c)
    BY <2>1, ReadIsPop
  <2>2. CASE PopUnlock(c)
    BY <2>2, UnlockIsUse
  <2>3. CASE Attach(c) \/ Pop(c) \/ PopWake(c) \/ PopRefused(c) \/ PopLock(c)
    BY <2>3 DEF Attach, Pop, PopWake, PopRefused, PopLock
  <2>4. CASE PopFree(c) \/ PopPost(c) \/ PopPostThrows(c)
    BY <2>4 DEF PopFree, PopPost, PopPostThrows
  <2> QED
    BY <1>2, <2>1, <2>2, <2>3, <2>4 DEF PopSteps
<1>3. CASE UNCHANGED vars
  BY <1>3 DEF vars
<1> QED
  BY <1>1, <1>2, <1>3 DEF Next

\* The event queue implements the bounded FIFO: each pop delivers the oldest
\* message not yet delivered, once, and no message is lost or made up.
THEOREM Refinement == Spec => ImplementsFIFO
<1>1. Init => FIFO!Init
  BY DEF Init, FIFO!Init
<1>2. IInv /\ [Next]_vars => [FIFO!Next]_<<fifo, got>>
  BY StepSimulation
<1> QED
  BY <1>1, <1>2, Inductive, PTL DEF Spec, ImplementsFIFO, FIFO!Spec
===============================================================================
