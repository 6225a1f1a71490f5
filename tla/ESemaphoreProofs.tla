--------------------------- MODULE ESemaphoreProofs ---------------------------
(***************************************************************************)
(* The accounting of ESemaphore, proved for any number of threads, any     *)
(* initial count and any usage.  The counter and the kernel semaphore are  *)
(* tied to the number of threads at each place of Decrement and Increment; *)
(* the admission bound follows from the two equations.                     *)
(***************************************************************************)
EXTENDS ESemaphore, CountingLemmas

\* The number of threads at a place of L.
N(L) == Cardinality(At(L))

Counted == {"held", "wait", "undo", "threw"}

\* The inductive invariant: the equations, that the sleepers and those who are
\* about to give a count back are covered together (a thread that gives up leaves
\* its cover to the others), and that a usage which never sleeps (never gives up)
\* has no thread in the places it cannot reach.
IInv ==
    /\ TypeOK
    /\ currCount = InitCount - N(Counted)
    /\ N({"wait"}) + N({"undo"}) <=
           (IF currCount < 0 THEN -currCount ELSE 0) + sem + N({"post"})
    /\ AlwaysSleep =>
           /\ N({"undo"}) = 0
           /\ N({"wait"}) =
                (IF currCount < 0 THEN -currCount ELSE 0) + sem + N({"post"})
    /\ NeverSleep => N({"wait"}) = 0 /\ N({"held"}) <= InitCount

\* At is Places of CountingLemmas, now and in the next state.
LEMMA AtPlaces ==
    ASSUME NEW L
    PROVE  At(L) = Places(Threads, pc, L) /\ At(L)' = Places(Threads, pc', L)
BY DEF At, Places

\* The counts are natural numbers, no larger than the number of threads.
LEMMA NType ==
    ASSUME NEW L
    PROVE  /\ N(L) \in Nat
           /\ N(L)' \in Nat
           /\ N(L) <= Cardinality(Threads)
           /\ Cardinality(Threads) \in Nat
BY AtPlaces, PlacesCount, ThreadsAssumption, FS_CardinalityType DEF N

\* A step of one thread from its place to l changes every count accordingly.
LEMMA NMove ==
    ASSUME TypeOK, NEW t \in Threads, NEW l, Goto(t, l), NEW L
    PROVE  N(L)' = N(L) - Is(pc[t], L) + Is(l, L)
<1>1. Moves(Threads, pc, pc', t, pc[t], l)
  BY DEF Moves, Goto, TypeOK
<1> QED
  BY <1>1, PlacesMove, ThreadsAssumption, AtPlaces DEF N

\* A place where some thread is counts at least one.
LEMMA NPositive ==
    ASSUME NEW t \in Threads, NEW L, pc[t] \in L
    PROVE  N(L) >= 1
<1>1. N(L) # 0
  BY PlacesEmpty, ThreadsAssumption, AtPlaces DEF N
<1> QED
  BY <1>1, NType

\* The counts of disjoint sets of places add up.
LEMMA NUnion ==
    ASSUME NEW K, NEW L, K \cap L = {}
    PROVE  N(K \cup L) = N(K) + N(L)
BY PlacesUnion, ThreadsAssumption, AtPlaces DEF N

\* The counted threads are those that hold, sleep, give up or threw.
LEMMA CountedSplit ==
    N(Counted) = N({"held"}) + N({"wait"}) + N({"undo"}) + N({"threw"})
<1>1. N({"held"} \cup {"wait"}) = N({"held"}) + N({"wait"})
  BY NUnion
<1>2. N({"held", "wait"} \cup {"undo"}) = N({"held", "wait"}) + N({"undo"})
  BY NUnion
<1>3. N({"held", "wait", "undo"} \cup {"threw"}) = N({"held", "wait", "undo"}) + N({"threw"})
  BY NUnion
<1>4. /\ {"held"} \cup {"wait"} = {"held", "wait"}
      /\ {"held", "wait"} \cup {"undo"} = {"held", "wait", "undo"}
      /\ {"held", "wait", "undo"} \cup {"threw"} = Counted
  BY DEF Counted
<1> QED
  BY <1>1, <1>2, <1>3, <1>4

-------------------------------------------------------------------------------
\* The initial states satisfy the inductive invariant.
LEMMA InitIInv == Init => IInv
<1> SUFFICES ASSUME Init PROVE IInv
  OBVIOUS
<1>1. TypeOK
  BY InitCountAssumption, SemValueMaxAssumption DEF Init, SemInit, TypeOK, Locations
<1>2. \A L : "idle" \notin L => N(L) = 0
  BY PlacesEmpty, ThreadsAssumption, AtPlaces DEF N, Init
<1>3. /\ N({"held"}) = 0 /\ N({"wait"}) = 0 /\ N({"undo"}) = 0
      /\ N({"post"}) = 0 /\ N(Counted) = 0
  BY <1>2 DEF Counted
<1> QED
  BY <1>1, <1>3, InitCountAssumption DEF IInv, Init, SemInit

\* The counts the invariant speaks of, after thread t goes from a to l.
LEMMA Counts ==
    ASSUME TypeOK, NEW t \in Threads, NEW a, pc[t] = a, NEW l, Goto(t, l)
    PROVE  /\ N({"held"})' = N({"held"}) - Is(a, {"held"}) + Is(l, {"held"})
           /\ N({"wait"})' = N({"wait"}) - Is(a, {"wait"}) + Is(l, {"wait"})
           /\ N({"undo"})' = N({"undo"}) - Is(a, {"undo"}) + Is(l, {"undo"})
           /\ N({"post"})' = N({"post"}) - Is(a, {"post"}) + Is(l, {"post"})
           /\ N(Counted)' = N(Counted) - Is(a, Counted) + Is(l, Counted)
           /\ AlwaysSleep' = AlwaysSleep
           /\ NeverSleep' = NeverSleep
<1>1. usage' = usage
  BY DEF Goto
<1>2. AlwaysSleep' = AlwaysSleep /\ NeverSleep' = NeverSleep
  BY <1>1 DEF AlwaysSleep, NeverSleep
<1>3. N(Counted)' = N(Counted) - Is(a, Counted) + Is(l, Counted)
  BY NMove
<1> QED
  BY <1>2, <1>3, NMove

\* A usage that always sleeps passes wait = True, one that never sleeps False.
LEMMA UsageCases ==
    ASSUME NEW w \in usage.waits
    PROVE  (AlwaysSleep => w = TRUE) /\ (NeverSleep => w = FALSE)
BY DEF AlwaysSleep, NeverSleep

\* Decrement up to the sem_wait preserves the invariant.
LEMMA DecrementIInv ==
    ASSUME IInv, NEW t \in Threads, NEW w \in usage.waits, Decrement(t, w)
    PROVE  IInv'
<1>1. TypeOK /\ pc[t] = "idle"
  BY DEF IInv, Decrement
<1> USE <1>1, InitCountAssumption, NType
<1>2. CASE DecAdmitted /\ Goto(t, "held")
  <2>1. TypeOK'
    BY <1>2 DEF DecAdmitted, Goto, TypeOK, Locations
  <2>2. /\ N({"held"})' = N({"held"}) + 1
        /\ N({"wait"})' = N({"wait"})
        /\ N({"undo"})' = N({"undo"})
        /\ N({"post"})' = N({"post"})
        /\ N(Counted)' = N(Counted) + 1
        /\ AlwaysSleep' = AlwaysSleep
        /\ NeverSleep' = NeverSleep
    BY <1>2, Counts, NType DEF Is, Counted
  <2>3. N({"held"}) <= N(Counted)
    BY CountedSplit
  <2> QED
    BY <1>2, <2>1, <2>2, <2>3 DEF IInv, DecAdmitted, TypeOK
<1>3. CASE DecRefused /\ Goto(t, IF w THEN "wait" ELSE "undo")
  <2>1. TypeOK'
    BY <1>3 DEF DecRefused, Goto, TypeOK, Locations
  <2>2. CASE w = TRUE
    <3>1. /\ N({"held"})' = N({"held"})
          /\ N({"wait"})' = N({"wait"}) + 1
          /\ N({"undo"})' = N({"undo"})
          /\ N({"post"})' = N({"post"})
          /\ N(Counted)' = N(Counted) + 1
          /\ AlwaysSleep' = AlwaysSleep
          /\ NeverSleep' = NeverSleep
      BY <1>3, <2>2, Counts, NType DEF Is, Counted
    <3>2. ~NeverSleep
      BY <2>2, UsageCases
    <3> QED
      BY <1>3, <2>1, <3>1, <3>2 DEF IInv, DecRefused, TypeOK
  <2>3. CASE w # TRUE
    <3>1. /\ N({"held"})' = N({"held"})
          /\ N({"wait"})' = N({"wait"})
          /\ N({"undo"})' = N({"undo"}) + 1
          /\ N({"post"})' = N({"post"})
          /\ N(Counted)' = N(Counted) + 1
          /\ AlwaysSleep' = AlwaysSleep
          /\ NeverSleep' = NeverSleep
      <4>1. Goto(t, "undo")
        BY <1>3, <2>3, UsagesAssumption DEF TypeOK
      <4> QED
        BY <4>1, Counts, NType DEF Is, Counted
    <3>2. ~AlwaysSleep
      BY <2>3, UsageCases
    <3> QED
      BY <1>3, <2>1, <3>1, <3>2 DEF IInv, DecRefused, TypeOK
  <2> QED
    BY <2>2, <2>3
<1> QED
  BY <1>2, <1>3 DEF Decrement

\* A sem_wait that succeeds preserves the invariant.
LEMMA WakeIInv ==
    ASSUME IInv, NEW t \in Threads, Wake(t)
    PROVE  IInv'
<1>1. TypeOK /\ pc[t] = "wait" /\ SemWait /\ Goto(t, "held")
  BY DEF IInv, Wake
<1>2. TypeOK'
  BY <1>1, SemValueMaxAssumption DEF SemWait, Goto, TypeOK, Locations
<1>3. /\ N({"held"})' = N({"held"}) + 1
      /\ N({"wait"})' = N({"wait"}) - 1
      /\ N({"undo"})' = N({"undo"})
      /\ N({"post"})' = N({"post"})
      /\ N(Counted)' = N(Counted)
      /\ AlwaysSleep' = AlwaysSleep
      /\ NeverSleep' = NeverSleep
  BY <1>1, Counts, NType DEF Is, Counted
<1>4. ~NeverSleep
  BY <1>1, NPositive, NType DEF IInv
<1> QED
  BY <1>1, <1>2, <1>3, <1>4, NType, InitCountAssumption DEF IInv, SemWait, TypeOK

\* A signal that breaks a sleep preserves the invariant.
LEMMA InterruptedIInv ==
    ASSUME IInv, NEW t \in Threads, Interrupted(t)
    PROVE  IInv'
<1>1. TypeOK /\ pc[t] = "wait" /\ usage.signals /\ Goto(t, "undo") /\ UNCHANGED semVars
  BY DEF IInv, Interrupted
<1>2. TypeOK'
  BY <1>1 DEF semVars, Goto, TypeOK, Locations
<1>3. /\ N({"held"})' = N({"held"})
      /\ N({"wait"})' = N({"wait"}) - 1
      /\ N({"undo"})' = N({"undo"}) + 1
      /\ N({"post"})' = N({"post"})
      /\ N(Counted)' = N(Counted)
      /\ AlwaysSleep' = AlwaysSleep
      /\ NeverSleep' = NeverSleep
  BY <1>1, Counts, NType DEF Is, Counted
<1>4. ~AlwaysSleep /\ ~NeverSleep
  <2>1. ~NeverSleep
    BY <1>1, NPositive, NType DEF IInv
  <2> QED
    BY <1>1, <2>1 DEF AlwaysSleep
<1> QED
  BY <1>1, <1>2, <1>3, <1>4, NType, InitCountAssumption DEF IInv, semVars, TypeOK

\* Giving the count back after a refusal preserves the invariant.
LEMMA GiveUpIInv ==
    ASSUME IInv, NEW t \in Threads, GiveUp(t)
    PROVE  IInv'
<1>1. TypeOK /\ pc[t] = "undo" /\ DecUndo /\ Goto(t, "idle")
  BY DEF IInv, GiveUp
<1>2. TypeOK'
  BY <1>1 DEF DecUndo, Goto, TypeOK, Locations
<1>3. /\ N({"held"})' = N({"held"})
      /\ N({"wait"})' = N({"wait"})
      /\ N({"undo"})' = N({"undo"}) - 1
      /\ N({"post"})' = N({"post"})
      /\ N(Counted)' = N(Counted) - 1
      /\ AlwaysSleep' = AlwaysSleep
      /\ NeverSleep' = NeverSleep
  BY <1>1, Counts, NType DEF Is, Counted
<1>4. ~AlwaysSleep
  BY <1>1, NPositive, NType DEF IInv
<1> QED
  BY <1>1, <1>2, <1>3, <1>4, NType, InitCountAssumption DEF IInv, DecUndo, TypeOK

\* Increment up to the sem_post preserves the invariant.
LEMMA IncrementIInv ==
    ASSUME IInv, NEW t \in Threads, Increment(t)
    PROVE  IInv'
<1>1. TypeOK /\ pc[t] = "held"
  BY DEF IInv, Increment
<1>2. CASE IncDone /\ Goto(t, "idle")
  <2>1. TypeOK'
    BY <1>1, <1>2 DEF IncDone, Goto, TypeOK, Locations
  <2>2. /\ N({"held"})' = N({"held"}) - 1
        /\ N({"wait"})' = N({"wait"})
        /\ N({"undo"})' = N({"undo"})
        /\ N({"post"})' = N({"post"})
        /\ N(Counted)' = N(Counted) - 1
        /\ AlwaysSleep' = AlwaysSleep
        /\ NeverSleep' = NeverSleep
    BY <1>1, <1>2, Counts, NType DEF Is, Counted
  <2> QED
    BY <1>1, <1>2, <2>1, <2>2, NType, InitCountAssumption DEF IInv, IncDone, TypeOK
<1>3. CASE IncOwesPost /\ Goto(t, "post")
  <2>1. TypeOK'
    BY <1>1, <1>3 DEF IncOwesPost, Goto, TypeOK, Locations
  <2>2. /\ N({"held"})' = N({"held"}) - 1
        /\ N({"wait"})' = N({"wait"})
        /\ N({"undo"})' = N({"undo"})
        /\ N({"post"})' = N({"post"}) + 1
        /\ N(Counted)' = N(Counted) - 1
        /\ AlwaysSleep' = AlwaysSleep
        /\ NeverSleep' = NeverSleep
    BY <1>1, <1>3, Counts, NType DEF Is, Counted
  <2> QED
    BY <1>1, <1>3, <2>1, <2>2, NType, InitCountAssumption DEF IInv, IncOwesPost, TypeOK
<1> QED
  BY <1>2, <1>3 DEF Increment

\* The sem_post preserves the invariant.
LEMMA PostIInv ==
    ASSUME IInv, NEW t \in Threads, Post(t)
    PROVE  IInv'
<1>1. TypeOK /\ pc[t] = "post" /\ SemPost /\ Goto(t, "idle")
  BY DEF IInv, Post
<1>2. TypeOK'
  BY <1>1, SemValueMaxAssumption DEF SemPost, Goto, TypeOK, Locations
<1>3. /\ N({"held"})' = N({"held"})
      /\ N({"wait"})' = N({"wait"})
      /\ N({"undo"})' = N({"undo"})
      /\ N({"post"})' = N({"post"}) - 1
      /\ N(Counted)' = N(Counted)
      /\ AlwaysSleep' = AlwaysSleep
      /\ NeverSleep' = NeverSleep
  BY <1>1, Counts, NType DEF Is, Counted
<1> QED
  BY <1>1, <1>2, <1>3, NType, InitCountAssumption DEF IInv, SemPost, TypeOK

\* A failing sem_post preserves the invariant.  When all callers sleep it cannot
\* happen: every token and every post in flight has a sleeper of its own, and
\* there are no more threads than SEM_VALUE_MAX.
LEMMA PostFailsIInv ==
    ASSUME IInv, NEW t \in Threads, PostFails(t)
    PROVE  IInv'
<1>1. TypeOK /\ pc[t] = "post" /\ SemPostFails /\ Goto(t, "threw")
  BY DEF IInv, PostFails
<1>2. TypeOK'
  BY <1>1 DEF SemPostFails, Goto, TypeOK, Locations
<1>3. /\ N({"held"})' = N({"held"})
      /\ N({"wait"})' = N({"wait"})
      /\ N({"undo"})' = N({"undo"})
      /\ N({"post"})' = N({"post"}) - 1
      /\ N(Counted)' = N(Counted) + 1
      /\ AlwaysSleep' = AlwaysSleep
      /\ NeverSleep' = NeverSleep
  BY <1>1, Counts, NType DEF Is, Counted
<1>4. ~AlwaysSleep
  <2>1. N({"post"}) >= 1
    BY <1>1, NPositive
  <2>2. N({"wait"}) <= SEM_VALUE_MAX
    BY NType, ThreadsAssumption, SemValueMaxAssumption
  <2> QED
    BY <1>1, <2>1, <2>2, NType, SemValueMaxAssumption DEF IInv, SemPostFails, TypeOK
<1>5. N({"wait"}) + N({"undo"}) <= SEM_VALUE_MAX
  <2>1. N({"wait"} \cup {"undo"}) = N({"wait"}) + N({"undo"})
    BY NUnion
  <2> QED
    BY <2>1, NType, ThreadsAssumption, SemValueMaxAssumption
<1>6. N({"post"}) >= 1
  BY <1>1, NPositive
<1> QED
  BY <1>1, <1>2, <1>3, <1>4, <1>5, <1>6, SemValueMaxAssumption, NType, InitCountAssumption DEF IInv, SemPostFails, TypeOK

\* Every step of the specification preserves the invariant.
LEMMA NextIInv == IInv /\ [Next]_vars => IInv'
<1> SUFFICES ASSUME IInv, [Next]_vars PROVE IInv'
  OBVIOUS
<1>1. CASE Next
  BY <1>1, DecrementIInv, WakeIInv, InterruptedIInv, GiveUpIInv, IncrementIInv,
     PostIInv, PostFailsIInv DEF Next
<1>2. CASE UNCHANGED vars
  BY <1>2 DEF vars, IInv, TypeOK, N, At, AlwaysSleep, NeverSleep
<1> QED
  BY <1>1, <1>2

\* The accounting invariant holds of every reachable state of the semaphore.
THEOREM Accounting == Spec => []IInv
BY InitIInv, NextIInv, PTL DEF Spec

\* The counter and the program counters stay in their types (esynch.cpp).
THEOREM TypeCorrect == Spec => []TypeOK
<1>1. IInv => TypeOK
  BY DEF IInv
<1> QED
  BY <1>1, Accounting, PTL

\* No count is ever lost or doubled by Decrement's undo or by Increment,
\* whatever the callers pass and whatever signals arrive.
THEOREM CountsBalance == Spec => []CountAccounting
<1>1. IInv => CountAccounting
  BY DEF IInv, CountAccounting, N, Counted
<1> QED
  BY <1>1, Accounting, PTL

\* Every thread that sleeps in Decrement is covered by the negative count, by a
\* posted token or by a post still owed, whatever the callers pass and whatever
\* signals arrive: Increment never concludes that nobody sleeps while one does.
THEOREM SleepersAreCovered == Spec => []SleepersCovered
<1>1. IInv => SleepersCovered
  BY NType DEF IInv, SleepersCovered, Cover, N, TypeOK
<1> QED
  BY <1>1, Accounting, PTL

\* When every Decrement sleeps until it is admitted, every posted token and every
\* post still owed has exactly one sleeper: no wakeup is lost or left over.
THEOREM TokensMatchSleepers == Spec => []NoStrayToken
<1>1. IInv => NoStrayToken
  BY DEF IInv, NoStrayToken, Cover, N
<1> QED
  BY <1>1, Accounting, PTL

\* Decrement admits at most the initial count of threads at a time, for any
\* number of threads, when all callers sleep or none does.
THEOREM PermitsBounded == Spec => []PermitBound
<1>1. IInv => PermitBound
  <2> SUFFICES ASSUME IInv, Uniform PROVE N({"held"}) <= InitCount
    BY DEF PermitBound, AdmissionBound, N
  <2>1. CASE AlwaysSleep
    BY <2>1, CountedSplit, NType, InitCountAssumption DEF IInv, TypeOK
  <2>2. CASE NeverSleep
    BY <2>2 DEF IInv
  <2> QED
    BY <2>1, <2>2 DEF Uniform
<1> QED
  BY <1>1, Accounting, PTL
===============================================================================
