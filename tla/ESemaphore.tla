------------------------------ MODULE ESemaphore ------------------------------
(***************************************************************************)
(* Threads that take and return the permits of one ESemaphore, as the      *)
(* clients of esynch.h do: Decrement(wait), use the permit, Increment.     *)
(*                                                                         *)
(* How the clients use the object is fixed at the start: usage.waits is    *)
(* the set of values they pass for the parameter wait, and usage.signals   *)
(* says whether handled signals arrive while a thread sleeps in sem_wait   *)
(* (the timer handler of etevent.h is installed without SA_RESTART, so     *)
(* sem_wait then fails with EINTR).                                        *)
(***************************************************************************)
EXTENDS FiniteSets, ESemaphoreData

CONSTANTS
    Threads,     \* the threads that share the semaphore
    InitCount,   \* m_initCount
    Usages       \* the usages to consider

ASSUME ThreadsAssumption ==
    IsFiniteSet(Threads) /\ Cardinality(Threads) <= SEM_VALUE_MAX
ASSUME InitCountAssumption == InitCount \in Nat
ASSUME UsagesAssumption ==
    Usages \subseteq [waits : SUBSET BOOLEAN, signals : BOOLEAN]

VARIABLES
    usage,       \* how the clients use the semaphore
    pc           \* where each thread is in Decrement or Increment

vars == <<currCount, sem, usage, pc>>

(***************************************************************************)
(* "idle" outside; "wait" in sem_wait; "undo" about to give the count back *)
(* and return False; "held" Decrement returned True; "post" in Increment   *)
(* with a sem_post owed; "threw" after Increment's exception.              *)
(***************************************************************************)
Locations == {"idle", "wait", "undo", "held", "post", "threw"}

At(L) == {t \in Threads : pc[t] \in L}

Init ==
    /\ usage \in Usages
    /\ SemInit(InitCount)
    /\ pc = [t \in Threads |-> "idle"]

Goto(t, l) == pc' = [pc EXCEPT ![t] = l] /\ UNCHANGED usage

\* Decrement(wait), up to the sem_wait.
Decrement(t, wait) ==
    /\ pc[t] = "idle"
    /\ \/ DecAdmitted /\ Goto(t, "held")
       \/ DecRefused /\ Goto(t, IF wait THEN "wait" ELSE "undo")

\* sem_wait succeeds: Decrement returns True.
Wake(t) ==
    /\ pc[t] = "wait"
    /\ SemWait
    /\ Goto(t, "held")

\* A signal handler ran while the thread slept: sem_wait returns -1 (EINTR).
Interrupted(t) ==
    /\ usage.signals
    /\ pc[t] = "wait"
    /\ Goto(t, "undo")
    /\ UNCHANGED semVars

\* The failing Decrement gives its count back and returns False.
GiveUp(t) ==
    /\ pc[t] = "undo"
    /\ DecUndo
    /\ Goto(t, "idle")

\* Increment(), up to the sem_post.
Increment(t) ==
    /\ pc[t] = "held"
    /\ \/ IncDone /\ Goto(t, "idle")
       \/ IncOwesPost /\ Goto(t, "post")

\* The sem_post of Increment.
Post(t) ==
    /\ pc[t] = "post"
    /\ SemPost
    /\ Goto(t, "idle")

\* The sem_post fails: Increment takes its count back and throws.
PostFails(t) ==
    /\ pc[t] = "post"
    /\ SemPostFails
    /\ Goto(t, "threw")

\* The steps of a thread that has entered an operation and will finish it.
Finish(t) == Wake(t) \/ GiveUp(t) \/ Post(t) \/ PostFails(t)

Next ==
    \E t \in Threads :
        \/ \E wait \in usage.waits : Decrement(t, wait)
        \/ Wake(t)
        \/ Interrupted(t)
        \/ GiveUp(t)
        \/ Increment(t)
        \/ Post(t)
        \/ PostFails(t)

(***************************************************************************)
(* A thread inside Decrement or Increment is scheduled until it returns.   *)
(* Nothing obliges a thread to call Decrement, or to call Increment soon.  *)
(***************************************************************************)
Spec == Init /\ [][Next]_vars /\ \A t \in Threads : WF_vars(Finish(t))

-------------------------------------------------------------------------------
\* The type of the counter, the kernel semaphore and the program counters.
TypeOK ==
    /\ currCount \in Int
    /\ sem \in 0 .. SEM_VALUE_MAX
    /\ usage \in Usages
    /\ pc \in [Threads -> Locations]

\* The usages in which a Decrement that sleeps is never given up.
AlwaysSleep == usage.waits = {TRUE} /\ ~usage.signals
NeverSleep == usage.waits = {FALSE}
Uniform == AlwaysSleep \/ NeverSleep

\* Decrement admits no more threads than the initial count: at zero it does not
\* return True until an Increment has been made, for every usage.
AdmissionBound == Cardinality(At({"held"})) <= InitCount

\* Decrement and Increment (esynch.cpp) keep the admission bound whenever all
\* callers sleep undisturbed, or none ever sleeps.
PermitBound == Uniform => AdmissionBound

\* The counter is the initial count less the threads that hold, await, are
\* giving back or failed to return a permit: Decrement's undo and Increment neither lose nor double
\* a count, whatever signals arrive.
CountAccounting ==
    currCount = InitCount - Cardinality(At({"held", "wait", "undo", "threw"}))

\* Between Increment's atomic_inc and Decrement's sem_wait, every sleeper is
\* covered by the negative count, by a posted token or by a sem_post to come.
Cover ==
    (IF currCount < 0 THEN -currCount ELSE 0) + sem + Cardinality(At({"post"}))

\* No sleeper is uncovered, for every usage.
SleepersCovered == Cardinality(At({"wait"})) <= Cover

\* When Decrement is never given up, no token is left over either.
NoStrayToken == AlwaysSleep => Cardinality(At({"wait"})) = Cover

\* Increment's sem_post reaches a sleeper: when a thread sleeps in Decrement and
\* a permit stays free, sleepers leave sem_wait again and again, with a token or by a
\* signal.  Which sleeper gets a token is the kernel's choice, so that one thread
\* alone may be overtaken for ever.
NoLostWakeup ==
    \/ []<>~(At({"wait"}) # {} /\ Cardinality(At({"held"})) < InitCount)
    \/ []<><<\E t \in Threads : Wake(t) \/ Interrupted(t)>>_vars
===============================================================================
