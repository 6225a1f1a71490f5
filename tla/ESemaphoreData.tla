---------------------------- MODULE ESemaphoreData ----------------------------
(***************************************************************************)
(* The memory operations of one ESemaphoreData object (esynch.cpp).        *)
(*                                                                         *)
(* The semaphore is a "benaphore": an atomic counter m_currCount in front  *)
(* of a kernel semaphore m_sem that starts at zero and is touched only     *)
(* when the counter says that somebody has to sleep or to be woken.        *)
(* atomic_dec and atomic_inc are __sync_sub_and_fetch/__sync_add_and_fetch *)
(* (eatomic.h), so every test below is on the NEW value of the counter.    *)
(*                                                                         *)
(* Decrement and Increment are not atomic: each action here is one access  *)
(* to shared memory, and the modules that use this one put a thread's      *)
(* program counter between them.                                           *)
(***************************************************************************)
EXTENDS Integers

CONSTANT SEM_VALUE_MAX   \* the largest value of a kernel semaphore

ASSUME SemValueMaxAssumption == SEM_VALUE_MAX \in Nat \ {0}

VARIABLES
    currCount,   \* m_currCount
    sem          \* value of the kernel semaphore m_sem

semVars == <<currCount, sem>>

\* init(): sem_init(&m_sem, .., 0); m_currCount = m_initCount.
SemInit(initCount) == currCount = initCount /\ sem = 0

\* Faulty variant of DecAdmitted: admits at zero (val >= -1).
DecAdmittedAtZero ==
    /\ currCount >= 0
    /\ currCount' = currCount - 1
    /\ UNCHANGED sem

\* Decrement: val = atomic_dec(m_currCount) with val >= 0, admitted at once.
DecAdmitted ==
    /\ currCount - 1 >= 0
    /\ currCount' = currCount - 1
    /\ UNCHANGED sem

\* Faulty variant of DecRefused: tests the counter without taking from it.
DecRefusedUncounted ==
    /\ currCount - 1 < 0
    /\ UNCHANGED semVars

\* Decrement: val = atomic_dec(m_currCount) with val < 0, not admitted.
DecRefused ==
    /\ currCount - 1 < 0
    /\ currCount' = currCount - 1
    /\ UNCHANGED sem

\* Decrement: sem_wait(&m_sem) returns 0.
SemWait ==
    /\ sem > 0
    /\ sem' = sem - 1
    /\ UNCHANGED currCount

\* Decrement: atomic_inc(m_currCount) before returning False, either because
\* wait is False or because sem_wait failed (EINTR).
DecUndo ==
    /\ currCount' = currCount + 1
    /\ UNCHANGED sem

\* Faulty variant of IncDone: misses the last sleeper (val >= 0).
IncDoneMissesSleeper ==
    /\ currCount + 1 >= 0
    /\ currCount' = currCount + 1
    /\ UNCHANGED sem

\* Increment: val = atomic_inc(m_currCount) with val >= 1, nobody to wake.
IncDone ==
    /\ currCount + 1 >= 1
    /\ currCount' = currCount + 1
    /\ UNCHANGED sem

\* Increment: val = atomic_inc(m_currCount) with val < 1, a post is owed.
IncOwesPost ==
    /\ currCount + 1 < 1
    /\ currCount' = currCount + 1
    /\ UNCHANGED sem

\* Faulty variant of SemPost: no upper limit.
SemPostUnlimited ==
    /\ sem' = sem + 1
    /\ UNCHANGED currCount

\* Increment: sem_post(&m_sem) returns 0.
SemPost ==
    /\ sem < SEM_VALUE_MAX
    /\ sem' = sem + 1
    /\ UNCHANGED currCount

\* Increment: sem_post fails (EOVERFLOW); atomic_dec(m_currCount) and throw.
SemPostFails ==
    /\ sem >= SEM_VALUE_MAX
    /\ currCount' = currCount - 1
    /\ UNCHANGED sem
===============================================================================
