------------------------------ MODULE BoundedFIFO ------------------------------
(***************************************************************************)
(* What an event queue promises (etevent.h, the comments on push and pop): *)
(* a message that push added is handed to one pop, once, in the order of   *)
(* the pushes, and the queue never holds more than its size.               *)
(***************************************************************************)
EXTENDS Naturals, Sequences

CONSTANTS Consumers, Msgs, Capacity, NoMsg

VARIABLES
    q,      \* the messages added and not yet removed
    got     \* the message each consumer has removed and not yet used

Init ==
    /\ q = << >>
    /\ got = [c \in Consumers |-> NoMsg]

Push(m) ==
    /\ Len(q) < Capacity
    /\ q' = Append(q, m)
    /\ UNCHANGED got

Pop(c) ==
    /\ got[c] = NoMsg
    /\ q # << >>
    /\ got' = [got EXCEPT ![c] = Head(q)]
    /\ q' = Tail(q)

Use(c) ==
    /\ got[c] # NoMsg
    /\ got' = [got EXCEPT ![c] = NoMsg]
    /\ UNCHANGED q

Next == (\E m \in Msgs : Push(m)) \/ (\E c \in Consumers : Pop(c) \/ Use(c))

Spec == Init /\ [][Next]_<<q, got>>
===============================================================================
