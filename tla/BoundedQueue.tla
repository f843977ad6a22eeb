---------------------------- MODULE BoundedQueue ----------------------------
(***************************************************************************)
(* What a bounded blocking queue promises its callers, whatever locks and  *)
(* condition variables it is made of: put and take are atomic, products    *)
(* leave in the order in which they entered, each goes to one taker, no    *)
(* more than Capacity are stored, and a taker is sent away empty-handed    *)
(* only once the queue has been closed.                                    *)
(***************************************************************************)
EXTENDS Naturals, Sequences

CONSTANTS Clients, Items, Capacity, NULL

VARIABLES
    items,      \* the stored products, oldest first
    open,       \* FALSE once the queue was closed
    mode,       \* what each client is waiting for
    hand        \* the product each client offers, or was given

vars == <<items, open, mode, hand>>

Init ==
    /\ items = << >>
    /\ open = TRUE
    /\ mode = [c \in Clients |-> "idle"]
    /\ hand = [c \in Clients |-> NULL]

Offer(c, p) ==
    /\ mode[c] = "idle"
    /\ mode' = [mode EXCEPT ![c] = "putting"]
    /\ hand' = [hand EXCEPT ![c] = p]
    /\ UNCHANGED <<items, open>>

Put(c) ==
    /\ mode[c] = "putting"
    /\ Len(items) < Capacity
    /\ items' = Append(items, hand[c])
    /\ mode' = [mode EXCEPT ![c] = "idle"]
    /\ hand' = [hand EXCEPT ![c] = NULL]
    /\ UNCHANGED open

Ask(c) ==
    /\ mode[c] = "idle"
    /\ mode' = [mode EXCEPT ![c] = "taking"]
    /\ hand' = [hand EXCEPT ![c] = NULL]
    /\ UNCHANGED <<items, open>>

Take(c) ==
    /\ mode[c] = "taking"
    /\ items # << >>
    /\ hand' = [hand EXCEPT ![c] = Head(items)]
    /\ items' = Tail(items)
    /\ mode' = [mode EXCEPT ![c] = "idle"]
    /\ UNCHANGED open

Refuse(c) ==
    /\ mode[c] = "taking"
    /\ ~open
    /\ mode' = [mode EXCEPT ![c] = "idle"]
    /\ UNCHANGED <<items, open, hand>>

Drop(c) ==
    /\ mode[c] = "idle"
    /\ hand' = [hand EXCEPT ![c] = NULL]
    /\ UNCHANGED <<items, open, mode>>

Close ==
    /\ open' = FALSE
    /\ UNCHANGED <<items, mode, hand>>

Next ==
    \/ \E c \in Clients :
        \/ \E p \in Items : Offer(c, p)
        \/ Put(c) \/ Ask(c) \/ Take(c) \/ Refuse(c) \/ Drop(c)
    \/ Close

Spec == Init /\ [][Next]_vars
=============================================================================
