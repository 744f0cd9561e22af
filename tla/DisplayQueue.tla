---------------------------- MODULE DisplayQueue ----------------------------
(***************************************************************************)
(* What the chat inbox promises to the overlay and its operator, without   *)
(* tables, capacities or restarts: tickets are shown in the order they     *)
(* were issued, the ticket on air leaves only when the operator finishes   *)
(* it or clears the queue, room is made by losing the oldest waiting       *)
(* tickets, and every ticket lost that way is counted.                     *)
(***************************************************************************)
EXTENDS Integers, FiniteSets

VARIABLES
  queue,    \* tickets waiting, the least one is on air
  issued,   \* last ticket issued
  lost      \* tickets and offers lost for lack of room

vars == <<queue, issued, lost>>

OnAir(t) == t \in queue /\ \A u \in queue : t <= u

\* What may be lost: a set of waiting tickets that leaves none older behind.
OldestWaiting(gone) ==
  /\ gone \subseteq {t \in queue : ~OnAir(t)}
  /\ \A t \in gone, u \in queue : u < t => OnAir(u) \/ u \in gone

Init == queue = {} /\ issued = 0 /\ lost = 0

\* A new ticket joins at the end, in the place of at most one waiting ticket.
Join ==
  \E gone \in SUBSET queue :
    /\ OldestWaiting(gone)
    /\ Cardinality(gone) <= 1
    /\ queue' = (queue \ gone) \cup {issued + 1}
    /\ issued' = issued + 1
    /\ lost' = lost + Cardinality(gone)

Refuse == lost' = lost + 1 /\ UNCHANGED <<queue, issued>>

Shed ==
  \E gone \in SUBSET queue :
    /\ gone # {}
    /\ OldestWaiting(gone)
    /\ queue' = queue \ gone
    /\ lost' = lost + Cardinality(gone)
    /\ UNCHANGED issued

Finish ==
  \E t \in queue : OnAir(t) /\ queue' = queue \ {t} /\ UNCHANGED <<issued, lost>>

Clear == queue' = {} /\ UNCHANGED <<issued, lost>>

Next == Join \/ Refuse \/ Shed \/ Finish \/ Clear

Spec == Init /\ [][Next]_vars
=============================================================================
