----------------------------- MODULE RoundRobin -----------------------------
(***************************************************************************)
(* What a round-robin pool promises, with no loop: a request is given, in  *)
(* one step, the nearest active backend after the one used last, or is     *)
(* refused when none is active.                                            *)
(***************************************************************************)
EXTENDS Integers, Sequences, FiniteSetsExt

CONSTANT Request

VARIABLES
    ring,     \* the backends in order: [id, state]
    cursor,   \* index (from 0) of the backend used last
    waiting,  \* requests that have no backend yet
    chosen    \* the backend id each request was given, 0 for none

rrvars == <<ring, cursor, waiting, chosen>>

Slot(k) == (cursor + k) % Len(ring)

(* Distances from the cursor to the active backends *)
Offsets == {k \in 1 .. Len(ring) : ring[Slot(k) + 1].state # "Down"}

Init ==
    /\ ring = <<>>
    /\ cursor = 0
    /\ waiting = Request
    /\ chosen = [r \in Request |-> 0]

Choose(r) ==
    /\ r \in waiting
    /\ Offsets # {}
    /\ LET i == Slot(Min(Offsets))
       IN  /\ cursor' = i
           /\ chosen' = [chosen EXCEPT ![r] = ring[i + 1].id]
    /\ waiting' = waiting \ {r}
    /\ UNCHANGED ring

Refuse(r) ==
    /\ r \in waiting
    /\ Offsets = {}
    /\ waiting' = waiting \ {r}
    /\ UNCHANGED <<ring, cursor, chosen>>

(* Backends are added at the end and change state; none leaves its place,  *)
(* so the cursor stays at the backend used last.                           *)
Reconfigure ==
    /\ DOMAIN ring \subseteq DOMAIN ring'
    /\ \A i \in DOMAIN ring : ring'[i].id = ring[i].id
    /\ UNCHANGED <<cursor, waiting, chosen>>

Next == Reconfigure \/ \E r \in Request : Choose(r) \/ Refuse(r)

Spec == Init /\ [][Next]_rrvars
=============================================================================
