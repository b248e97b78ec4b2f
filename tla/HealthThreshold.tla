--------------------------- MODULE HealthThreshold --------------------------
(***************************************************************************)
(* What health checking promises (src/README.md, src/src/config.rs): an    *)
(* active backend is marked down by `Failures` consecutive failed checks,  *)
(* a down one is marked active by `Passes` consecutive passed checks, and  *)
(* nothing else changes its state, but for a backend that cannot be        *)
(* checked at all.                                                         *)
(***************************************************************************)
EXTENDS Integers

CONSTANTS Backend, Failures, Passes

VARIABLES
    known,   \* backends in the pool
    status,  \* "Active" or "Down"
    streak   \* consecutive checks that contradict the status

hvars == <<known, status, streak>>

Init ==
    /\ known = {}
    /\ status = [b \in Backend |-> "Active"]
    /\ streak = [b \in Backend |-> 0]

Add(b) ==
    /\ b \notin known
    /\ known' = known \cup {b}
    /\ UNCHANGED <<status, streak>>

(* A check that agrees with the status ends the streak *)
Agree(b) ==
    /\ streak' = [streak EXCEPT ![b] = 0]
    /\ UNCHANGED <<known, status>>

(* One that contradicts it continues the streak, and flips the status when *)
(* the streak is long enough.                                              *)
Contradict(b, threshold, other) ==
    /\ UNCHANGED known
    /\ \/ /\ streak[b] + 1 < threshold
          /\ streak' = [streak EXCEPT ![b] = @ + 1]
          /\ UNCHANGED status
       \/ /\ streak[b] + 1 >= threshold
          /\ streak' = [streak EXCEPT ![b] = 0]
          /\ status' = [status EXCEPT ![b] = other]

Pass(b) ==
    /\ b \in known
    /\ IF status[b] = "Active" THEN Agree(b) ELSE Contradict(b, Passes, "Active")

Fail(b) ==
    /\ b \in known
    /\ IF status[b] = "Down" THEN Agree(b) ELSE Contradict(b, Failures, "Down")

(* Backends that cannot be checked are taken down *)
Disable(D) ==
    /\ D \subseteq known
    /\ status' = [b \in Backend |-> IF b \in D THEN "Down" ELSE status[b]]
    /\ UNCHANGED <<known, streak>>

Next ==
    \/ \E b \in Backend : Add(b) \/ Pass(b) \/ Fail(b)
    \/ \E D \in SUBSET Backend : Disable(D)

Spec == Init /\ [][Next]_hvars
=============================================================================
