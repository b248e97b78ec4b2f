----------------------------- MODULE Broadcast ------------------------------
(***************************************************************************)
(* What the manager's publications promise its workers: each worker takes  *)
(* updates in the order they were published, none twice, none invented.    *)
(* It does not promise that a worker takes them all.                       *)
(***************************************************************************)
EXTENDS Integers, Sequences

CONSTANT Worker

VARIABLES
    published,  \* updates published so far, numbered from 1
    applied     \* per worker, the updates it took, in order

bvars == <<published, applied>>

Init ==
    /\ published = 0
    /\ applied = [w \in Worker |-> <<>>]

Publish == published' = published + 1 /\ UNCHANGED applied

(* The newest update a worker took, 0 for none *)
Newest(w) == IF applied[w] = <<>> THEN 0 ELSE applied[w][Len(applied[w])]

Apply(w) ==
    \E n \in 1 .. published :
        /\ n > Newest(w)
        /\ applied' = [applied EXCEPT ![w] = Append(@, n)]
        /\ UNCHANGED published

Next == Publish \/ \E w \in Worker : Apply(w)

Spec == Init /\ [][Next]_bvars
=============================================================================
