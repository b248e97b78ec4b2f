-------------------------------- MODULE Pool --------------------------------
(***************************************************************************)
(* A worker's pool: the round-robin InnerPool of src/src/pool.rs, driven   *)
(* by the proxy (Pool::request) and by the manager's messages (the         *)
(* SubscriberImpl handlers of src/src/mgmt/worker.rs).                     *)
(*                                                                         *)
(* A worker is one thread and get holds the RefCell for its whole loop, so *)
(* nothing else runs while a request is choosing.  The loop is one action  *)
(* per iteration, which makes a loop that never returns visible.  Between  *)
(* the choice of a backend and its answer everything else may happen.      *)
(***************************************************************************)
EXTENDS PoolOps, FiniteSets

CONSTANTS
    Server,       \* servers the management API may name
    Request,      \* client requests; each is sent once
    MaxBackends   \* bound on the backends ever pushed

ASSUME PoolAssumption == MaxBackends \in Nat

VARIABLES
    pool,         \* the Pool (see PoolOps)
    phase,        \* progress of each request through Pool::request
    target,       \* the Backend a request holds; 0 before it has one
    start,        \* the local `start` of the running call of get
    turn,         \* history: backends chosen since the pool last changed
    ordered_down  \* history: servers the manager's last message put down

vars == <<pool, phase, target, start, turn, ordered_down>>

Phase == {"new", "choosing", "sent", "ok", "server_error", "error", "exhausted"}

Outcome == {"ok", "server_error", "error"}

TypeOK ==
    /\ pool \in PoolType(Server)
    /\ Handles(pool) \subseteq DOMAIN pool.cell
    /\ phase \in [Request -> Phase]
    /\ target \in [Request -> {0} \cup DOMAIN pool.cell]
    /\ start \in Nat
    /\ turn \subseteq DOMAIN pool.cell
    /\ ordered_down \subseteq Server

Init ==
    /\ pool = EmptyPool
    /\ phase = [r \in Request |-> "new"]
    /\ target = [r \in Request |-> 0]
    /\ start = 0
    /\ turn = {}
    /\ ordered_down = {}

(* The RefCell of the pool is mutably borrowed by a running get *)
Borrowed == \E r \in Request : phase[r] = "choosing"

-----------------------------------------------------------------------------
(* Fault: start is taken after the cursor's first move *)
FaultStartAfterMove(r) ==
    /\ ~Borrowed
    /\ phase[r] = "new"
    /\ pool.backends # <<>>
    /\ phase' = [phase EXCEPT ![r] = "choosing"]
    /\ start' = pool.last_used + 1
    /\ UNCHANGED <<pool, target, turn, ordered_down>>

(* Pool::request: an empty pool fails at once, otherwise get starts looping *)
SendRequest(r) ==
    /\ ~Borrowed
    /\ phase[r] = "new"
    /\ \/ /\ pool.backends = <<>>
          /\ phase' = [phase EXCEPT ![r] = "exhausted"]
          /\ UNCHANGED start
       \/ /\ pool.backends # <<>>
          /\ phase' = [phase EXCEPT ![r] = "choosing"]
          /\ start' = pool.last_used
    /\ UNCHANGED <<pool, target, turn, ordered_down>>

(* One iteration of the loop.  The `None` arm of backends.get() is not     *)
(* modelled: an index taken modulo the length is never out of range.       *)
GetStep(r) ==
    LET i == NextIndex(pool)
        b == BackendAt(pool, i)
    IN  /\ phase[r] = "choosing"
        /\ pool' = MoveCursor(pool, i)
        /\ \/ /\ IsDown(pool, b)
              /\ phase' = [phase EXCEPT ![r] = IF start = i THEN "exhausted" ELSE @]
              /\ UNCHANGED <<target, turn>>
           \/ /\ ~IsDown(pool, b)
              /\ phase' = [phase EXCEPT ![r] = "sent"]
              /\ target' = [target EXCEPT ![r] = b]
              /\ turn' = IF b \in turn THEN {b} ELSE turn \cup {b}
        /\ UNCHANGED <<start, ordered_down>>

(* Fault: every answer is a success, a 5xx included *)
FaultCountAnswers(r, o) ==
    /\ ~Borrowed
    /\ phase[r] = "sent"
    /\ phase' = [phase EXCEPT ![r] = o]
    /\ pool' = IF o # "error" THEN IncSuccess(pool, target[r])
                              ELSE IncFailure(pool, target[r])
    /\ UNCHANGED <<target, start, turn, ordered_down>>

(* The `then` of Pool::request: the answer, a 5xx answer or an I/O error   *)
(* (a timeout of the connector included) is counted on the backend the     *)
(* request still holds, in the pool or not.                                *)
Respond(r, o) ==
    /\ ~Borrowed
    /\ phase[r] = "sent"
    /\ phase' = [phase EXCEPT ![r] = o]
    /\ pool' = IF o = "ok" THEN IncSuccess(pool, target[r])
                           ELSE IncFailure(pool, target[r])
    /\ UNCHANGED <<target, start, turn, ordered_down>>

(* SubscriberImpl::add_server *)
AddServer(s) ==
    /\ ~Borrowed
    /\ PoolContains(pool, s) \/ Len(pool.cell) < MaxBackends
    /\ pool' = PoolAdd(pool, s)
    /\ turn' = {}
    /\ ordered_down' = ordered_down \ {s}
    /\ UNCHANGED <<phase, target, start>>

(* SubscriberImpl::mark_server_down and mark_server_active: the backend    *)
(* find() returns is marked; an unknown server is only logged.             *)
MarkServer(s, st) ==
    /\ ~Borrowed
    /\ Positions(pool, s) # {}
    /\ pool' = MarkBackend(pool, PoolFind(pool, s), st)
    /\ turn' = {}
    /\ UNCHANGED <<phase, target, start>>

MarkServerDown(s) ==
    /\ MarkServer(s, "Down")
    /\ ordered_down' = ordered_down \cup {s}

MarkServerActive(s) ==
    /\ MarkServer(s, "Active")
    /\ ordered_down' = ordered_down \ {s}

(* Pool::remove.  Public, but no part of weldr calls it: the DELETE        *)
(* handler of the management API that would is commented out.              *)
RemoveServer(s) ==
    /\ ~Borrowed
    /\ Positions(pool, s) # {}
    /\ pool' = PoolRemove(pool, s)
    /\ turn' = {}
    /\ UNCHANGED <<phase, target, start, ordered_down>>

Next ==
    \/ \E r \in Request : SendRequest(r) \/ GetStep(r)
    \/ \E r \in Request, o \in Outcome : Respond(r, o)
    \/ \E s \in Server : AddServer(s) \/ MarkServerDown(s) \/ MarkServerActive(s)

(* The worker as weldr runs it *)
Spec == Init /\ [][Next]_vars

(* A running loop is the running thread: it is never suspended for good *)
Fairness == \A r \in Request : WF_vars(GetStep(r))

FairSpec == Spec /\ Fairness

(* The pool as the library exports it, remove included *)
LibNext == Next \/ \E s \in Server : RemoveServer(s)

LibSpec == Init /\ [][LibNext]_vars

LibFairSpec == LibSpec /\ Fairness

-----------------------------------------------------------------------------
(* Invariants and action properties *)

(* The cursor of InnerPool::get is an index of the Vec (0 when it is       *)
(* empty), and so is the `start` a running loop compares it with: the exit *)
(* test `start == self.last_used` can only be met from inside the Vec.     *)
CursorInRange ==
    /\ IF pool.backends = <<>> THEN pool.last_used = 0
                               ELSE pool.last_used < Len(pool.backends)
    /\ Borrowed => pool.backends # <<>> /\ start < Len(pool.backends)

(* The indices the running loop has passed since it left start *)
Visited ==
    {k \in 0 .. Len(pool.backends) - 1 :
        IF start <= pool.last_used THEN start < k /\ k <= pool.last_used
                                   ELSE start < k \/ k <= pool.last_used}

(* Everything a running get has passed over is down, although only the     *)
(* test `start == self.last_used` tells it when it has seen the whole Vec. *)
VisitedDown ==
    Borrowed => \A k \in Visited : IsDown(pool, BackendAt(pool, k))

(* Iterations the loop of get may still make before it is back at start *)
Remaining ==
    IF pool.last_used < start THEN start - pool.last_used
    ELSE start + Len(pool.backends) - pool.last_used

(* Every iteration of get that does not return brings the cursor strictly  *)
(* closer to start, so get makes at most len iterations.                   *)
GetProgress ==
    [][\A r \in Request :
        phase[r] = "choosing" /\ phase'[r] = "choosing" =>
            Remaining' < Remaining /\ Remaining' > 0]_vars

(* A request is refused ("Pool is exhausted of servers") only when every   *)
(* backend of the pool is down: the loop of get visits each one before it  *)
(* gives up.                                                               *)
ExhaustedOnlyWhenAllDown ==
    [][\A r \in Request :
        phase[r] # "exhausted" /\ phase'[r] = "exhausted" =>
            \A b \in Handles(pool) : IsDown(pool, b)]_vars

(* Round robin: while the pool does not change, no backend is chosen a     *)
(* second time before every active backend has been chosen once.           *)
FairRotation ==
    [][\A r \in Request :
        phase[r] = "choosing" /\ phase'[r] = "sent" /\ target'[r] \in turn =>
            {b \in Handles(pool) : ~IsDown(pool, b)} \subseteq turn]_vars

(* The server a request is sent to was not marked down by the manager's    *)
(* last word on it.                                                        *)
ChoosesUnlessOrderedDown(r) ==
    phase[r] = "choosing" /\ phase'[r] = "sent" =>
        ServerOf(pool, target'[r]) \notin ordered_down

(* mark_server_down takes the server out of rotation as long as the pool   *)
(* holds one backend per server.                                           *)
DownNotServed ==
    [][~HasDuplicate(pool) => \A r \in Request : ChoosesUnlessOrderedDown(r)]_vars

(* Stats: each answered request is counted once, as what it was, on the    *)
(* backend that served it, whatever happened to the pool meanwhile.        *)
StatsExact ==
    \A b \in DOMAIN pool.cell :
        LET served(P) == Cardinality({r \in Request : target[r] = b /\ phase[r] \in P})
        IN  /\ pool.cell[b].success = served({"ok"})
            /\ pool.cell[b].failure = served({"server_error", "error"})

(* A call of get returns: the pool "may be exhausted of eligible addresses *)
(* [...] and will return an error" (Pool::request).                        *)
GetReturns ==
    \A r \in Request : phase[r] = "choosing" ~> phase[r] # "choosing"

-----------------------------------------------------------------------------
(* The inductive invariant behind the theorems of PoolProofs *)

(* One call of get at a time: the RefCell is borrowed for the whole loop   *)
OneBorrower ==
    \A q, r \in Request :
        phase[q] = "choosing" /\ phase[r] = "choosing" => q = r

(* A request that was sent holds a backend *)
SentHasTarget ==
    \A r \in Request : phase[r] = "sent" => target[r] # 0

(* In a pool with one backend per server the servers ordered down are down *)
OrderedAreDown ==
    ~HasDuplicate(pool) =>
        \A b \in Handles(pool) : ServerOf(pool, b) \in ordered_down => IsDown(pool, b)

PoolInv ==
    /\ TypeOK
    /\ CursorInRange
    /\ VisitedDown
    /\ OneBorrower
    /\ SentHasTarget
    /\ OrderedAreDown

(* Every handle is in the Vec once                                         *)
HandlesDistinct ==
    \A i, j \in DOMAIN pool.backends : pool.backends[i] = pool.backends[j] => i = j

(* Where the last choice left the cursor: while a loop runs, at its start  *)
LastChoice == IF Borrowed THEN start ELSE pool.last_used

(* The indices below n from a on to c, round the end if need be            *)
Arc(n, a, c) ==
    {k \in 0 .. n - 1 : IF a <= c THEN a <= k /\ k <= c ELSE a <= k \/ k <= c}

ActiveIn(p, K) == {BackendAt(p, k) : k \in {j \in K : ~IsDown(p, BackendAt(p, j))}}

(* The backends of this turn are the active ones on an arc that ends at    *)
(* the last choice: no active backend was passed over.                     *)
TurnIsArc ==
    turn # {} =>
        LET n == Len(pool.backends)
        IN  \E a \in 0 .. n - 1 : turn = ActiveIn(pool, Arc(n, a, LastChoice))

RotationInv == HandlesDistinct /\ TurnIsArc

(* Finitely many requests have an outcome at any time                      *)
StatsInv == IsFiniteSet({r \in Request : phase[r] \in Outcome}) /\ StatsExact

-----------------------------------------------------------------------------
(* What the abstract pool sees of this one                                 *)
Ring(p) ==
    [i \in DOMAIN p.backends |->
        [id |-> p.backends[i], state |-> p.cell[p.backends[i]].state]]

Waiting == {r \in Request : phase[r] \in {"new", "choosing"}}

(* The loop implements an atomic choice of the next active backend: while  *)
(* it runs the abstract cursor is still where it started.                  *)
RR == INSTANCE RoundRobin WITH
    ring <- Ring(pool),
    cursor <- LastChoice,
    waiting <- Waiting,
    chosen <- target

ImplementsRoundRobin == RR!Spec
=============================================================================
