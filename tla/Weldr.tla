-------------------------------- MODULE Weldr -------------------------------
(***************************************************************************)
(* The manager and its workers together: the manager's pool with its API   *)
(* and health checks (BackendHealth), the publications and connections     *)
(* (PubSub), and one pool per worker.                                      *)
(*                                                                         *)
(* PubSub knows an update by its number; `updates` says what it is.  The   *)
(* components' actions are conjoined: a callback of the manager changes    *)
(* its pool and publishes before it ends, a message handler of a worker    *)
(* answers and changes the worker's pool.                                  *)
(***************************************************************************)
EXTENDS PoolOps, FiniteSets

CONSTANTS
    Server, BadHealthUrl, Hung, Failures, Passes, MaxBackends, MaxChecks,
    Worker, MaxInFlight, MaxPublished,
    MaxCounted   \* bound on the answers told apart in a worker's counters

ASSUME WeldrAssumption ==
    /\ BadHealthUrl \subseteq Server /\ Hung \subseteq Server
    /\ Failures \in Nat /\ Passes \in Nat
    /\ MaxBackends \in Nat /\ MaxChecks \in Nat \ {0}
    /\ MaxInFlight \in Nat \ {0} /\ MaxPublished \in Nat
    /\ MaxCounted \in Nat \ {0}

VARIABLES
    pool, health_state, checks, todo,        \* the manager (BackendHealth)
    worker, conn, subscribers, next_id, ticket, live, awaiting,
    toWorker, toManager, published, applied, skipped, since,   \* PubSub
    updates,                                 \* what update n is
    wpool                                    \* the Pool of each worker

manager == <<pool, health_state, checks, todo>>
pubsub == <<worker, conn, subscribers, next_id, ticket, live, awaiting,
            toWorker, toManager, published, applied, skipped, since>>
vars == <<manager, pubsub, updates, wpool>>

M == INSTANCE BackendHealth
P == INSTANCE PubSub

(* Which of the three methods of the Subscriber interface, and its url *)
Update == [op : {"Add"} \cup ServerState, server : Server]

TypeOK ==
    /\ M!TypeOK
    /\ P!TypeOK
    /\ updates \in Seq(Update) /\ Len(updates) = published
    /\ wpool \in [Worker -> PoolType(Server)]
    /\ \A w \in Worker : Handles(wpool[w]) \subseteq DOMAIN wpool[w].cell

Init ==
    /\ M!Init
    /\ P!Init
    /\ updates = <<>>
    /\ wpool = [w \in Worker |-> EmptyPool]

-----------------------------------------------------------------------------
(* The manager process *)

Announce(op, s) ==
    /\ P!Publish
    /\ updates' = Append(updates, [op |-> op, server |-> s])

(* A health check announces a state it has changed, and nothing else *)
AnnounceChange(op, b) ==
    \/ pool' # pool /\ Announce(op, ServerOf(pool, b))
    \/ pool' = pool /\ UNCHANGED <<pubsub, updates>>

(* add_server publishes whatever pool.add answered *)
AddServer(s) ==
    /\ M!AddServer(s)
    /\ Announce("Add", s)
    /\ UNCHANGED wpool

Tick == M!Tick /\ UNCHANGED <<pubsub, updates, wpool>>

(* Fault: a backend that cannot be checked is marked down silently *)
FaultDisableQuiet == M!CheckBackend /\ UNCHANGED <<pubsub, updates, wpool>>

CheckBackend ==
    /\ M!CheckBackend
    /\ AnnounceChange("Down", Head(todo))
    /\ UNCHANGED wpool

CheckPasses(b) ==
    /\ M!CheckPasses(b)
    /\ AnnounceChange("Active", b)
    /\ UNCHANGED wpool

CheckFails(b) ==
    /\ M!CheckFails(b)
    /\ AnnounceChange("Down", b)
    /\ UNCHANGED wpool

(* What only concerns the subscriptions *)
Connection(w) ==
    /\ \/ P!Subscribe(w) \/ P!Return(w) \/ P!Disconnect(w)
       \/ P!PromiseError(w) \/ P!DropSubscription(w)
       \/ P!Connect(w) \/ P!ConnectError(w)
    /\ UNCHANGED <<manager, updates, wpool>>

-----------------------------------------------------------------------------
(* The worker processes *)

(* Fault: a mark first makes sure that the server is there *)
FaultMarkReAdds(p, u) ==
    LET q == PoolAdd(p, u.server)
    IN  IF u.op = "Add" THEN q ELSE MarkBackend(q, PoolFind(q, u.server), u.op)

(* Fault: both marks are the same code *)
FaultMarkAlwaysActive(p, u) ==
    IF u.op = "Add" THEN PoolAdd(p, u.server)
    ELSE IF Positions(p, u.server) = {} THEN p
    ELSE MarkBackend(p, PoolFind(p, u.server), "Active")

(* The SubscriberImpl handlers on the worker's pool *)
ApplyUpdate(p, u) ==
    IF u.op = "Add" THEN PoolAdd(p, u.server)
    ELSE IF Positions(p, u.server) = {} THEN p
    ELSE MarkBackend(p, PoolFind(p, u.server), u.op)

Handle(w) ==
    LET n == Head(toWorker[w])
    IN  /\ P!Handle(w)
        /\ wpool' = IF n = 0 THEN wpool
                    ELSE [wpool EXCEPT ![w] = ApplyUpdate(@, updates[n])]
        /\ UNCHANGED <<manager, updates>>

(* The backends Pool::get may return, by their distance from the cursor *)
Eligible(p) ==
    {k \in 1 .. Len(p.backends) :
        ~IsDown(p, BackendAt(p, (p.last_used + k) % Len(p.backends)))}

(* A client's request: the next active backend in turn serves and counts   *)
(* it.  Only a count of zero matters to the pool (PoolContains).           *)
Serve(w) ==
    /\ worker[w] # "dead"
    /\ Eligible(wpool[w]) # {}
    /\ LET p == wpool[w]
           i == (p.last_used + Min(Eligible(p))) % Len(p.backends)
           b == BackendAt(p, i)
           q == MoveCursor(p, i)
       IN  wpool' = [wpool EXCEPT ![w] = IF p.cell[b].success < MaxCounted
                                         THEN IncSuccess(q, b) ELSE q]
    /\ UNCHANGED <<manager, pubsub, updates>>

Die(w) ==
    /\ P!Die(w)
    /\ wpool' = [wpool EXCEPT ![w] = EmptyPool]
    /\ UNCHANGED <<manager, updates>>

Next ==
    \/ \E s \in Server : AddServer(s)
    \/ Tick \/ CheckBackend
    \/ \E b \in M!Backend : CheckPasses(b) \/ CheckFails(b)
    \/ \E w \in Worker : Connection(w) \/ Handle(w) \/ Serve(w) \/ Die(w)

Spec == Init /\ [][Next]_vars

(* A worker's reactor comes to the messages it was sent *)
Fairness == \A w \in Worker : WF_vars(Handle(w))

FairSpec == Spec /\ Fairness

-----------------------------------------------------------------------------
(* Properties *)

Servers(p) == {ServerOf(p, b) : b \in Handles(p)}

(* A pool without duplicates, as the servers it knows and their states *)
View(p) == [s \in Servers(p) |-> p.cell[PoolFind(p, s)].state]

(* What a sequence of updates says: a server is known from its first       *)
(* addition, and is in the state of the last mark after that.              *)
Addition(s) == [op |-> "Add", server |-> s]

Marks(u, s) ==
    {i \in DOMAIN u : /\ u[i].server = s /\ u[i].op # "Add"
                      /\ \E j \in 1 .. i - 1 : u[j] = Addition(s)}

Replay(u) ==
    [s \in {u[i].server : i \in {j \in DOMAIN u : u[j].op = "Add"}} |->
        IF Marks(u, s) = {} THEN "Active" ELSE u[Max(Marks(u, s))].op]

(* Everything the manager knows it has announced: additions, flips by      *)
(* health checks and backends that cannot be checked.                      *)
ManagerIsLog == ~HasDuplicate(pool) => View(pool) = Replay(updates)

(* A worker knows what the messages it handled say, whatever its traffic   *)
(* has done to the counters that add compares.                             *)
Messages(w) == [k \in DOMAIN applied[w] |-> updates[applied[w][k]]]

WorkerIsLog ==
    \A w \in Worker :
        worker[w] # "dead" /\ ~HasDuplicate(wpool[w])
            => View(wpool[w]) = Replay(Messages(w))

(* A worker that was subscribed before the first update, and was never at  *)
(* the limit of unanswered calls when one was published                    *)
Fed(w) ==
    /\ conn[w] = "open" /\ ticket[w] # P!NoId
    /\ since[w] = 0 /\ skipped[w] = {}

CaughtUp(w) == P!Coming(w) = {}

(* A pool as GET /servers lists it, with the states *)
Listing(p) ==
    [i \in DOMAIN p.backends |-> <<ServerOf(p, p.backends[i]), p.cell[p.backends[i]].state>>]

(* The workers' pools replicate the manager's: one that missed no update   *)
(* and handled all of them has the same servers in the same states and in  *)
(* the same order of rotation.                                             *)
Agreement ==
    \A w \in Worker :
        /\ Fed(w) /\ CaughtUp(w)
        /\ ~HasDuplicate(pool) /\ ~HasDuplicate(wpool[w])
        => Listing(wpool[w]) = Listing(pool)

(* A pool holds a server twice only if the server was added twice.         *)
AddedOnce(s) == Cardinality({i \in DOMAIN updates : updates[i] = Addition(s)}) <= 1

DuplicateNeedsReAdd ==
    (\A s \in Server : AddedOnce(s)) =>
        ~HasDuplicate(pool) /\ \A w \in Worker : ~HasDuplicate(wpool[w])

(* "the manager will mark that server as down and then send a message to   *)
(* the workers to mark that same server as down" (README): a worker that   *)
(* missed nothing does not hold a server active that the manager holds     *)
(* down.                                                                   *)
AllDown(p, s) ==
    Positions(p, s) # {} /\ \A i \in Positions(p, s) : IsDown(p, p.backends[i])

DownEverywhere ==
    \A w \in Worker, s \in Server :
        Fed(w) /\ CaughtUp(w) /\ AllDown(pool, s) => AllDown(wpool[w], s)

(* A server that is down at the manager goes down in a worker that misses  *)
(* nothing, unless it is marked active again meanwhile.                    *)
DownArrives ==
    \A w \in Worker, s \in Server :
        Fed(w) /\ AllDown(pool, s) ~>
            \/ ~Fed(w) \/ ~AllDown(pool, s)
            \/ AllDown(wpool[w], s) \/ HasDuplicate(wpool[w])

-----------------------------------------------------------------------------
(* The invariant that WeldrProofs shows *)

(* A worker takes every update once, oldest first *)
AppliedOrdered ==
    \A w \in Worker : \A j, k \in DOMAIN applied[w] :
        applied[w][j] > 0 /\ (j < k => applied[w][j] < applied[w][k])

(* The order of rotation is the order in which u first added the servers *)
AddedEarlier(p, u) ==
    \A i, j \in DOMAIN p.backends :
        i < j =>
            \E m \in DOMAIN u :
                /\ u[m] = Addition(ServerOf(p, p.backends[i]))
                /\ \A l \in DOMAIN u :
                    u[l] = Addition(ServerOf(p, p.backends[j])) => m < l

RotationIsLog ==
    /\ ~HasDuplicate(pool) => AddedEarlier(pool, updates)
    /\ \A w \in Worker :
        worker[w] # "dead" /\ ~HasDuplicate(wpool[w])
            => AddedEarlier(wpool[w], Messages(w))

WeldrInv ==
    /\ TypeOK
    /\ AppliedOrdered
    /\ ManagerIsLog /\ WorkerIsLog
    /\ RotationIsLog
    /\ DuplicateNeedsReAdd
=============================================================================
