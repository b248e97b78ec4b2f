------------------------------- MODULE PubSub -------------------------------
(***************************************************************************)
(* How a change of the pool reaches the workers: the Publisher of          *)
(* src/src/mgmt/manager.rs (mod capnp), the subscribe of                   *)
(* src/src/mgmt/worker.rs, and the Cap'n Proto connection between them.    *)
(*                                                                         *)
(* The three publish_* functions differ only in the method they call, so   *)
(* an update is its number.  A connection delivers in order; it breaks     *)
(* only because the worker process dies, and what is in transit then may   *)
(* be lost.  No part of weldr restarts a worker.                           *)
(***************************************************************************)
EXTENDS Integers, Sequences, FiniteSets

CONSTANTS
    Worker,        \* worker processes; start_workers starts 5
    MaxInFlight,   \* calls a subscriber may owe an answer to; 5 in the code
    MaxPublished   \* bound on the updates published

ASSUME PubSubAssumption ==
    /\ MaxInFlight \in Nat \ {0}
    /\ MaxPublished \in Nat

VARIABLES
    worker,       \* state of each worker process
    conn,         \* its connection, as the manager's RpcSystem sees it
    subscribers,  \* SubscriberMap: id -> SubscriberHandle
    next_id,      \* PublisherImpl::next_id
    ticket,       \* the id in each worker's SubscriptionImpl, NoId for none
    live,         \* workers whose SubscriptionImpl is not dropped
    awaiting,     \* publish promises not resolved yet, per worker
    toWorker,     \* 0 is the answer to subscribe, n the call for update n
    toManager,    \* the subscribe call and the returns of calls
    published,    \* updates published so far
    applied,      \* history: updates each worker handled, in order
    skipped,      \* history: updates not sent because of MaxInFlight
    since         \* history: `published` when the worker was subscribed

history == <<applied, skipped, since>>
wires == <<toWorker, toManager>>
vars == <<worker, conn, subscribers, next_id, ticket, live, awaiting, wires,
          published, history>>

NoId == -1

(* A worker whose connect failed serves on, without updates *)
WorkerState == {"starting", "connected", "subscribed", "unsubscribed", "dead"}

(* lost: the worker is gone and the manager has not noticed; closed: it has *)
ConnState == {"none", "open", "lost", "closed"}

SubscriberHandle == [client : Worker, requests_in_flight : Nat]

TypeOK ==
    /\ worker \in [Worker -> WorkerState]
    /\ conn \in [Worker -> ConnState]
    /\ DOMAIN subscribers \in SUBSET Nat
    /\ subscribers \in [DOMAIN subscribers -> SubscriberHandle]
    /\ next_id \in Nat
    /\ ticket \in [Worker -> Nat \cup {NoId}]
    /\ live \in SUBSET Worker
    /\ awaiting \in [Worker -> Nat]
    /\ toWorker \in [Worker -> Seq(Nat)]
    /\ toManager \in [Worker -> Seq({"subscribe", "return"})]
    /\ published \in Nat
    /\ applied \in [Worker -> Seq(Nat)]
    /\ skipped \in [Worker -> SUBSET Nat]
    /\ since \in [Worker -> Nat]

Init ==
    /\ worker = [w \in Worker |-> "starting"]
    /\ conn = [w \in Worker |-> "none"]
    /\ subscribers = [i \in {} |-> 0]
    /\ next_id = 0
    /\ ticket = [w \in Worker |-> NoId]
    /\ live = {}
    /\ awaiting = [w \in Worker |-> 0]
    /\ toWorker = [w \in Worker |-> <<>>]
    /\ toManager = [w \in Worker |-> <<>>]
    /\ published = 0
    /\ applied = [w \in Worker |-> <<>>]
    /\ skipped = [w \in Worker |-> {}]
    /\ since = [w \in Worker |-> 0]

-----------------------------------------------------------------------------
(* HashMap::insert and HashMap::remove *)
Inserted(i, h) ==
    [k \in DOMAIN subscribers \cup {i} |-> IF k = i THEN h ELSE subscribers[k]]

Removed(i) == [k \in DOMAIN subscribers \ {i} |-> subscribers[k]]

Registered(w) == ticket[w] \in DOMAIN subscribers

InFlight(w) == subscribers[ticket[w]].requests_in_flight

-----------------------------------------------------------------------------
(* The worker process *)

(* subscribe: the connection is made and the request sent on it *)
Connect(w) ==
    /\ worker[w] = "starting"
    /\ worker' = [worker EXCEPT ![w] = "connected"]
    /\ conn' = [conn EXCEPT ![w] = "open"]
    /\ toManager' = [toManager EXCEPT ![w] = <<"subscribe">>]
    /\ UNCHANGED <<subscribers, next_id, ticket, live, awaiting, toWorker,
                   published, history>>

(* "Subscribe request error": logged, and never tried again *)
ConnectError(w) ==
    /\ worker[w] = "starting"
    /\ worker' = [worker EXCEPT ![w] = "unsubscribed"]
    /\ UNCHANGED <<conn, subscribers, next_id, ticket, live, awaiting, wires,
                   published, history>>

(* Fault: a worker handles the newest call first *)
FaultHandleNewest(w) ==
    LET q == toWorker[w]
    IN  /\ worker[w] \in {"connected", "subscribed"}
        /\ q # <<>>
        /\ toWorker' = [toWorker EXCEPT ![w] = SubSeq(q, 1, Len(q) - 1)]
        /\ worker' = [worker EXCEPT ![w] = "subscribed"]
        /\ applied' = [applied EXCEPT ![w] = IF q[Len(q)] = 0 THEN @ ELSE Append(@, q[Len(q)])]
        /\ toManager' = [toManager EXCEPT ![w] = IF q[Len(q)] = 0 THEN @ ELSE Append(@, "return")]
        /\ UNCHANGED <<conn, subscribers, next_id, ticket, live, awaiting, published,
                       skipped, since>>

(* Fault: a handler neither acts nor answers *)
FaultHandleMute(w) ==
    /\ worker[w] \in {"connected", "subscribed"}
    /\ toWorker[w] # <<>>
    /\ toWorker' = [toWorker EXCEPT ![w] = Tail(@)]
    /\ worker' = [worker EXCEPT ![w] = "subscribed"]
    /\ UNCHANGED <<conn, subscribers, next_id, ticket, live, awaiting, published,
                   toManager, applied, skipped, since>>

(* The answer to subscribe is kept in S; a call runs its SubscriberImpl    *)
(* handler, which always returns Promise::ok.                              *)
Handle(w) ==
    /\ worker[w] \in {"connected", "subscribed"}
    /\ toWorker[w] # <<>>
    /\ toWorker' = [toWorker EXCEPT ![w] = Tail(@)]
    /\ \/ /\ Head(toWorker[w]) = 0
          /\ worker' = [worker EXCEPT ![w] = "subscribed"]
          /\ UNCHANGED <<toManager, applied>>
       \/ /\ Head(toWorker[w]) # 0
          /\ applied' = [applied EXCEPT ![w] = Append(@, Head(toWorker[w]))]
          /\ toManager' = [toManager EXCEPT ![w] = Append(@, "return")]
          /\ UNCHANGED worker
    /\ UNCHANGED <<conn, subscribers, next_id, ticket, live, awaiting, published,
                   skipped, since>>

(* The process ends; the kernel closes its sockets *)
Die(w) ==
    /\ worker[w] # "dead"
    /\ worker' = [worker EXCEPT ![w] = "dead"]
    /\ conn' = [conn EXCEPT ![w] = IF @ = "open" THEN "lost" ELSE @]
    /\ toWorker' = [toWorker EXCEPT ![w] = <<>>]
    /\ UNCHANGED <<subscribers, next_id, ticket, live, awaiting, toManager,
                   published, history>>

-----------------------------------------------------------------------------
(* The manager process *)

(* PublisherImpl::subscribe.  What the worker sent before it died is still *)
(* read from a lost connection.                                            *)
Subscribe(w) ==
    /\ conn[w] \in {"open", "lost"}
    /\ toManager[w] # <<>> /\ Head(toManager[w]) = "subscribe"
    /\ toManager' = [toManager EXCEPT ![w] = Tail(@)]
    /\ subscribers' = Inserted(next_id, [client |-> w, requests_in_flight |-> 0])
    /\ ticket' = [ticket EXCEPT ![w] = next_id]
    /\ live' = live \cup {w}
    /\ next_id' = next_id + 1
    /\ toWorker' = [toWorker EXCEPT ![w] = IF conn[w] = "open" THEN Append(@, 0) ELSE @]
    /\ since' = [since EXCEPT ![w] = published]
    /\ UNCHANGED <<worker, conn, awaiting, published, applied, skipped>>

(* publish_new_server, publish_server_state_down, publish_server_state_active *)
Publish ==
    LET full(w) == InFlight(w) >= MaxInFlight
        sent    == {w \in Worker : Registered(w) /\ ~full(w)}
        n       == published + 1
    IN  /\ published < MaxPublished
        /\ published' = n
        /\ subscribers' =
             [i \in DOMAIN subscribers |->
                IF subscribers[i].requests_in_flight < MaxInFlight
                THEN [subscribers[i] EXCEPT !.requests_in_flight = @ + 1]
                ELSE subscribers[i]]
        /\ awaiting' = [w \in Worker |-> IF w \in sent THEN awaiting[w] + 1 ELSE awaiting[w]]
        /\ toWorker' = [w \in Worker |-> IF w \in sent /\ conn[w] = "open"
                                         THEN Append(toWorker[w], n) ELSE toWorker[w]]
        /\ skipped' = [w \in Worker |-> IF Registered(w) /\ full(w)
                                        THEN skipped[w] \cup {n} ELSE skipped[w]]
        /\ UNCHANGED <<worker, conn, next_id, ticket, live, toManager, applied, since>>

(* The manager reads the answer to a call *)
ReadAnswer(w) ==
    /\ conn[w] \in {"open", "lost"}
    /\ toManager[w] # <<>> /\ Head(toManager[w]) = "return"
    /\ toManager' = [toManager EXCEPT ![w] = Tail(@)]
    /\ awaiting' = [awaiting EXCEPT ![w] = @ - 1]
    /\ UNCHANGED <<worker, conn, next_id, ticket, live, toWorker, published, history>>

(* Faults: the Ok arm does not give the slot back, gives two back, or is   *)
(* swapped with the Err arm                                                *)
FaultReturnKeeps(w) == ReadAnswer(w) /\ UNCHANGED subscribers

FaultReturnTwice(w) ==
    ReadAnswer(w) /\ subscribers' = [subscribers EXCEPT ![ticket[w]].requests_in_flight = @ - 2]

FaultReturnDrops(w) == ReadAnswer(w) /\ subscribers' = Removed(ticket[w])

(* The `then` of a publish, Ok arm *)
Return(w) ==
    /\ ReadAnswer(w)
    /\ subscribers' =
         IF Registered(w)
         THEN [subscribers EXCEPT ![ticket[w]].requests_in_flight = @ - 1]
         ELSE subscribers

(* The RpcSystem of a lost connection ends: what was not read is lost *)
Disconnect(w) ==
    /\ conn[w] = "lost"
    /\ conn' = [conn EXCEPT ![w] = "closed"]
    /\ toManager' = [toManager EXCEPT ![w] = <<>>]
    /\ UNCHANGED <<worker, subscribers, next_id, ticket, live, awaiting, toWorker,
                   published, history>>

(* The `then` of a publish, Err arm: "Dropping subscriber." *)
PromiseError(w) ==
    /\ conn[w] = "closed"
    /\ awaiting[w] > 0
    /\ awaiting' = [awaiting EXCEPT ![w] = @ - 1]
    /\ subscribers' = Removed(ticket[w])
    /\ UNCHANGED <<worker, conn, next_id, ticket, live, wires, published, history>>

(* The connection that exported the SubscriptionImpl is gone *)
Release(w) ==
    /\ conn[w] = "closed"
    /\ w \in live
    /\ live' = live \ {w}
    /\ UNCHANGED <<worker, conn, next_id, ticket, awaiting, wires, published, history>>

(* Fault: SubscriptionImpl has no Drop *)
FaultNoDrop(w) == Release(w) /\ UNCHANGED subscribers

(* SubscriptionImpl::drop *)
DropSubscription(w) == Release(w) /\ subscribers' = Removed(ticket[w])

Next ==
    \/ Publish
    \/ \E w \in Worker :
        \/ Connect(w) \/ ConnectError(w) \/ Handle(w) \/ Die(w)
        \/ Subscribe(w) \/ Return(w) \/ Disconnect(w)
        \/ PromiseError(w) \/ DropSubscription(w)

Spec == Init /\ [][Next]_vars

(* A reactor polls what is ready, and TCP reports the end of a process.    *)
(* Publications and deaths are never forced.                               *)
Fairness ==
    \A w \in Worker :
        /\ WF_vars(Connect(w) \/ ConnectError(w))
        /\ WF_vars(Handle(w))
        /\ WF_vars(Subscribe(w))
        /\ WF_vars(Return(w))
        /\ WF_vars(Disconnect(w))
        /\ WF_vars(PromiseError(w))
        /\ WF_vars(DropSubscription(w))

FairSpec == Spec /\ Fairness

-----------------------------------------------------------------------------
(* Properties *)

(* requests_in_flight, kept by the publish loop and by the callbacks of    *)
(* its promises, is the number of calls without an answer, and never       *)
(* passes the limit; ids are not shared.                                   *)
InFlightExact ==
    \A i \in DOMAIN subscribers :
        LET h == subscribers[i]
        IN  /\ ticket[h.client] = i
            /\ h.requests_in_flight = awaiting[h.client]
            /\ h.requests_in_flight <= MaxInFlight

(* The manager has registered the worker, which lives *)
Attached(w) == conn[w] = "open" /\ ticket[w] # NoId

(* Every unanswered call, and the unread answer to subscribe, is in transit *)
Balanced(w) ==
    Len(toWorker[w]) + Len(toManager[w])
        = IF worker[w] = "connected" THEN awaiting[w] + 1 ELSE awaiting[w]

(* On an open connection every unanswered call is a call or a return in    *)
(* transit, so a subscriber at the limit is always about to leave it.      *)
AllAccounted == \A w \in Worker : Attached(w) => Balanced(w)

(* The updates a worker took, and those on their way to it *)
Taken(w) == {applied[w][k] : k \in DOMAIN applied[w]}
Coming(w) == {toWorker[w][k] : k \in DOMAIN toWorker[w]} \ {0}

Fed(w) == Taken(w) \cup Coming(w) = (since[w] + 1 .. published) \ skipped[w]

(* A worker that lives and was registered took, or is being sent, every    *)
(* update published since, but for those the limit made the manager skip:  *)
(* only a closed connection takes it out of the map.                       *)
FeedComplete == \A w \in Worker : Attached(w) => Registered(w) /\ Fed(w)

(* The manager forgets a dead worker for good, whether the drop of its     *)
(* subscription or a failed call comes first.                              *)
DeadForgotten ==
    \A w \in Worker :
        worker[w] = "dead" ~> [](\A i \in DOMAIN subscribers : subscribers[i].client # w)

(* A subscriber does not stay at the limit: it answers or is removed.      *)
Drains ==
    \A w \in Worker :
        (Registered(w) /\ InFlight(w) >= MaxInFlight)
            ~> ~(Registered(w) /\ InFlight(w) >= MaxInFlight)

(* An update on its way is handled unless the worker dies.                 *)
Delivered ==
    \A w \in Worker, n \in 1 .. MaxPublished :
        n \in Coming(w) ~> worker[w] = "dead" \/ n \in Taken(w)

(* The workers take updates in the order of publication, none twice.       *)
B == INSTANCE Broadcast

ImplementsBroadcast == B!Spec

(* "Ask all workers to add a new server to their pool" (manager.rs): a     *)
(* live, registered worker is sent every update.                           *)
NothingSkipped == \A w \in Worker : Attached(w) => skipped[w] = {}

-----------------------------------------------------------------------------
(* The inductive invariant behind the theorems of PubSubProofs *)

(* PublisherImpl hands an id out once *)
TicketsUnique ==
    /\ \A w \in Worker : ticket[w] < next_id
    /\ \A v, w \in Worker : ticket[v] = ticket[w] => v = w \/ ticket[v] = NoId

(* How far a worker and its connection are, and what may be on the wires   *)
Staged(w) ==
    /\ worker[w] \in {"starting", "unsubscribed"} => conn[w] = "none"
    /\ worker[w] \in {"connected", "subscribed"} <=> conn[w] = "open"
    /\ conn[w] # "open" => toWorker[w] = <<>>
    /\ conn[w] = "closed" => toManager[w] = <<>>

(* Before subscribe has run nothing but its request is on the wires *)
Unattached(w) ==
    ticket[w] = NoId =>
        /\ worker[w] # "subscribed"
        /\ awaiting[w] = 0 /\ toWorker[w] = <<>> /\ applied[w] = <<>>
        /\ toManager[w] = IF conn[w] \in {"open", "lost"} THEN <<"subscribe">> ELSE <<>>

(* After it, the manager reads returns, and of no more calls than it made; *)
(* the answer to subscribe comes before the first call.                    *)
AnswersOwed(w) ==
    ticket[w] # NoId =>
        /\ conn[w] # "none"
        /\ \A k \in DOMAIN toManager[w] : toManager[w][k] = "return"
        /\ Len(toManager[w]) <= awaiting[w]
        /\ conn[w] = "open" =>
            (worker[w] = "connected" <=> toWorker[w] # <<>> /\ toWorker[w][1] = 0)

(* What is on its way is in order, newer than what was taken, and not made *)
(* up                                                                      *)
FeedOrdered(w) ==
    /\ since[w] <= published
    /\ skipped[w] \subseteq 1 .. published
    /\ \A k \in DOMAIN applied[w] : applied[w][k] <= published
    /\ \A k \in DOMAIN toWorker[w] : toWorker[w][k] <= published
    /\ \A j, k \in DOMAIN toWorker[w] : j < k => toWorker[w][j] < toWorker[w][k]
    /\ \A j \in DOMAIN applied[w], k \in DOMAIN toWorker[w] :
        toWorker[w][k] # 0 => applied[w][j] < toWorker[w][k]

WorkerInv(w) ==
    /\ Staged(w)
    /\ Unattached(w)
    /\ AnswersOwed(w)
    /\ FeedOrdered(w)
    /\ Attached(w) => Balanced(w) /\ Fed(w)

PubSubInv ==
    /\ TypeOK
    /\ TicketsUnique
    /\ InFlightExact
    /\ \A w \in Worker : Attached(w) => Registered(w)
    /\ \A w \in Worker : WorkerInv(w)
=============================================================================
