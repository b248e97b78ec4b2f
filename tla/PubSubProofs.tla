---------------------------- MODULE PubSubProofs ----------------------------
(***************************************************************************)
(* Proofs about PubSub, for every set of workers and every limit.          *)
(***************************************************************************)
EXTENDS PubSub, SequenceTheorems, TLAPS

-----------------------------------------------------------------------------
(* The queues *)

Elements(q) == {q[k] : k \in DOMAIN q}

(* A message taken from the front of a queue.                              *)
LEMMA TakeFirst ==
    ASSUME NEW S, NEW q \in Seq(S), q # <<>>
    PROVE  /\ Head(q) \in S /\ Head(q) = q[1] /\ 1 \in DOMAIN q
           /\ Len(q) \in Nat \ {0}
           /\ Tail(q) \in Seq(S)
           /\ Len(Tail(q)) = Len(q) - 1
           /\ \A k \in DOMAIN Tail(q) :
                /\ k \in Nat \ {0} /\ k + 1 \in DOMAIN q
                /\ Tail(q)[k] = q[k + 1] /\ q[k + 1] \in S
           /\ Elements(q) = {Head(q)} \cup Elements(Tail(q))
           /\ Tail(q) # <<>> => 1 \in DOMAIN Tail(q)
<1> DEFINE t == Tail(q)
           n == Len(q)
           h == Head(q)
<1>1. n \in Nat \ {0} /\ DOMAIN q = 1 .. n /\ \A k \in 1 .. n : q[k] \in S
  BY EmptySeq, LenProperties
<1>2. t \in Seq(S) /\ Len(t) = n - 1 /\ \A k \in 1 .. Len(t) : t[k] = q[k + 1]
  BY HeadTailProperties
<1>3. DOMAIN t = 1 .. n - 1 /\ (t # <<>> => n - 1 # 0)
  BY <1>1, <1>2, LenProperties, EmptySeq
<1>4. h = q[1] /\ h \in S
  BY HeadTailProperties
<1> HIDE DEF t, n, h
<1>5. \A k \in DOMAIN t : /\ k \in Nat \ {0} /\ k + 1 \in DOMAIN q
                          /\ t[k] = q[k + 1] /\ q[k + 1] \in S
  BY <1>1, <1>2, <1>3
<1>6. \A k \in DOMAIN q : k = 1 \/ (k - 1 \in DOMAIN t /\ t[k - 1] = q[k])
  BY <1>1, <1>2, <1>3
<1>7. 1 \in DOMAIN q /\ (t # <<>> => 1 \in DOMAIN t)
  BY <1>1, <1>3
<1>8. Elements(q) \subseteq {h} \cup Elements(t)
  BY <1>4, <1>6 DEF Elements
<1>9. Elements(t) \subseteq Elements(q) /\ h \in Elements(q)
  BY <1>4, <1>5, <1>7 DEF Elements
<1>10. Elements(q) = {h} \cup Elements(t)
  BY <1>8, <1>9
<1> QED
  BY <1>1, <1>2, <1>4, <1>5, <1>7, <1>10 DEF t, n, h

(* A message put at the end of a queue.                                    *)
LEMMA PutLast ==
    ASSUME NEW S, NEW q \in Seq(S), NEW e \in S
    PROVE  LET a == Append(q, e)
               l == Len(q) + 1
           IN  /\ a \in Seq(S) /\ a # <<>>
               /\ Len(q) \in Nat /\ Len(a) = l
               /\ l \in Nat \ {0} /\ l \in DOMAIN a /\ a[l] = e
               /\ \A k \in DOMAIN q : k \in Nat \ {0} /\ k < l /\ k \in DOMAIN a /\ a[k] = q[k]
               /\ \A k \in DOMAIN a : k \in DOMAIN q \/ k = l
               /\ Elements(a) = Elements(q) \cup {e}
<1> DEFINE a == Append(q, e)
           n == Len(q)
<1>1. /\ n \in Nat /\ DOMAIN q = 1 .. n /\ a \in Seq(S) /\ a # <<>> /\ Len(a) = n + 1
      /\ DOMAIN a = 1 .. n + 1 /\ a[n + 1] = e
      /\ \A k \in 1 .. n : a[k] = q[k]
  OBVIOUS
<1> HIDE DEF a, n
<1>2. \A k \in DOMAIN q : k \in Nat \ {0} /\ k < n + 1 /\ k \in DOMAIN a /\ a[k] = q[k]
  BY <1>1
<1>3. \A k \in DOMAIN a : k \in DOMAIN q \/ k = n + 1
  BY <1>1
<1>4. n + 1 \in Nat \ {0} /\ n + 1 \in DOMAIN a
  BY <1>1
<1>5. Elements(a) = Elements(q) \cup {e}
  BY <1>1, <1>2, <1>3, <1>4 DEF Elements
<1> QED
  BY <1>1, <1>2, <1>3, <1>4, <1>5 DEF a, n

-----------------------------------------------------------------------------
(* What a step leaves alone *)

(* A worker none of whose variables a step changes keeps its invariant.    *)
LEMMA WorkerFrame ==
    ASSUME NEW w \in Worker, WorkerInv(w), published' = published,
           worker'[w] = worker[w], conn'[w] = conn[w], ticket'[w] = ticket[w],
           awaiting'[w] = awaiting[w], toWorker'[w] = toWorker[w],
           toManager'[w] = toManager[w], applied'[w] = applied[w],
           skipped'[w] = skipped[w], since'[w] = since[w]
    PROVE  WorkerInv(w)'
<1>1. Staged(w)' /\ Unattached(w)' /\ AnswersOwed(w)' /\ FeedOrdered(w)'
  BY DEF WorkerInv, Staged, Unattached, AnswersOwed, FeedOrdered
<1>2. Attached(w)' => Attached(w)
  BY DEF Attached
<1>3. Balanced(w) => Balanced(w)'
  BY DEF Balanced
<1>4. Taken(w)' = Taken(w) /\ Coming(w)' = Coming(w)
  BY DEF Taken, Coming
<1>5. Fed(w) => Fed(w)'
  BY <1>4 DEF Fed
<1> QED
  BY <1>1, <1>2, <1>3, <1>5 DEF WorkerInv

(* A step that touches neither the map nor the promises keeps what is said *)
(* of them.                                                                *)
LEMMA RegistryFrame ==
    ASSUME PubSubInv, UNCHANGED <<subscribers, next_id, ticket, awaiting>>
    PROVE  /\ TicketsUnique' /\ InFlightExact'
           /\ \A w \in Worker : Registered(w)' = Registered(w)
BY DEF PubSubInv, TicketsUnique, InFlightExact, Registered

(* HashMap::remove leaves the other entries as they are.                   *)
LEMMA RemovedFacts ==
    ASSUME TypeOK, NEW i
    PROVE  /\ DOMAIN Removed(i) = DOMAIN subscribers \ {i}
           /\ \A k \in DOMAIN Removed(i) : Removed(i)[k] = subscribers[k]
           /\ DOMAIN Removed(i) \in SUBSET Nat
           /\ Removed(i) \in [DOMAIN Removed(i) -> SubscriberHandle]
BY DEF TypeOK, Removed

(* The id of a worker is the key of its own entry, and of no other.        *)
LEMMA OwnEntry ==
    ASSUME PubSubInv
    PROVE  /\ \A w \in Worker : Registered(w) =>
                /\ ticket[w] # NoId /\ subscribers[ticket[w]].client = w
                /\ subscribers[ticket[w]].requests_in_flight = awaiting[w]
                /\ \A v \in Worker : ticket[v] = ticket[w] => v = w
           /\ \A i \in DOMAIN subscribers :
                /\ i \in Nat /\ i < next_id
                /\ subscribers[i].client \in Worker
                /\ ticket[subscribers[i].client] = i
                /\ Registered(subscribers[i].client)
<1>1. TypeOK /\ TicketsUnique /\ InFlightExact
  BY DEF PubSubInv
<1>2. ASSUME NEW i \in DOMAIN subscribers
      PROVE  /\ i \in Nat /\ subscribers[i].client \in Worker
             /\ ticket[subscribers[i].client] = i
             /\ subscribers[i].requests_in_flight = awaiting[subscribers[i].client]
  BY <1>1 DEF TypeOK, InFlightExact, SubscriberHandle
<1>3. ASSUME NEW w \in Worker, Registered(w)
      PROVE  /\ ticket[w] # NoId /\ subscribers[ticket[w]].client = w
             /\ subscribers[ticket[w]].requests_in_flight = awaiting[w]
             /\ \A v \in Worker : ticket[v] = ticket[w] => v = w
  BY <1>1, <1>2, <1>3 DEF Registered, NoId, TicketsUnique
<1> QED
  BY <1>1, <1>2, <1>3 DEF TicketsUnique, Registered

-----------------------------------------------------------------------------
(* The worker's steps *)

(* A worker connects, or fails to.                                         *)
LEMMA ConnectInv ==
    ASSUME PubSubInv, NEW w \in Worker, Connect(w) \/ ConnectError(w)
    PROVE  PubSubInv'
<1>1. /\ TypeOK /\ WorkerInv(w) /\ worker[w] = "starting"
      /\ UNCHANGED <<subscribers, next_id, ticket, live, awaiting, toWorker, published,
                     history>>
  BY DEF PubSubInv, Connect, ConnectError, wires
<1>2. conn[w] = "none" /\ toWorker[w] = <<>> /\ ticket[w] = NoId
  BY <1>1 DEF WorkerInv, Staged, AnswersOwed
<1>3. \/ /\ worker' = [worker EXCEPT ![w] = "connected"]
         /\ conn' = [conn EXCEPT ![w] = "open"]
         /\ toManager' = [toManager EXCEPT ![w] = <<"subscribe">>]
      \/ /\ worker' = [worker EXCEPT ![w] = "unsubscribed"]
         /\ conn' = conn /\ toManager' = toManager
  BY DEF Connect, ConnectError, wires
<1>4. TypeOK'
  <2>1. toManager' \in [Worker -> Seq({"subscribe", "return"})]
    <3>1. <<"subscribe">> \in Seq({"subscribe", "return"})
      OBVIOUS
    <3> QED
      BY <1>1, <1>3, <3>1 DEF TypeOK
  <2> QED
    BY <1>1, <1>3, <2>1 DEF TypeOK, WorkerState, ConnState, history
<1>5. WorkerInv(w)' /\ ~Attached(w)'
  <2>1. Staged(w)' /\ Unattached(w)' /\ AnswersOwed(w)'
    BY <1>1, <1>2, <1>3 DEF TypeOK, WorkerInv, Staged, Unattached, AnswersOwed, history
  <2>2. FeedOrdered(w)'
    BY <1>1 DEF WorkerInv, FeedOrdered, history
  <2>3. ~Attached(w)'
    BY <1>1, <1>2 DEF Attached
  <2> QED
    BY <2>1, <2>2, <2>3 DEF WorkerInv
<1>6. ASSUME NEW v \in Worker, v # w
      PROVE  WorkerInv(v)' /\ Attached(v)' = Attached(v)
  BY <1>1, <1>3, <1>6, WorkerFrame DEF PubSubInv, TypeOK, history, Attached
<1> QED
  BY <1>1, <1>4, <1>5, <1>6, RegistryFrame DEF PubSubInv

(* The end of a worker process: the connection is lost, so it is no longer *)
(* one of those that are promised the whole feed.                          *)
LEMMA DieInv ==
    ASSUME PubSubInv, NEW w \in Worker, Die(w)
    PROVE  PubSubInv'
<1>1. /\ TypeOK /\ WorkerInv(w)
      /\ UNCHANGED <<subscribers, next_id, ticket, live, awaiting, toManager, published,
                     history>>
      /\ worker' = [worker EXCEPT ![w] = "dead"]
      /\ conn' = [conn EXCEPT ![w] = IF @ = "open" THEN "lost" ELSE @]
      /\ toWorker' = [toWorker EXCEPT ![w] = <<>>]
  BY DEF PubSubInv, Die
<1>2. TypeOK'
  BY <1>1 DEF TypeOK, WorkerState, ConnState, history
<1>3. WorkerInv(w)' /\ ~Attached(w)'
  <2>1. conn'[w] # "open" /\ toWorker'[w] = <<>>
    BY <1>1 DEF TypeOK
  <2>2. Staged(w)' /\ Unattached(w)' /\ AnswersOwed(w)'
    BY <1>1, <2>1 DEF TypeOK, WorkerInv, Staged, Unattached, AnswersOwed, history
  <2>3. FeedOrdered(w)'
    BY <1>1, <2>1 DEF WorkerInv, FeedOrdered, history
  <2> QED
    BY <2>1, <2>2, <2>3 DEF WorkerInv, Attached
<1>4. ASSUME NEW v \in Worker, v # w
      PROVE  WorkerInv(v)' /\ Attached(v)' = Attached(v)
  BY <1>1, <1>4, WorkerFrame DEF PubSubInv, TypeOK, history, Attached
<1> QED
  BY <1>1, <1>2, <1>3, <1>4, RegistryFrame DEF PubSubInv

(* The RpcSystem of a lost connection ends.                                *)
LEMMA DisconnectInv ==
    ASSUME PubSubInv, NEW w \in Worker, Disconnect(w)
    PROVE  PubSubInv'
<1>1. /\ TypeOK /\ WorkerInv(w) /\ conn[w] = "lost"
      /\ UNCHANGED <<worker, subscribers, next_id, ticket, live, awaiting, toWorker,
                     published, history>>
      /\ conn' = [conn EXCEPT ![w] = "closed"]
      /\ toManager' = [toManager EXCEPT ![w] = <<>>]
  BY DEF PubSubInv, Disconnect
<1>2. TypeOK'
  BY <1>1 DEF TypeOK, ConnState, history
<1>3. WorkerInv(w)' /\ ~Attached(w)'
  <2>1. conn'[w] = "closed" /\ toManager'[w] = <<>> /\ awaiting[w] \in Nat
    BY <1>1 DEF TypeOK
  <2>2. Staged(w)' /\ Unattached(w)' /\ AnswersOwed(w)'
    BY <1>1, <2>1 DEF TypeOK, WorkerInv, Staged, Unattached, AnswersOwed, history
  <2>3. FeedOrdered(w)'
    BY <1>1 DEF WorkerInv, FeedOrdered, history
  <2> QED
    BY <2>1, <2>2, <2>3 DEF WorkerInv, Attached
<1>4. ASSUME NEW v \in Worker, v # w
      PROVE  WorkerInv(v)' /\ Attached(v)' = Attached(v)
  BY <1>1, <1>4, WorkerFrame DEF PubSubInv, TypeOK, history, Attached
<1> QED
  BY <1>1, <1>2, <1>3, <1>4, RegistryFrame DEF PubSubInv

(* A call is taken from the front of the queue, so in the order in which   *)
(* the manager sent it, and moves from the calls to the returns.           *)
LEMMA HandleInv ==
    ASSUME PubSubInv, NEW w \in Worker, Handle(w)
    PROVE  PubSubInv'
<1> DEFINE q == toWorker[w]
           n == Head(q)
           t == Tail(q)
           returns == toManager[w]
           done == applied[w]
           Wire == {"subscribe", "return"}
<1>1. /\ TypeOK /\ WorkerInv(w)
      /\ worker[w] \in {"connected", "subscribed"} /\ q # <<>>
      /\ UNCHANGED <<conn, subscribers, next_id, ticket, live, awaiting, published,
                     skipped, since>>
      /\ toWorker' = [toWorker EXCEPT ![w] = t]
      /\ \/ /\ n = 0 /\ worker' = [worker EXCEPT ![w] = "subscribed"]
            /\ UNCHANGED <<toManager, applied>>
         \/ /\ n # 0 /\ worker' = worker
            /\ applied' = [applied EXCEPT ![w] = Append(done, n)]
            /\ toManager' = [toManager EXCEPT ![w] = Append(returns, "return")]
  BY DEF PubSubInv, Handle
<1>2. /\ q \in Seq(Nat) /\ done \in Seq(Nat) /\ returns \in Seq(Wire)
      /\ awaiting[w] \in Nat /\ published \in Nat
  BY <1>1 DEF TypeOK
<1>3. /\ n \in Nat /\ n = q[1] /\ 1 \in DOMAIN q /\ Len(q) \in Nat \ {0}
      /\ t \in Seq(Nat) /\ Len(t) = Len(q) - 1
      /\ \A k \in DOMAIN t : /\ k \in Nat \ {0} /\ k + 1 \in DOMAIN q
                             /\ t[k] = q[k + 1] /\ q[k + 1] \in Nat
      /\ Elements(q) = {n} \cup Elements(t)
      /\ t # <<>> => 1 \in DOMAIN t
  BY <1>1, <1>2, TakeFirst
<1>4. conn[w] = "open" /\ ticket[w] # NoId /\ Balanced(w) /\ Fed(w)
  BY <1>1 DEF WorkerInv, Staged, Unattached, Attached
<1>5. /\ \A j, k \in DOMAIN q : j < k => q[j] < q[k]
      /\ \A k \in DOMAIN q : q[k] <= published
      /\ \A k \in DOMAIN done : done[k] <= published
      /\ \A j \in DOMAIN done, k \in DOMAIN q : q[k] # 0 => done[j] < q[k]
      /\ since[w] <= published /\ skipped[w] \subseteq 1 .. published
  BY <1>1 DEF WorkerInv, FeedOrdered
<1>6. /\ \A k \in DOMAIN returns : returns[k] = "return"
      /\ Len(returns) <= awaiting[w]
      /\ worker[w] = "connected" <=> n = 0
  BY <1>1, <1>3, <1>4 DEF WorkerInv, AnswersOwed
<1>7. /\ worker[w] = "connected" => Len(q) + Len(returns) = awaiting[w] + 1
      /\ worker[w] = "subscribed" => Len(q) + Len(returns) = awaiting[w]
      /\ Len(returns) \in Nat
  BY <1>2, <1>4, LenProperties DEF Balanced
<1> DEFINE returns2 == Append(returns, "return")
           done2 == Append(done, n)
           l == Len(done) + 1
<1>8. /\ returns2 \in Seq(Wire) /\ Len(returns2) = Len(returns) + 1
      /\ \A k \in DOMAIN returns2 : k \in DOMAIN returns \/ k = Len(returns) + 1
      /\ \A k \in DOMAIN returns : returns2[k] = returns[k]
      /\ returns2[Len(returns) + 1] = "return"
  BY <1>2, PutLast
<1>9. /\ done2 \in Seq(Nat) /\ Elements(done2) = Elements(done) \cup {n}
      /\ \A k \in DOMAIN done2 : k \in DOMAIN done \/ k = l
      /\ \A k \in DOMAIN done : done2[k] = done[k]
      /\ done2[l] = n
  BY <1>2, <1>3, PutLast
<1>10. toWorker'[w] = t
  BY <1>1 DEF TypeOK
<1> HIDE DEF n, t, q, returns, done, returns2, done2, l
<1>11. \A k \in DOMAIN t : t[k] > n /\ t[k] # 0
  <2>1. SUFFICES ASSUME NEW k \in DOMAIN t PROVE t[k] > n /\ t[k] # 0
    OBVIOUS
  <2>2. 1 < k + 1 /\ k + 1 \in DOMAIN q /\ t[k] = q[k + 1] /\ q[k + 1] \in Nat
    BY <1>2, <1>3
  <2>3. q[1] < q[k + 1]
    BY <1>3, <1>5, <2>2
  <2> QED
    BY <1>3, <2>2, <2>3
<1>12. /\ \A k \in DOMAIN t : t[k] <= published
       /\ \A j, k \in DOMAIN t : j < k => t[j] < t[k]
  <2>1. \A k \in DOMAIN t : t[k] <= published
    BY <1>3, <1>5
  <2>2. ASSUME NEW j \in DOMAIN t, NEW k \in DOMAIN t, j < k
        PROVE  t[j] < t[k]
    <3>1. j + 1 \in DOMAIN q /\ k + 1 \in DOMAIN q /\ j + 1 < k + 1
      BY <1>3, <2>2
    <3>2. q[j + 1] < q[k + 1]
      BY <1>5, <3>1
    <3> QED
      BY <1>3, <3>2
  <2> QED
    BY <2>1, <2>2
<1>13. TypeOK'
  <2>1. toWorker' \in [Worker -> Seq(Nat)] /\ worker' \in [Worker -> WorkerState]
    BY <1>1, <1>3 DEF TypeOK, WorkerState
  <2>2. applied' \in [Worker -> Seq(Nat)] /\ toManager' \in [Worker -> Seq(Wire)]
    BY <1>1, <1>8, <1>9 DEF TypeOK, done2, returns2
  <2> QED
    BY <1>1, <2>1, <2>2 DEF TypeOK
<1>14. WorkerInv(w)'
  <2>1. CASE n = 0
    <3>1. /\ worker'[w] = "subscribed" /\ worker[w] = "connected"
          /\ toManager'[w] = returns /\ applied'[w] = done
      BY <1>1, <1>6, <2>1 DEF TypeOK, returns, done
    <3>2. Staged(w)' /\ Unattached(w)'
      BY <1>1, <1>4, <3>1 DEF WorkerInv, Staged, Unattached
    <3>3. AnswersOwed(w)'
      BY <1>1, <1>3, <1>4, <1>6, <1>10, <1>11, <3>1 DEF AnswersOwed
    <3>4. FeedOrdered(w)'
      <4>1. \A j \in DOMAIN done, k \in DOMAIN t : done[j] < t[k]
        BY <1>3, <1>5, <1>11
      <4> QED
        BY <1>1, <1>5, <1>10, <1>12, <3>1, <4>1 DEF FeedOrdered
    <3>5. Balanced(w)'
      <4>1. awaiting' = awaiting
        BY <1>1
      <4>2. Len(q) + Len(returns) = awaiting[w] + 1 /\ Len(t) = Len(q) - 1
        BY <1>3, <1>7, <3>1
      <4>3. Len(q) \in Int /\ Len(returns) \in Int /\ awaiting[w] \in Int
        BY <1>2, <1>3, <1>7
      <4>4. Len(t) + Len(returns) = awaiting[w]
        BY ONLY <4>2, <4>3
      <4> QED
        BY <1>10, <3>1, <4>1, <4>4 DEF Balanced
    <3>6. Taken(w)' = Taken(w) /\ Coming(w)' = Coming(w)
      <4>1. Taken(w)' = Taken(w) /\ Coming(w) = Elements(q) \ {0} /\ Coming(w)' = Elements(t) \ {0}
        BY <1>10, <3>1 DEF Taken, Coming, Elements, q, done
      <4> QED
        BY <1>3, <2>1, <4>1
    <3>7. Fed(w)'
      BY <1>1, <1>4, <3>6 DEF Fed
    <3> QED
      BY <3>2, <3>3, <3>4, <3>5, <3>7 DEF WorkerInv
  <2>2. CASE n # 0
    <3>1. /\ worker'[w] = worker[w] /\ worker[w] = "subscribed"
          /\ toManager'[w] = returns2 /\ applied'[w] = done2
      BY <1>1, <1>6, <2>2 DEF TypeOK, done2, returns2
    <3>2. Staged(w)' /\ Unattached(w)'
      BY <1>1, <1>4, <3>1 DEF WorkerInv, Staged, Unattached
    <3>3. Balanced(w)' /\ Len(returns2) <= awaiting[w]
      <4>1. awaiting'[w] = awaiting[w] /\ Len(t) + Len(returns2) = awaiting[w]
        BY <1>1, <1>2, <1>3, <1>7, <1>8, <3>1
      <4>2. Len(returns2) <= awaiting[w]
        BY <1>2, <1>3, <1>7, <1>8, <4>1
      <4> QED
        BY <1>10, <3>1, <4>1, <4>2 DEF Balanced
    <3>4. AnswersOwed(w)'
      <4>1. \A k \in DOMAIN returns2 : returns2[k] = "return"
        BY <1>6, <1>8
      <4> QED
        BY <1>1, <1>3, <1>4, <1>10, <1>11, <3>1, <3>3, <4>1 DEF AnswersOwed
    <3>5. FeedOrdered(w)'
      <4>1. \A k \in DOMAIN done2 : done2[k] <= published
        BY <1>3, <1>5, <1>9
      <4>2. \A j \in DOMAIN done2, k \in DOMAIN t : done2[j] < t[k]
        BY <1>3, <1>5, <1>9, <1>11
      <4> QED
        BY <1>1, <1>5, <1>10, <1>12, <3>1, <4>1, <4>2 DEF FeedOrdered
    <3>6. Coming(w) = Coming(w)' \cup {n}
      <4>1. Coming(w) = Elements(q) \ {0} /\ Coming(w)' = Elements(t) \ {0}
        BY <1>10 DEF Coming, Elements, q
      <4> QED
        BY <1>3, <2>2, <4>1
    <3>7. Taken(w)' = Taken(w) \cup {n}
      BY <1>9, <3>1 DEF Taken, Elements, done
    <3>8. Fed(w)'
      BY <1>1, <1>4, <3>6, <3>7 DEF Fed
    <3> QED
      BY <3>2, <3>3, <3>4, <3>5, <3>8 DEF WorkerInv
  <2> QED
    BY <2>1, <2>2
<1>15. ASSUME NEW v \in Worker, v # w
       PROVE  WorkerInv(v)'
  BY <1>1, <1>15, WorkerFrame DEF PubSubInv, TypeOK
<1>16. \A v \in Worker : Attached(v)' = Attached(v)
  BY <1>1 DEF Attached
<1> QED
  BY <1>1, <1>13, <1>14, <1>15, <1>16, RegistryFrame DEF PubSubInv

-----------------------------------------------------------------------------
(* The manager's steps *)

(* PublisherImpl::subscribe gives the worker an id nobody has had, and a   *)
(* feed that starts with the next update.                                  *)
LEMMA SubscribeInv ==
    ASSUME PubSubInv, NEW w \in Worker, Subscribe(w)
    PROVE  PubSubInv'
<1> DEFINE h == [client |-> w, requests_in_flight |-> 0]
<1>1. /\ TypeOK /\ TicketsUnique /\ InFlightExact /\ WorkerInv(w)
      /\ conn[w] \in {"open", "lost"} /\ toManager[w] # <<>>
      /\ Head(toManager[w]) = "subscribe"
      /\ UNCHANGED <<worker, conn, awaiting, published, applied, skipped>>
      /\ toManager' = [toManager EXCEPT ![w] = Tail(@)]
      /\ subscribers' = Inserted(next_id, h)
      /\ ticket' = [ticket EXCEPT ![w] = next_id]
      /\ live' = live \cup {w} /\ next_id' = next_id + 1
      /\ toWorker' = [toWorker EXCEPT ![w] = IF conn[w] = "open" THEN Append(@, 0) ELSE @]
      /\ since' = [since EXCEPT ![w] = published]
  BY DEF PubSubInv, Subscribe
<1>2. ticket[w] = NoId
  <2>1. toManager[w] \in Seq({"subscribe", "return"})
    BY <1>1 DEF TypeOK
  <2>2. 1 \in DOMAIN toManager[w] /\ toManager[w][1] = "subscribe"
    BY <1>1, <2>1, TakeFirst
  <2> QED
    BY <1>1, <2>2 DEF WorkerInv, AnswersOwed
<1>3. /\ worker[w] # "subscribed" /\ awaiting[w] = 0 /\ toWorker[w] = <<>>
      /\ applied[w] = <<>> /\ toManager[w] = <<"subscribe">>
  BY <1>1, <1>2 DEF WorkerInv, Unattached
<1>4. toManager'[w] = <<>> /\ ticket'[w] = next_id /\ since'[w] = published
  BY <1>1, <1>3 DEF TypeOK
<1>5. toWorker'[w] = IF conn[w] = "open" THEN <<0>> ELSE <<>>
  BY <1>1, <1>3 DEF TypeOK
<1>6. next_id \in Nat /\ next_id # NoId /\ published \in Nat
  BY <1>1 DEF TypeOK, NoId
<1>7. /\ DOMAIN subscribers' = DOMAIN subscribers \cup {next_id}
      /\ subscribers'[next_id] = h
      /\ \A i \in DOMAIN subscribers : i # next_id /\ subscribers'[i] = subscribers[i]
  BY <1>1, <1>6, OwnEntry DEF Inserted
<1>8. TypeOK'
  <2>1. h \in SubscriberHandle
    BY DEF SubscriberHandle
  <2>2. /\ DOMAIN subscribers' \in SUBSET Nat
        /\ subscribers' \in [DOMAIN subscribers' -> SubscriberHandle]
    BY <1>1, <1>6, <1>7, <2>1 DEF TypeOK, Inserted
  <2>3. toWorker' \in [Worker -> Seq(Nat)]
    <3>1. <<0>> \in Seq(Nat) /\ <<>> \in Seq(Nat)
      OBVIOUS
    <3>2. toWorker' = [toWorker EXCEPT ![w] = IF conn[w] = "open" THEN <<0>> ELSE <<>>]
      BY <1>1, <1>3
    <3> QED
      BY <1>1, <3>1, <3>2 DEF TypeOK
  <2>4. toManager' \in [Worker -> Seq({"subscribe", "return"})]
    <3>1. toManager' = [toManager EXCEPT ![w] = <<>>]
      BY <1>1, <1>3
    <3> QED
      BY <1>1, <3>1 DEF TypeOK
  <2>5. /\ ticket' \in [Worker -> Nat \cup {NoId}] /\ since' \in [Worker -> Nat]
        /\ live' \in SUBSET Worker /\ next_id' \in Nat
    BY <1>1, <1>6 DEF TypeOK
  <2> QED
    BY <1>1, <2>2, <2>3, <2>4, <2>5 DEF TypeOK
<1>9. TicketsUnique'
  <2>1. \A v \in Worker : ticket[v] < next_id /\ ticket[v] \in Int
    BY <1>1 DEF TypeOK, TicketsUnique, NoId
  <2>2. \A v \in Worker : ticket'[v] = IF v = w THEN next_id ELSE ticket[v]
    BY <1>1 DEF TypeOK
  <2>3. \A v \in Worker : ticket'[v] < next_id'
    BY <1>1, <1>6, <2>1, <2>2
  <2>4. \A v \in Worker : v # w => ticket[v] # next_id
    BY <1>6, <2>1
  <2>5. ASSUME NEW u \in Worker, NEW v \in Worker, ticket'[u] = ticket'[v]
        PROVE  u = v \/ ticket'[u] = NoId
    BY <1>1, <2>2, <2>4, <2>5 DEF TicketsUnique
  <2> QED
    BY <2>3, <2>5 DEF TicketsUnique
<1>10. InFlightExact'
  <2>1. ASSUME NEW i \in DOMAIN subscribers
        PROVE  /\ ticket'[subscribers'[i].client] = i
               /\ subscribers'[i].requests_in_flight = awaiting'[subscribers'[i].client]
               /\ subscribers'[i].requests_in_flight <= MaxInFlight
    <3>1. /\ i \in Nat /\ subscribers[i].client \in Worker
          /\ ticket[subscribers[i].client] = i /\ subscribers'[i] = subscribers[i]
      BY <1>7, OwnEntry
    <3>2. subscribers[i].client # w
      BY <1>2, <3>1 DEF NoId
    <3>3. ticket'[subscribers[i].client] = i
      BY <1>1, <3>1, <3>2 DEF TypeOK
    <3> QED
      BY <1>1, <3>1, <3>3 DEF InFlightExact
  <2>2. /\ ticket'[h.client] = next_id
        /\ h.requests_in_flight = awaiting'[h.client]
        /\ h.requests_in_flight <= MaxInFlight
    BY <1>1, <1>3, <1>4, PubSubAssumption
  <2> QED
    BY <1>7, <2>1, <2>2 DEF InFlightExact
<1>11. WorkerInv(w)'
  <2>1. Staged(w)' /\ Unattached(w)'
    BY <1>1, <1>4, <1>5, <1>6 DEF WorkerInv, Staged, Unattached
  <2>2. AnswersOwed(w)'
    <3>1. conn[w] = "open" => worker[w] = "connected"
      BY <1>1, <1>3 DEF WorkerInv, Staged
    <3>2. Len(toManager'[w]) = 0 /\ DOMAIN toManager'[w] = {} /\ awaiting'[w] = 0
      BY <1>1, <1>3, <1>4
    <3>3. conn[w] = "open" => toWorker'[w] # <<>> /\ toWorker'[w][1] = 0
      BY <1>5
    <3>4. conn' = conn /\ worker' = worker /\ conn[w] \in {"open", "lost"}
      BY <1>1
    <3> QED
      BY <3>1, <3>2, <3>3, <3>4 DEF AnswersOwed
  <2>3. FeedOrdered(w)'
    <3>1. \A k \in DOMAIN toWorker'[w] : k = 1 /\ toWorker'[w][k] = 0
      BY <1>5
    <3>2. DOMAIN applied'[w] = {}
      BY <1>1, <1>3
    <3>3. skipped[w] \subseteq 1 .. published
      BY <1>1 DEF WorkerInv, FeedOrdered
    <3> QED
      BY <1>1, <1>4, <1>6, <3>1, <3>2, <3>3 DEF FeedOrdered
  <2>4. Attached(w)' => Balanced(w)'
    <3>1. SUFFICES ASSUME Attached(w)' PROVE Balanced(w)'
      OBVIOUS
    <3>2. conn[w] = "open" /\ worker[w] = "connected"
      BY <1>1, <1>3, <3>1 DEF WorkerInv, Staged, Attached
    <3>3. Len(toWorker'[w]) = 1 /\ Len(toManager'[w]) = 0 /\ awaiting'[w] = 0
      BY <1>1, <1>3, <1>4, <1>5, <3>2
    <3>4. worker'[w] = "connected"
      BY <1>1, <3>2
    <3> QED
      BY <3>3, <3>4 DEF Balanced
  <2>5. Fed(w)'
    <3>1. Taken(w)' = {}
      BY <1>1, <1>3 DEF Taken
    <3>2. Coming(w)' = {}
      BY <1>5 DEF Coming
    <3>3. (published + 1 .. published) = {}
      BY <1>6
    <3> QED
      BY <1>1, <1>4, <3>1, <3>2, <3>3 DEF Fed
  <2> QED
    BY <2>1, <2>2, <2>3, <2>4, <2>5 DEF WorkerInv
<1>12. ASSUME NEW v \in Worker, v # w
       PROVE  /\ WorkerInv(v)' /\ Attached(v)' = Attached(v)
              /\ Registered(v) => Registered(v)'
  <2>1. WorkerInv(v)'
    BY <1>1, <1>12, WorkerFrame DEF PubSubInv, TypeOK
  <2>2. ticket'[v] = ticket[v] /\ conn'[v] = conn[v]
    BY <1>1, <1>12 DEF TypeOK
  <2> QED
    BY <1>7, <2>1, <2>2 DEF Attached, Registered
<1>13. Registered(w)'
  BY <1>4, <1>7 DEF Registered
<1> QED
  BY <1>8, <1>9, <1>10, <1>11, <1>12, <1>13 DEF PubSubInv

(* What a publication does to one worker: it is sent the update, or has it *)
(* skipped because of the limit, or is not registered.                     *)
LEMMA PublishFacts ==
    ASSUME PubSubInv, Publish
    PROVE  /\ published' = published + 1
           /\ UNCHANGED <<worker, conn, next_id, ticket, live, toManager, applied, since>>
           /\ DOMAIN subscribers' = DOMAIN subscribers
           /\ TypeOK' /\ InFlightExact'
           /\ \A w \in Worker :
               \/ /\ Registered(w) /\ skipped'[w] = skipped[w]
                  /\ awaiting'[w] = awaiting[w] + 1
                  /\ toWorker'[w] = IF conn[w] = "open"
                                    THEN Append(toWorker[w], published + 1) ELSE toWorker[w]
               \/ /\ Registered(w) /\ skipped'[w] = skipped[w] \cup {published + 1}
                  /\ awaiting'[w] = awaiting[w] /\ toWorker'[w] = toWorker[w]
               \/ /\ ~Registered(w) /\ skipped'[w] = skipped[w]
                  /\ awaiting'[w] = awaiting[w] /\ toWorker'[w] = toWorker[w]
<1> DEFINE full(w) == InFlight(w) >= MaxInFlight
           sent == {w \in Worker : Registered(w) /\ ~full(w)}
           n == published + 1
<1>1. /\ TypeOK /\ InFlightExact
      /\ UNCHANGED <<worker, conn, next_id, ticket, live, toManager, applied, since>>
      /\ published' = n
      /\ subscribers' = [i \in DOMAIN subscribers |->
                            IF subscribers[i].requests_in_flight < MaxInFlight
                            THEN [subscribers[i] EXCEPT !.requests_in_flight = @ + 1]
                            ELSE subscribers[i]]
      /\ awaiting' = [w \in Worker |-> IF w \in sent THEN awaiting[w] + 1 ELSE awaiting[w]]
      /\ toWorker' = [w \in Worker |-> IF w \in sent /\ conn[w] = "open"
                                       THEN Append(toWorker[w], n) ELSE toWorker[w]]
      /\ skipped' = [w \in Worker |-> IF Registered(w) /\ full(w)
                                      THEN skipped[w] \cup {n} ELSE skipped[w]]
  BY DEF PubSubInv, Publish
<1>2. n \in Nat /\ MaxInFlight \in Nat
  BY <1>1, PubSubAssumption DEF TypeOK
<1>3. ASSUME NEW i \in DOMAIN subscribers
      PROVE  /\ subscribers[i] \in SubscriberHandle
             /\ subscribers'[i].client = subscribers[i].client
             /\ subscribers'[i].requests_in_flight =
                    IF subscribers[i].requests_in_flight < MaxInFlight
                    THEN subscribers[i].requests_in_flight + 1
                    ELSE subscribers[i].requests_in_flight
             /\ subscribers'[i] \in SubscriberHandle
  <2>1. subscribers[i] \in SubscriberHandle
    BY <1>1 DEF TypeOK
  <2>2. subscribers'[i] = IF subscribers[i].requests_in_flight < MaxInFlight
                          THEN [subscribers[i] EXCEPT !.requests_in_flight = @ + 1]
                          ELSE subscribers[i]
    BY <1>1
  <2> QED
    BY <1>2, <2>1, <2>2 DEF SubscriberHandle
<1>4. ASSUME NEW i \in DOMAIN subscribers
      PROVE  /\ ticket'[subscribers'[i].client] = i
             /\ subscribers'[i].requests_in_flight = awaiting'[subscribers'[i].client]
             /\ subscribers'[i].requests_in_flight <= MaxInFlight
  <2> DEFINE w == subscribers[i].client
             f == subscribers[i].requests_in_flight
  <2>1. w \in Worker /\ ticket[w] = i /\ Registered(w) /\ f = awaiting[w] /\ f \in Nat
    BY <1>1, <1>3, OwnEntry DEF InFlightExact, SubscriberHandle
  <2>2. InFlight(w) = f /\ f <= MaxInFlight
    BY <1>1, <2>1 DEF InFlight, InFlightExact
  <2>3. w \in sent <=> f < MaxInFlight
    BY <1>2, <2>1, <2>2
  <2>4. awaiting'[w] = IF f < MaxInFlight THEN f + 1 ELSE f
    BY <1>1, <2>1, <2>3
  <2>5. subscribers'[i].client = w /\ subscribers'[i].requests_in_flight
            = IF f < MaxInFlight THEN f + 1 ELSE f
    BY <1>3
  <2> HIDE DEF w, f
  <2>6. subscribers'[i].requests_in_flight <= MaxInFlight
    BY <1>2, <2>1, <2>2, <2>5
  <2> QED
    BY <1>1, <2>1, <2>4, <2>5, <2>6
<1>5. DOMAIN subscribers' = DOMAIN subscribers
  BY <1>1
<1>6. InFlightExact'
  BY <1>4, <1>5 DEF InFlightExact
<1>7. TypeOK'
  <2>1. /\ DOMAIN subscribers' \in SUBSET Nat
        /\ subscribers' \in [DOMAIN subscribers' -> SubscriberHandle]
    BY <1>1, <1>3, <1>5 DEF TypeOK
  <2>2. awaiting' \in [Worker -> Nat] /\ skipped' \in [Worker -> SUBSET Nat]
    BY <1>1, <1>2 DEF TypeOK
  <2>3. toWorker' \in [Worker -> Seq(Nat)]
    <3>1. \A w \in Worker : toWorker[w] \in Seq(Nat) /\ Append(toWorker[w], n) \in Seq(Nat)
      BY <1>1, <1>2, AppendProperties DEF TypeOK
    <3> QED
      BY <1>1, <3>1
  <2> QED
    BY <1>1, <1>2, <2>1, <2>2, <2>3 DEF TypeOK
<1> HIDE DEF full
<1> QED
  BY <1>1, <1>5, <1>6, <1>7

(* A publication: what a worker of an open connection has taken or is      *)
(* being sent grows by the update, or what was skipped does.               *)
LEMMA PublishInv ==
    ASSUME PubSubInv, Publish
    PROVE  PubSubInv'
<1> DEFINE n == published + 1
<1>1. /\ TypeOK /\ published \in Nat /\ published' = n
      /\ UNCHANGED <<worker, conn, next_id, ticket, live, toManager, applied, since>>
      /\ DOMAIN subscribers' = DOMAIN subscribers
      /\ TypeOK' /\ InFlightExact'
  BY PublishFacts DEF PubSubInv, TypeOK
<1>2. TicketsUnique'
  BY <1>1 DEF PubSubInv, TicketsUnique
<1>3. \A w \in Worker : Attached(w)' = Attached(w) /\ Registered(w)' = Registered(w)
  BY <1>1 DEF Attached, Registered
<1>4. ASSUME NEW w \in Worker
      PROVE  WorkerInv(w)'
  <2>1. /\ WorkerInv(w) /\ (Attached(w) => Registered(w))
        /\ (Registered(w) => ticket[w] # NoId)
    BY OwnEntry DEF PubSubInv
  <2>2. /\ worker'[w] = worker[w] /\ conn'[w] = conn[w] /\ ticket'[w] = ticket[w]
        /\ toManager'[w] = toManager[w] /\ applied'[w] = applied[w] /\ since'[w] = since[w]
    BY <1>1
  <2>3. /\ toWorker[w] \in Seq(Nat) /\ awaiting[w] \in Nat /\ applied[w] \in Seq(Nat)
        /\ since[w] \in Nat /\ skipped[w] \subseteq Nat
        /\ Len(toManager[w]) \in Nat /\ Len(toWorker[w]) \in Nat
    BY <1>1, LenProperties DEF TypeOK
  <2>4. FeedOrdered(w)
    BY <2>1 DEF WorkerInv
  <2>5. CASE /\ Registered(w) /\ skipped'[w] = skipped[w] /\ awaiting'[w] = awaiting[w] + 1
             /\ conn[w] = "open" /\ toWorker'[w] = Append(toWorker[w], n)
    <3> DEFINE q == toWorker[w]
               a == toWorker'[w]
               l == Len(q) + 1
    <3>1. /\ a \in Seq(Nat) /\ a # <<>> /\ Len(a) = l
          /\ l \in Nat \ {0} /\ l \in DOMAIN a /\ a[l] = n
          /\ \A k \in DOMAIN q : k \in Nat \ {0} /\ k < l /\ k \in DOMAIN a /\ a[k] = q[k]
          /\ \A k \in DOMAIN a : k \in DOMAIN q \/ k = l
          /\ Elements(a) = Elements(q) \cup {n}
      <4>1. n \in Nat /\ q \in Seq(Nat) /\ a = Append(q, n)
        BY <1>1, <2>3, <2>5
      <4> HIDE DEF n, q, a
      <4> QED
        BY ONLY <4>1, PutLast
    <3>2. \A k \in DOMAIN q : q[k] \in Nat /\ q[k] <= published
      BY <2>3, <2>4 DEF FeedOrdered
    <3>3. /\ Attached(w) /\ Balanced(w) /\ Fed(w) /\ AnswersOwed(w)
      BY <2>1, <2>5 DEF WorkerInv, Attached
    <3>4. Staged(w)' /\ Unattached(w)'
      BY <2>1, <2>2, <2>5 DEF WorkerInv, Staged, Unattached
    <3>5. AnswersOwed(w)'
      <4>1. worker[w] = "connected" <=> q # <<>> /\ q[1] = 0
        BY <2>1, <2>5, <3>3 DEF AnswersOwed
      <4>2. q # <<>> => a[1] = q[1]
        BY <2>3, <3>1, TakeFirst
      <4>3. q = <<>> => a[1] = n
        BY <2>5
      <4>4. worker[w] = "connected" <=> a # <<>> /\ a[1] = 0
        BY <1>1, <3>1, <4>1, <4>2, <4>3
      <4>5. Len(toManager[w]) <= awaiting[w] + 1
        BY <2>1, <2>3, <2>5, <3>3 DEF AnswersOwed
      <4> QED
        BY <2>1, <2>2, <2>5, <3>3, <4>4, <4>5 DEF AnswersOwed
    <3>6. FeedOrdered(w)'
      <4>1. \A k \in DOMAIN a : a[k] <= n
        BY <1>1, <3>1, <3>2
      <4>2. \A j, k \in DOMAIN a : j < k => a[j] < a[k]
        <5>1. SUFFICES ASSUME NEW j \in DOMAIN a, NEW k \in DOMAIN a, j < k
                       PROVE  a[j] < a[k]
          OBVIOUS
        <5>2. CASE j \in DOMAIN q /\ k \in DOMAIN q
          BY <2>4, <3>1, <5>1, <5>2 DEF FeedOrdered
        <5>3. CASE j \in DOMAIN q /\ k = l
          BY <1>1, <3>1, <3>2, <5>3
        <5>4. CASE j = l
          BY <3>1, <5>1, <5>4
        <5> QED
          BY <3>1, <5>2, <5>3, <5>4
      <4>3. \A k \in DOMAIN applied[w] : applied[w][k] \in Nat /\ applied[w][k] <= published
        BY <2>3, <2>4 DEF FeedOrdered
      <4>4. \A j \in DOMAIN applied[w], k \in DOMAIN a : a[k] # 0 => applied[w][j] < a[k]
        <5>1. SUFFICES ASSUME NEW j \in DOMAIN applied[w], NEW k \in DOMAIN a, a[k] # 0
                       PROVE  applied[w][j] < a[k]
          OBVIOUS
        <5>2. CASE k \in DOMAIN q
          BY <2>4, <3>1, <5>1, <5>2 DEF FeedOrdered
        <5>3. CASE k = l
          BY <1>1, <3>1, <4>3, <5>3
        <5> QED
          BY <3>1, <5>2, <5>3
      <4>5. \A k \in DOMAIN applied[w] : applied[w][k] <= n
        BY <1>1, <4>3
      <4>6. since[w] <= n /\ skipped[w] \subseteq 1 .. n
        BY <1>1, <2>3, <2>4 DEF FeedOrdered
      <4> HIDE DEF n
      <4> QED
        BY <1>1, <2>2, <2>5, <4>1, <4>2, <4>4, <4>5, <4>6 DEF FeedOrdered
    <3>7. Balanced(w)'
      <4>1. /\ worker[w] = "connected" => Len(q) + Len(toManager[w]) = awaiting[w] + 1
            /\ worker[w] # "connected" => Len(q) + Len(toManager[w]) = awaiting[w]
        BY <3>3 DEF Balanced
      <4>2. Len(a) = Len(q) + 1 /\ Len(q) \in Nat
        BY <2>3, <3>1
      <4>3. /\ worker[w] = "connected" => Len(a) + Len(toManager[w]) = awaiting[w] + 1 + 1
            /\ worker[w] # "connected" => Len(a) + Len(toManager[w]) = awaiting[w] + 1
        <5>1. PICK x \in Int, y \in Int, z \in Int :
                x = Len(q) /\ y = Len(toManager[w]) /\ z = awaiting[w]
          <6>1. Len(q) \in Int /\ Len(toManager[w]) \in Int /\ awaiting[w] \in Int
            BY <2>3, <4>2
          <6> QED
            BY ONLY <6>1
        <5>2. Len(a) = x + 1
          BY <4>2, <5>1
        <5>3. (worker[w] = "connected" => x + y = z + 1) /\ (worker[w] # "connected" => x + y = z)
          BY <4>1, <5>1
        <5>4. /\ worker[w] = "connected" => (x + 1) + y = z + 1 + 1
              /\ worker[w] # "connected" => (x + 1) + y = z + 1
          BY ONLY <5>3, x \in Int, y \in Int, z \in Int
        <5> QED
          BY ONLY <5>1, <5>2, <5>4
      <4> QED
        BY <2>2, <2>5, <4>3 DEF Balanced
    <3>8. Fed(w)'
      <4>1. Taken(w)' = Taken(w) /\ Coming(w) = Elements(q) \ {0} /\ Coming(w)' = Elements(a) \ {0}
        BY <2>2 DEF Taken, Coming, Elements
      <4>2. Coming(w)' = Coming(w) \cup {n}
        BY <1>1, <3>1, <4>1
      <4>3. (since[w] + 1 .. n) \ skipped[w] = ((since[w] + 1 .. published) \ skipped[w]) \cup {n}
        <5>1. n \notin skipped[w] /\ since[w] <= published
          BY <1>1, <2>4 DEF FeedOrdered
        <5>2. (since[w] + 1 .. n) = (since[w] + 1 .. published) \cup {n}
          BY <1>1, <2>3, <5>1
        <5> QED
          BY <5>1, <5>2
      <4> QED
        BY <1>1, <2>2, <2>5, <3>3, <4>1, <4>2, <4>3 DEF Fed
    <3> QED
      BY <3>4, <3>5, <3>6, <3>7, <3>8 DEF WorkerInv
  <2>6. CASE /\ toWorker'[w] = toWorker[w] /\ awaiting'[w] \in {awaiting[w], awaiting[w] + 1}
             /\ skipped'[w] \in {skipped[w], skipped[w] \cup {n}}
             /\ Attached(w) => awaiting'[w] = awaiting[w] /\ skipped'[w] = skipped[w] \cup {n}
             /\ ticket[w] = NoId => awaiting'[w] = awaiting[w]
    <3>1. Staged(w)' /\ Unattached(w)'
      BY <2>1, <2>2, <2>6 DEF WorkerInv, Staged, Unattached
    <3>2. AnswersOwed(w)'
      <4>1. Len(toManager[w]) <= awaiting[w] => Len(toManager[w]) <= awaiting'[w]
        BY <2>3, <2>6
      <4> QED
        BY <2>1, <2>2, <2>6, <4>1 DEF WorkerInv, AnswersOwed
    <3>3. FeedOrdered(w)'
      <4>1. since[w] <= n /\ skipped'[w] \subseteq 1 .. n
        BY <1>1, <2>3, <2>4, <2>6 DEF FeedOrdered
      <4>2. \A k \in DOMAIN applied[w] : applied[w][k] <= n
        BY <1>1, <2>3, <2>4 DEF FeedOrdered
      <4>3. \A k \in DOMAIN toWorker[w] : toWorker[w][k] <= n
        BY <1>1, <2>3, <2>4 DEF FeedOrdered
      <4> HIDE DEF n
      <4> QED
        BY <1>1, <2>2, <2>4, <2>6, <4>1, <4>2, <4>3 DEF FeedOrdered
    <3>4. Attached(w)' => Balanced(w)'
      BY <1>3, <2>1, <2>2, <2>6 DEF WorkerInv, Balanced
    <3>5. Attached(w)' => Fed(w)'
      <4>1. SUFFICES ASSUME Attached(w) PROVE Fed(w)'
        BY <1>3
      <4>2. Taken(w)' = Taken(w) /\ Coming(w)' = Coming(w) /\ Fed(w)
        BY <2>1, <2>2, <2>6, <4>1 DEF WorkerInv, Taken, Coming
      <4>3. (since[w] + 1 .. published) \ skipped[w] = (since[w] + 1 .. n) \ (skipped[w] \cup {n})
        BY <1>1, <2>3
      <4> QED
        BY <1>1, <2>2, <2>6, <4>1, <4>2, <4>3 DEF Fed
    <3> QED
      BY <3>1, <3>2, <3>3, <3>4, <3>5 DEF WorkerInv
  <2>7. \/ /\ Registered(w) /\ skipped'[w] = skipped[w] /\ awaiting'[w] = awaiting[w] + 1
           /\ toWorker'[w] = IF conn[w] = "open" THEN Append(toWorker[w], n) ELSE toWorker[w]
        \/ /\ Registered(w) /\ skipped'[w] = skipped[w] \cup {n}
           /\ awaiting'[w] = awaiting[w] /\ toWorker'[w] = toWorker[w]
        \/ /\ ~Registered(w) /\ skipped'[w] = skipped[w]
           /\ awaiting'[w] = awaiting[w] /\ toWorker'[w] = toWorker[w]
    BY PublishFacts
  <2>8. Attached(w) => conn[w] = "open"
    BY DEF Attached
  <2> QED
    BY <2>1, <2>5, <2>6, <2>7, <2>8
<1> QED
  BY <1>1, <1>2, <1>3, <1>4 DEF PubSubInv

(* The Ok arm of a publish: an answer is read and its slot given back.     *)
LEMMA ReturnInv ==
    ASSUME PubSubInv, NEW w \in Worker, Return(w)
    PROVE  PubSubInv'
<1> DEFINE q == toManager[w]
           t == Tail(q)
           Wire == {"subscribe", "return"}
<1>1. /\ TypeOK /\ TicketsUnique /\ InFlightExact /\ WorkerInv(w)
      /\ conn[w] \in {"open", "lost"} /\ q # <<>> /\ Head(q) = "return"
      /\ UNCHANGED <<worker, conn, next_id, ticket, live, toWorker, published, applied,
                     skipped, since>>
      /\ toManager' = [toManager EXCEPT ![w] = t]
      /\ awaiting' = [awaiting EXCEPT ![w] = @ - 1]
      /\ subscribers' = IF Registered(w)
                        THEN [subscribers EXCEPT ![ticket[w]].requests_in_flight = @ - 1]
                        ELSE subscribers
  BY DEF PubSubInv, Return, ReadAnswer, history
<1>2. /\ Head(q) = q[1] /\ 1 \in DOMAIN q /\ Len(q) \in Nat \ {0}
      /\ t \in Seq(Wire) /\ Len(t) = Len(q) - 1
      /\ \A k \in DOMAIN t : k + 1 \in DOMAIN q /\ t[k] = q[k + 1]
  <2>1. q \in Seq(Wire)
    BY <1>1 DEF TypeOK
  <2> HIDE DEF q, Wire
  <2> QED
    BY <1>1, <2>1, TakeFirst
<1>3. ticket[w] # NoId /\ awaiting[w] \in Nat
  <2>1. <<"subscribe">>[1] = "subscribe" /\ "subscribe" # "return"
    OBVIOUS
  <2> QED
    BY <1>1, <1>2, <2>1 DEF WorkerInv, Unattached, TypeOK
<1>4. /\ \A k \in DOMAIN q : q[k] = "return"
      /\ Len(q) <= awaiting[w]
      /\ conn[w] = "open" => (worker[w] = "connected" <=> toWorker[w] # <<>> /\ toWorker[w][1] = 0)
  BY <1>1, <1>3 DEF WorkerInv, AnswersOwed
<1>5. awaiting[w] - 1 \in Nat /\ Len(t) <= awaiting[w] - 1
  <2>1. \A x, y \in Nat : x # 0 /\ x <= y => y - 1 \in Nat /\ x - 1 <= y - 1
    OBVIOUS
  <2> QED
    BY <1>2, <1>3, <1>4, <2>1
<1>6. toManager'[w] = t /\ awaiting'[w] = awaiting[w] - 1
  BY <1>1 DEF TypeOK
<1>7. ASSUME NEW i \in DOMAIN subscribers
      PROVE  /\ subscribers'[i] \in SubscriberHandle
             /\ subscribers'[i].client = subscribers[i].client
             /\ subscribers'[i].requests_in_flight = awaiting'[subscribers[i].client]
             /\ subscribers'[i].requests_in_flight <= MaxInFlight
  <2>1. /\ subscribers[i] \in SubscriberHandle /\ subscribers[i].client \in Worker
        /\ ticket[subscribers[i].client] = i
        /\ subscribers[i].requests_in_flight = awaiting[subscribers[i].client]
        /\ subscribers[i].requests_in_flight <= MaxInFlight
    BY <1>1, OwnEntry DEF TypeOK, InFlightExact
  <2>2. CASE i = ticket[w]
    <3>1. subscribers[i].client = w /\ Registered(w)
      BY <2>2, OwnEntry DEF Registered
    <3>2. subscribers'[i] = [subscribers[i] EXCEPT !.requests_in_flight = @ - 1]
      BY <1>1, <2>2, <3>1
    <3>3. /\ subscribers[i].requests_in_flight \in Nat
          /\ subscribers[i].requests_in_flight - 1 = awaiting[w] - 1
          /\ awaiting[w] - 1 <= MaxInFlight
      BY <1>3, <2>1, <3>1, PubSubAssumption
    <3> QED
      BY <1>5, <1>6, <2>1, <3>1, <3>2, <3>3 DEF SubscriberHandle
  <2>3. CASE i # ticket[w]
    <3>1. subscribers'[i] = subscribers[i] /\ subscribers[i].client # w
      BY <1>1, <2>1, <2>3
    <3>2. awaiting'[subscribers[i].client] = awaiting[subscribers[i].client]
      BY <1>1, <2>1, <3>1 DEF TypeOK
    <3> QED
      BY <2>1, <3>1, <3>2
  <2> QED
    BY <2>2, <2>3
<1>8. DOMAIN subscribers' = DOMAIN subscribers
  BY <1>1
<1>9. InFlightExact' /\ TicketsUnique'
  <2>1. \A i \in DOMAIN subscribers : ticket'[subscribers'[i].client] = i
    BY <1>1, <1>7 DEF InFlightExact
  <2> QED
    BY <1>1, <1>7, <1>8, <2>1 DEF InFlightExact, TicketsUnique
<1>10. TypeOK'
  <2>1. /\ DOMAIN subscribers' \in SUBSET Nat
        /\ subscribers' \in [DOMAIN subscribers' -> SubscriberHandle]
    <3>1. subscribers' = [i \in DOMAIN subscribers |-> subscribers'[i]]
      BY <1>1 DEF TypeOK
    <3> QED
      BY <1>1, <1>7, <1>8, <3>1 DEF TypeOK
  <2>2. awaiting' \in [Worker -> Nat] /\ toManager' \in [Worker -> Seq(Wire)]
    <3> HIDE DEF t
    <3> QED
      BY <1>1, <1>2, <1>5 DEF TypeOK
  <2> QED
    BY <1>1, <2>1, <2>2 DEF TypeOK
<1> HIDE DEF t, q
<1>11. WorkerInv(w)'
  <2>1. Staged(w)' /\ Unattached(w)'
    BY <1>1, <1>3 DEF WorkerInv, Staged, Unattached
  <2>2. AnswersOwed(w)'
    <3>1. \A k \in DOMAIN t : t[k] = "return"
      BY <1>2, <1>4
    <3> QED
      BY <1>1, <1>4, <1>5, <1>6, <3>1 DEF AnswersOwed
  <2>3. FeedOrdered(w)'
    BY <1>1 DEF WorkerInv, FeedOrdered
  <2>4. Attached(w) => Balanced(w)'
    <3>1. SUFFICES ASSUME Balanced(w) PROVE Balanced(w)'
      BY <1>1 DEF WorkerInv
    <3>2. Len(toWorker[w]) \in Nat
      BY <1>1, LenProperties DEF TypeOK
    <3>3. /\ worker[w] = "connected" => Len(toWorker[w]) + Len(q) = awaiting[w] + 1
          /\ worker[w] # "connected" => Len(toWorker[w]) + Len(q) = awaiting[w]
      BY <3>1 DEF Balanced, q
    <3>4. \A x, y, z \in Int : /\ x + y = z => x + (y - 1) = z - 1
                               /\ x + y = z + 1 => x + (y - 1) = (z - 1) + 1
      OBVIOUS
    <3>5. /\ worker[w] = "connected" => Len(toWorker[w]) + Len(t) = (awaiting[w] - 1) + 1
          /\ worker[w] # "connected" => Len(toWorker[w]) + Len(t) = awaiting[w] - 1
      <4>1. /\ Len(toWorker[w]) \in Int /\ Len(q) \in Int /\ awaiting[w] \in Int
            /\ Len(toWorker[w]) + Len(t) = Len(toWorker[w]) + (Len(q) - 1)
        BY <1>2, <1>3, <3>2
      <4> QED
        BY <3>3, <3>4, <4>1
    <3> QED
      BY <1>1, <1>6, <3>5 DEF Balanced
  <2>5. Attached(w) => Fed(w)'
    BY <1>1 DEF WorkerInv, Fed, Taken, Coming
  <2>6. Attached(w)' = Attached(w)
    BY <1>1 DEF Attached
  <2> QED
    BY <2>1, <2>2, <2>3, <2>4, <2>5, <2>6 DEF WorkerInv
<1>12. ASSUME NEW v \in Worker, v # w
       PROVE  WorkerInv(v)'
  BY <1>1, <1>12, WorkerFrame DEF PubSubInv, TypeOK
<1>13. \A v \in Worker : Attached(v)' = Attached(v) /\ Registered(v)' = Registered(v)
  BY <1>1, <1>8 DEF Attached, Registered
<1> QED
  BY <1>9, <1>10, <1>11, <1>12, <1>13 DEF PubSubInv

(* The end of a closed connection, in either of the orders in which the    *)
(* manager may learn of it: the entry of its own worker goes, no other.    *)
LEMMA RemoveInv ==
    ASSUME PubSubInv, NEW w \in Worker, PromiseError(w) \/ DropSubscription(w)
    PROVE  PubSubInv'
<1>1. /\ TypeOK /\ TicketsUnique /\ InFlightExact /\ WorkerInv(w) /\ conn[w] = "closed"
      /\ UNCHANGED <<worker, conn, next_id, ticket, toWorker, toManager, published, applied,
                     skipped, since>>
      /\ subscribers' = Removed(ticket[w])
      /\ live' \in {live, live \ {w}}
      /\ \/ awaiting' = awaiting
         \/ awaiting[w] > 0 /\ awaiting' = [awaiting EXCEPT ![w] = @ - 1]
  BY DEF PubSubInv, PromiseError, DropSubscription, Release, wires, history
<1>2. /\ awaiting[w] \in Nat /\ awaiting'[w] \in Nat
      /\ \A v \in Worker : v # w => awaiting'[v] = awaiting[v]
      /\ awaiting' \in [Worker -> Nat]
  BY <1>1 DEF TypeOK
<1>3. /\ DOMAIN subscribers' = DOMAIN subscribers \ {ticket[w]}
      /\ \A k \in DOMAIN subscribers' : subscribers'[k] = subscribers[k]
      /\ DOMAIN subscribers' \in SUBSET Nat
      /\ subscribers' \in [DOMAIN subscribers' -> SubscriberHandle]
  BY <1>1, RemovedFacts
<1>4. TypeOK'
  BY <1>1, <1>2, <1>3 DEF TypeOK
<1>5. TicketsUnique'
  BY <1>1 DEF TicketsUnique
<1>6. InFlightExact'
  <2>1. SUFFICES ASSUME NEW i \in DOMAIN subscribers'
                 PROVE  /\ ticket'[subscribers'[i].client] = i
                        /\ subscribers'[i].requests_in_flight = awaiting'[subscribers'[i].client]
                        /\ subscribers'[i].requests_in_flight <= MaxInFlight
    BY DEF InFlightExact
  <2>2. i \in DOMAIN subscribers /\ i # ticket[w] /\ subscribers'[i] = subscribers[i]
    BY <1>3
  <2>3. subscribers[i].client \in Worker /\ ticket[subscribers[i].client] = i
    BY <2>2, OwnEntry
  <2>4. awaiting'[subscribers[i].client] = awaiting[subscribers[i].client]
    BY <1>2, <2>2, <2>3
  <2> QED
    BY <1>1, <2>2, <2>3, <2>4 DEF InFlightExact
<1>7. WorkerInv(w)' /\ ~Attached(w)'
  <2>1. ~Attached(w)'
    BY <1>1 DEF Attached
  <2>2. toManager[w] = <<>> /\ Len(toManager'[w]) = 0
    BY <1>1 DEF WorkerInv, Staged
  <2>3. Unattached(w)'
    BY <1>1, <1>2 DEF WorkerInv, Unattached
  <2>4. Staged(w)' /\ AnswersOwed(w)'
    BY <1>1, <1>2, <2>2 DEF WorkerInv, Staged, AnswersOwed
  <2>5. FeedOrdered(w)'
    BY <1>1 DEF WorkerInv, FeedOrdered
  <2> QED
    BY <2>1, <2>3, <2>4, <2>5 DEF WorkerInv
<1>8. ASSUME NEW v \in Worker, v # w
      PROVE  WorkerInv(v)' /\ (Attached(v)' => Registered(v)')
  <2>1. WorkerInv(v)'
    BY <1>1, <1>2, <1>8, WorkerFrame DEF PubSubInv
  <2>2. ASSUME Attached(v)' PROVE Registered(v)'
    <3>1. Registered(v) /\ ticket'[v] = ticket[v]
      BY <1>1, <2>2 DEF PubSubInv, Attached
    <3>2. ticket[v] # ticket[w]
      BY <1>8, <3>1, OwnEntry
    <3> QED
      BY <1>3, <3>1, <3>2 DEF Registered
  <2> QED
    BY <2>1, <2>2
<1> QED
  BY <1>4, <1>5, <1>6, <1>7, <1>8 DEF PubSubInv

-----------------------------------------------------------------------------
(* The theorems *)

(* Before any worker connects the invariant holds.                         *)
LEMMA InitInv == Init => PubSubInv
<1> SUFFICES ASSUME Init PROVE PubSubInv
  OBVIOUS
<1>1. TypeOK
  <2>1. <<>> \in Seq(Nat) /\ <<>> \in Seq({"subscribe", "return"})
    OBVIOUS
  <2>2. DOMAIN subscribers = {} /\ subscribers \in [DOMAIN subscribers -> SubscriberHandle]
    BY DEF Init
  <2> QED
    BY <2>1, <2>2 DEF Init, TypeOK, WorkerState, ConnState, NoId
<1>2. TicketsUnique /\ InFlightExact
  BY DEF Init, TicketsUnique, InFlightExact, NoId
<1>3. ASSUME NEW w \in Worker
      PROVE  WorkerInv(w) /\ ~Attached(w)
  <2>1. ~Attached(w)
    BY DEF Init, Attached
  <2>2. Staged(w) /\ Unattached(w) /\ AnswersOwed(w)
    BY DEF Init, Staged, Unattached, AnswersOwed
  <2>3. FeedOrdered(w)
    BY DEF Init, FeedOrdered
  <2> QED
    BY <2>1, <2>2, <2>3 DEF WorkerInv
<1> QED
  BY <1>1, <1>2, <1>3 DEF PubSubInv

(* A step that changes nothing preserves the invariant.                    *)
LEMMA StutterInv ==
    ASSUME PubSubInv, UNCHANGED vars
    PROVE  PubSubInv'
<1>1. /\ UNCHANGED <<worker, conn, subscribers, next_id, ticket, live, awaiting, toWorker,
                     toManager, published, applied, skipped, since>>
  BY DEF vars, wires, history
<1>2. TypeOK'
  BY <1>1 DEF PubSubInv, TypeOK
<1>3. \A w \in Worker : WorkerInv(w)' /\ Attached(w)' = Attached(w)
  BY <1>1, WorkerFrame DEF PubSubInv, Attached
<1> QED
  BY <1>1, <1>2, <1>3, RegistryFrame DEF PubSubInv

(* The inductive invariant of publisher, subscribers and connections.      *)
THEOREM PubSubInvariance == Spec => []PubSubInv
<1>1. PubSubInv /\ [Next]_vars => PubSubInv'
  BY StutterInv, PublishInv, ConnectInv, HandleInv, DieInv, SubscribeInv, ReturnInv,
     DisconnectInv, RemoveInv DEF Next
<1> QED
  BY <1>1, InitInv, PTL DEF Spec

(* Deaths, late answers and both ways of dropping a subscriber included,   *)
(* requests_in_flight counts the calls without an answer and stays within  *)
(* the limit, and no two entries of the map share a worker or an id.       *)
THEOREM InFlightCounts == Spec => []InFlightExact
<1>1. PubSubInv => InFlightExact
  BY DEF PubSubInv
<1> QED
  BY <1>1, PubSubInvariance, PTL

(* No slot of a live subscriber is lost: what it owes is on the wire.      *)
THEOREM SlotsAccounted == Spec => []AllAccounted
<1>1. PubSubInv => AllAccounted
  BY DEF PubSubInv, WorkerInv, AllAccounted
<1> QED
  BY <1>1, PubSubInvariance, PTL

(* A live subscriber is in the map, and lacks only the updates it was      *)
(* skipped for.                                                            *)
THEOREM FeedsComplete == Spec => []FeedComplete
<1>1. PubSubInv => FeedComplete
  BY DEF PubSubInv, WorkerInv, FeedComplete
<1> QED
  BY <1>1, PubSubInvariance, PTL

(* The workers take updates in the order of publication, none twice and    *)
(* none invented: the connections implement Broadcast.                     *)
THEOREM BroadcastImplemented == Spec => ImplementsBroadcast
<1>1. Init => B!Init
  BY DEF Init, B!Init
<1>2. PubSubInv /\ [Next]_vars => [B!Next]_(B!bvars)
  <2> SUFFICES ASSUME PubSubInv, [Next]_vars
               PROVE  B!Next \/ UNCHANGED <<published, applied>>
    BY DEF B!bvars
  <2>1. CASE Publish
    BY <2>1 DEF Publish, B!Next, B!Publish
  <2>2. ASSUME NEW w \in Worker, Handle(w)
        PROVE  B!Next \/ UNCHANGED <<published, applied>>
    <3> DEFINE n == Head(toWorker[w])
    <3>1. CASE n = 0
      BY <2>2, <3>1 DEF Handle
    <3>2. CASE n # 0
      <4>1. /\ TypeOK /\ FeedOrdered(w)
            /\ applied' = [applied EXCEPT ![w] = Append(@, n)] /\ published' = published
        BY <2>2, <3>2 DEF PubSubInv, WorkerInv, Handle
      <4>2. /\ toWorker[w] \in Seq(Nat) /\ toWorker[w] # <<>> /\ applied[w] \in Seq(Nat)
            /\ published \in Nat
        BY <2>2, <4>1 DEF Handle, TypeOK
      <4>3. n \in Nat /\ n = toWorker[w][1] /\ 1 \in DOMAIN toWorker[w]
        BY <4>2, TakeFirst
      <4>4. n \in 1 .. published
        BY <3>2, <4>1, <4>2, <4>3 DEF FeedOrdered
      <4>5. n > B!Newest(w)
        <5>1. CASE applied[w] = <<>>
          BY <3>2, <4>3, <5>1 DEF B!Newest
        <5>2. CASE applied[w] # <<>>
          <6>1. Len(applied[w]) \in DOMAIN applied[w] /\ applied[w][Len(applied[w])] \in Nat
            BY <4>2, <5>2, EmptySeq, LenProperties
          <6>2. applied[w][Len(applied[w])] < n
            BY <3>2, <4>1, <4>3, <6>1 DEF FeedOrdered
          <6> QED
            BY <4>3, <5>2, <6>1, <6>2 DEF B!Newest
        <5> QED
          BY <5>1, <5>2
      <4> QED
        BY <4>1, <4>4, <4>5 DEF B!Next, B!Apply
    <3> QED
      BY <3>1, <3>2
  <2>3. ASSUME NEW w \in Worker,
               \/ Connect(w) \/ ConnectError(w) \/ Die(w) \/ Subscribe(w) \/ Return(w)
               \/ Disconnect(w) \/ PromiseError(w) \/ DropSubscription(w)
        PROVE  UNCHANGED <<published, applied>>
    BY <2>3 DEF Connect, ConnectError, Die, Subscribe, Return, ReadAnswer, Disconnect,
                PromiseError, DropSubscription, Release, history
  <2> QED
    BY <2>1, <2>2, <2>3 DEF Next, vars, history
<1> QED
  BY <1>1, <1>2, PubSubInvariance, PTL DEF Spec, ImplementsBroadcast, B!Spec
=============================================================================
