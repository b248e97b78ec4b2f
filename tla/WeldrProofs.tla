----------------------------- MODULE WeldrProofs ----------------------------
(***************************************************************************)
(* Proofs about Weldr, for every set of servers and workers, all limits    *)
(* and thresholds.  What the components guarantee is taken over from their *)
(* own proofs: Weldr implements each of them.                              *)
(***************************************************************************)
EXTENDS Weldr, PoolOpsProofs, FiniteSetTheorems, SequenceTheorems

MH == INSTANCE BackendHealthProofs
PP == INSTANCE PubSubProofs

-----------------------------------------------------------------------------
(* Weldr implements its components *)

(* The actions of the manager are those of BackendHealth.                  *)
LEMMA ManagerActions ==
    /\ \A s \in Server : M!AddServer(s) => MH!AddServer(s)
    /\ M!Tick => MH!Tick
    /\ M!CheckBackend => MH!CheckBackend
    /\ \A b \in M!Backend : M!CheckPasses(b) => MH!CheckPasses(b)
    /\ \A b \in M!Backend : M!CheckFails(b) => MH!CheckFails(b)
    /\ M!Backend = MH!Backend
    /\ M!Init => MH!Init
<1>1. ASSUME NEW s \in Server, M!AddServer(s) PROVE MH!AddServer(s)
  BY <1>1 DEF M!AddServer, MH!AddServer, M!Idle, MH!Idle, M!PoolContains, MH!PoolContains,
     M!Handles, MH!Handles, M!NewBackend, MH!NewBackend, M!PoolAdd, MH!PoolAdd,
     M!PushBackend, MH!PushBackend
<1>2. M!Tick => MH!Tick
  BY DEF M!Tick, MH!Tick, M!Idle, MH!Idle
<1>3. M!CheckBackend => MH!CheckBackend
  BY DEF M!CheckBackend, MH!CheckBackend, M!Idle, MH!Idle, M!ServerOf, MH!ServerOf,
     M!MarkBackend, MH!MarkBackend, M!WithCell, MH!WithCell
<1>4. ASSUME NEW b \in M!Backend, M!CheckPasses(b) PROVE MH!CheckPasses(b)
  BY <1>4 DEF M!CheckPasses, MH!CheckPasses, M!Answered, MH!Answered, M!Idle, MH!Idle,
     M!ServerOf, MH!ServerOf, M!Entry, MH!Entry, M!Matches, MH!Matches, M!StateOf, MH!StateOf,
     M!Stored, MH!Stored, M!StoreAt, MH!StoreAt, M!Passing, MH!Passing,
     M!should_mark_active, MH!should_mark_active,
     M!MarkBackend, MH!MarkBackend, M!WithCell, MH!WithCell
<1>5. ASSUME NEW b \in M!Backend, M!CheckFails(b) PROVE MH!CheckFails(b)
  BY <1>5 DEF M!CheckFails, MH!CheckFails, M!Answered, MH!Answered, M!Idle, MH!Idle,
     M!ServerOf, MH!ServerOf, M!Entry, MH!Entry, M!Matches, MH!Matches, M!StateOf, MH!StateOf,
     M!Stored, MH!Stored, M!StoreAt, MH!StoreAt, M!Passing, MH!Passing, M!Failing, MH!Failing,
     M!should_mark_down, MH!should_mark_down,
     M!MarkBackend, MH!MarkBackend, M!WithCell, MH!WithCell
<1>6. M!Backend = MH!Backend
  BY DEF M!Backend, MH!Backend
<1>7. M!Init => MH!Init
  BY <1>6 DEF M!Init, MH!Init, M!EmptyPool, MH!EmptyPool, M!Passing, MH!Passing
<1> QED
  BY <1>1, <1>2, <1>3, <1>4, <1>5, <1>6, <1>7

(* The actions on the connections are those of PubSub.                     *)
LEMMA PubSubActions ==
    /\ P!Publish => PP!Publish
    /\ \A w \in Worker :
        /\ P!Connect(w) => PP!Connect(w)
        /\ P!ConnectError(w) => PP!ConnectError(w)
        /\ P!Handle(w) => PP!Handle(w)
        /\ P!Die(w) => PP!Die(w)
        /\ P!Subscribe(w) => PP!Subscribe(w)
        /\ P!Return(w) => PP!Return(w)
        /\ P!Disconnect(w) => PP!Disconnect(w)
        /\ P!PromiseError(w) => PP!PromiseError(w)
        /\ P!DropSubscription(w) => PP!DropSubscription(w)
    /\ P!Init => PP!Init
<1> USE DEF P!history, PP!history, P!wires, PP!wires
<1>1. P!Publish => PP!Publish
  BY DEF P!Publish, PP!Publish, P!InFlight, PP!InFlight, P!Registered, PP!Registered
<1>2. ASSUME NEW w \in Worker
      PROVE  /\ P!Connect(w) => PP!Connect(w)
             /\ P!ConnectError(w) => PP!ConnectError(w)
             /\ P!Handle(w) => PP!Handle(w)
             /\ P!Die(w) => PP!Die(w)
  BY DEF P!Connect, PP!Connect, P!ConnectError, PP!ConnectError, P!Handle, PP!Handle,
     P!Die, PP!Die
<1>3. ASSUME NEW w \in Worker
      PROVE  /\ P!Subscribe(w) => PP!Subscribe(w)
             /\ P!Return(w) => PP!Return(w)
             /\ P!Disconnect(w) => PP!Disconnect(w)
             /\ P!PromiseError(w) => PP!PromiseError(w)
             /\ P!DropSubscription(w) => PP!DropSubscription(w)
  BY DEF P!Subscribe, PP!Subscribe, P!Inserted, PP!Inserted, P!Return, PP!Return,
     P!ReadAnswer, PP!ReadAnswer, P!Registered, PP!Registered, P!Disconnect, PP!Disconnect,
     P!PromiseError, PP!PromiseError, P!Removed, PP!Removed, P!DropSubscription,
     PP!DropSubscription, P!Release, PP!Release
<1>4. P!Init => PP!Init
  BY DEF P!Init, PP!Init, P!NoId, PP!NoId
<1> QED
  BY <1>1, <1>2, <1>3, <1>4

(* A step of Weldr is a step of the manager, or leaves it alone.           *)
LEMMA ManagerStep == [Next]_vars => [MH!Next]_(MH!vars)
<1> SUFFICES ASSUME [Next]_vars PROVE MH!Next \/ UNCHANGED manager
  BY DEF manager, MH!vars
<1>1. CASE UNCHANGED vars
  BY <1>1 DEF vars
<1>2. ASSUME NEW s \in Server, AddServer(s) PROVE MH!Next
  BY <1>2, ManagerActions DEF AddServer, MH!Next
<1>3. CASE Tick
  BY <1>3, ManagerActions DEF Tick, MH!Next
<1>4. CASE CheckBackend
  BY <1>4, ManagerActions DEF CheckBackend, MH!Next
<1>5. ASSUME NEW b \in M!Backend, CheckPasses(b) \/ CheckFails(b) PROVE MH!Next
  BY <1>5, ManagerActions DEF CheckPasses, CheckFails, MH!Next
<1>6. ASSUME NEW w \in Worker, Connection(w) \/ Handle(w) \/ Serve(w) \/ Die(w)
      PROVE  UNCHANGED manager
  BY <1>6 DEF Connection, Handle, Serve, Die
<1> QED
  BY <1>1, <1>2, <1>3, <1>4, <1>5, <1>6 DEF Next

(* A step of Weldr is a step of the publications, or leaves them alone.    *)
LEMMA PubSubStep == [Next]_vars => [PP!Next]_(PP!vars)
<1> SUFFICES ASSUME [Next]_vars PROVE PP!Next \/ UNCHANGED pubsub
  BY DEF pubsub, PP!vars, PP!history, PP!wires
<1>1. CASE UNCHANGED vars
  BY <1>1 DEF vars
<1>2. P!Publish => PP!Next
  BY PubSubActions DEF PP!Next
<1>3. ASSUME NEW s \in Server, AddServer(s) PROVE PP!Next
  BY <1>2, <1>3 DEF AddServer, Announce
<1>4. CASE Tick
  BY <1>4 DEF Tick
<1>5. ASSUME NEW op, NEW b, AnnounceChange(op, b) PROVE PP!Next \/ UNCHANGED pubsub
  BY <1>2, <1>5 DEF AnnounceChange, Announce
<1>6. CASE CheckBackend
  BY <1>5, <1>6 DEF CheckBackend
<1>7. ASSUME NEW b \in M!Backend, CheckPasses(b) \/ CheckFails(b)
      PROVE  PP!Next \/ UNCHANGED pubsub
  BY <1>5, <1>7 DEF CheckPasses, CheckFails
<1>8. ASSUME NEW w \in Worker, Connection(w) \/ Handle(w) \/ Die(w) PROVE PP!Next
  BY <1>8, PubSubActions DEF Connection, Handle, Die, PP!Next
<1>9. ASSUME NEW w \in Worker, Serve(w) PROVE UNCHANGED pubsub
  BY <1>9 DEF Serve
<1> QED
  BY <1>1, <1>3, <1>4, <1>6, <1>7, <1>8, <1>9 DEF Next

(* What BackendHealthProofs shows of the manager holds of it in Weldr.     *)
LEMMA ManagerHolds == Spec => []MH!HealthInv
<1>1. MH!Spec => []MH!HealthInv
  BY MH!HealthInvariance, WeldrAssumption, PTL
<1>2. Init => MH!Init
  BY ManagerActions DEF Init
<1> QED
  BY <1>1, <1>2, ManagerStep, PTL DEF Spec, MH!Spec

(* What PubSubProofs shows of the publications holds of them in Weldr.     *)
LEMMA PubSubHolds == Spec => []PP!PubSubInv
<1>1. PP!Spec => []PP!PubSubInv
  BY PP!PubSubInvariance, WeldrAssumption, PTL
<1>2. Init => PP!Init
  BY PubSubActions DEF Init
<1> QED
  BY <1>1, <1>2, PubSubStep, PTL DEF Spec, PP!Spec

-----------------------------------------------------------------------------
(* What a log of updates says *)

(* A nonempty set of indices has a greatest element, so Max is one.        *)
LEMMA MaxIsGreatest ==
    ASSUME NEW n \in Nat, NEW T \in SUBSET (1 .. n), T # {}
    PROVE  Max(T) \in T /\ \A k \in T : Max(T) >= k
<1> DEFINE R == {n - k : k \in T}
<1>1. R \in SUBSET Nat /\ R # {}
  <2>1. \A k \in T : n - k \in Nat /\ n - k \in R
    OBVIOUS
  <2> QED
    BY <2>1
<1>2. PICK m \in R : \A j \in R : m <= j
  BY <1>1, MinIsLeast
<1>3. PICK x \in T : m = n - x
  BY <1>2
<1>4. \A k \in T : x >= k
  BY <1>2, <1>3
<1> QED
  BY <1>3, <1>4 DEF Max

Added(u) == {u[i].server : i \in {j \in DOMAIN u : u[j].op = "Add"}}

(* The parts of an update.                                                 *)
LEMMA UpdateFacts ==
    ASSUME NEW x \in Update
    PROVE  /\ x.server \in Server /\ x.op \in {"Add", "Active", "Down"}
           /\ \A s : x = Addition(s) <=> x.op = "Add" /\ x.server = s
           /\ x = [op |-> x.op, server |-> x.server]
BY DEF Update, Addition, ServerState

(* A server is added if one update adds it.                                *)
LEMMA AddedFacts ==
    ASSUME NEW u \in Seq(Update), NEW s
    PROVE  s \in Added(u) <=> \E i \in DOMAIN u : u[i] = Addition(s)
BY UpdateFacts DEF Added

(* The values of Replay.                                                   *)
LEMMA ReplayValue ==
    ASSUME NEW u \in Seq(Update), NEW s \in Added(u)
    PROVE  /\ Marks(u, s) = {} => Replay(u)[s] = "Active"
           /\ \A m \in Marks(u, s) :
                (\A k \in Marks(u, s) : m >= k) => Replay(u)[s] = u[m].op
           /\ Marks(u, s) # {} =>
                \E m \in Marks(u, s) : \A k \in Marks(u, s) : m >= k
<1>1. Marks(u, s) \in SUBSET (1 .. Len(u)) /\ Len(u) \in Nat
  BY DEF Marks
<1>2. Replay(u)[s] = IF Marks(u, s) = {} THEN "Active" ELSE u[Max(Marks(u, s))].op
  BY DEF Replay, Added
<1>3. Marks(u, s) # {} => /\ Max(Marks(u, s)) \in Marks(u, s)
                          /\ \A k \in Marks(u, s) : Max(Marks(u, s)) >= k
  BY <1>1, MaxIsGreatest
<1>4. ASSUME NEW m \in Marks(u, s), \A k \in Marks(u, s) : m >= k
      PROVE  Max(Marks(u, s)) = m
  <2>1. Max(Marks(u, s)) >= m /\ m >= Max(Marks(u, s))
    BY <1>3, <1>4
  <2>2. m \in Int /\ Max(Marks(u, s)) \in Int
    BY <1>1, <1>3, <1>4
  <2> QED
    BY ONLY <2>1, <2>2
<1>5. \A m \in Marks(u, s) : (\A k \in Marks(u, s) : m >= k) => Replay(u)[s] = u[m].op
  BY <1>2, <1>4
<1> QED
  BY <1>2, <1>3, <1>5

(* One more update: an addition makes a server known, a mark of a known    *)
(* server sets its state, and nothing else changes.                        *)
LEMMA ReplayAppend ==
    ASSUME NEW u \in Seq(Update), NEW x \in Update
    PROVE  LET v == Append(u, x)
           IN  /\ v \in Seq(Update)
               /\ Added(v) = Added(u) \cup (IF x.op = "Add" THEN {x.server} ELSE {})
               /\ \A s \in Added(v) :
                    Replay(v)[s] = IF s \notin Added(u) THEN "Active"
                                   ELSE IF x.op # "Add" /\ s = x.server THEN x.op
                                   ELSE Replay(u)[s]
<1> DEFINE n == Len(u) + 1
<1>1. PICK v \in Seq(Update) : v = Append(u, x)
  BY AppendProperties
<1>2. /\ n \in Nat \ {0} /\ DOMAIN u = 1 .. n - 1 /\ DOMAIN v = 1 .. n
      /\ v[n] = x /\ \A i \in 1 .. n - 1 : v[i] = u[i]
  BY <1>1
<1> HIDE DEF n
<1>3. Added(v) = Added(u) \cup (IF x.op = "Add" THEN {x.server} ELSE {})
  <2>1. \A s : s \in Added(v) <=> s \in Added(u) \/ (x.op = "Add" /\ s = x.server)
    <3>1. SUFFICES ASSUME NEW s
                   PROVE  (\E i \in 1 .. n : v[i] = Addition(s)) <=>
                            \/ \E i \in 1 .. n - 1 : u[i] = Addition(s)
                            \/ x.op = "Add" /\ s = x.server
      BY <1>2, AddedFacts
    <3>2. x = Addition(s) <=> x.op = "Add" /\ s = x.server
      BY UpdateFacts
    <3>3. \A i \in 1 .. n : i \in 1 .. n - 1 \/ i = n
      BY <1>2
    <3>4. n \in 1 .. n /\ \A i \in 1 .. n - 1 : i \in 1 .. n
      BY <1>2
    <3> QED
      BY <1>2, <3>2, <3>3, <3>4
  <2> QED
    BY <2>1
<1>4. ASSUME NEW s
      PROVE  Marks(v, s) = Marks(u, s) \cup
               (IF x.op # "Add" /\ s = x.server /\ s \in Added(u) THEN {n} ELSE {})
  <2>1. ASSUME NEW i \in 1 .. n - 1 PROVE i \in Marks(v, s) <=> i \in Marks(u, s)
    <3>1. i \in 1 .. n /\ v[i] = u[i]
      BY <1>2
    <3>2. \A j \in 1 .. i - 1 : j \in 1 .. n - 1 /\ v[j] = u[j]
      BY <1>2
    <3> QED
      BY <1>2, <3>1, <3>2 DEF Marks
  <2>2. n \in Marks(v, s) <=> x.op # "Add" /\ s = x.server /\ s \in Added(u)
    <3>1. (\E j \in 1 .. n - 1 : v[j] = Addition(s)) <=> s \in Added(u)
      BY <1>2, AddedFacts
    <3> QED
      BY <1>2, <3>1 DEF Marks
  <2>3. /\ \A i \in Marks(v, s) : i \in 1 .. n - 1 \/ i = n
        /\ \A i \in Marks(u, s) : i \in 1 .. n - 1
        /\ n \notin 1 .. n - 1
    BY <1>2 DEF Marks
  <2> QED
    BY <2>1, <2>2, <2>3
<1>5. ASSUME NEW s \in Added(v)
      PROVE  Replay(v)[s] = IF s \notin Added(u) THEN "Active"
                            ELSE IF x.op # "Add" /\ s = x.server THEN x.op
                            ELSE Replay(u)[s]
  <2>1. CASE s \notin Added(u)
    <3>1. Marks(u, s) = {}
      <4>1. \A i \in DOMAIN u : \A j \in 1 .. i - 1 : j \in DOMAIN u
        BY <1>2
      <4> QED
        BY <2>1, <4>1, AddedFacts DEF Marks
    <3>2. Marks(v, s) = {}
      BY <1>4, <2>1, <3>1
    <3> QED
      BY <2>1, <3>2, ReplayValue
  <2>2. CASE s \in Added(u) /\ x.op # "Add" /\ s = x.server
    <3>1. n \in Marks(v, s)
      BY <1>4, <2>2
    <3>2. \A k \in Marks(v, s) : n >= k
      BY <1>2 DEF Marks
    <3>3. Replay(v)[s] = v[n].op
      BY <3>1, <3>2, ReplayValue
    <3> QED
      BY <1>2, <2>2, <3>3
  <2>3. CASE s \in Added(u) /\ ~(x.op # "Add" /\ s = x.server)
    <3>1. Marks(v, s) = Marks(u, s)
      BY <1>4, <2>3
    <3>2. CASE Marks(u, s) = {}
      BY <2>3, <3>1, <3>2, ReplayValue
    <3>3. CASE Marks(u, s) # {}
      <4>1. PICK m \in Marks(u, s) : \A k \in Marks(u, s) : m >= k
        BY <2>3, <3>3, ReplayValue
      <4>2. Replay(u)[s] = u[m].op
        BY <2>3, <4>1, ReplayValue
      <4>3. Replay(v)[s] = v[m].op
        BY <3>1, <4>1, ReplayValue
      <4>4. v[m] = u[m]
        BY <1>2, <4>1 DEF Marks
      <4> QED
        BY <2>3, <4>2, <4>3, <4>4
    <3> QED
      BY <3>2, <3>3
  <2> QED
    BY <2>1, <2>2, <2>3
<1> QED
  BY <1>1, <1>3, <1>5

-----------------------------------------------------------------------------
(* A pool and its log *)

Sound(p) == p \in PoolType(Server) /\ Handles(p) \subseteq DOMAIN p.cell

(* The servers of p are those u adds, in the states u leaves them in and   *)
(* in the order u first adds them.                                         *)
Says(p, u) ==
    /\ Servers(p) = Added(u)
    /\ \A b \in Handles(p) : Replay(u)[ServerOf(p, b)] = p.cell[b].state

LogOf(p, u) == Says(p, u) /\ AddedEarlier(p, u)

(* In a pool without duplicates find returns the one backend of a server.  *)
LEMMA FindOnly ==
    ASSUME NEW p, Sound(p), ~HasDuplicate(p), NEW b \in Handles(p)
    PROVE  PoolFind(p, ServerOf(p, b)) = b
<1>1. PICK i \in DOMAIN p.backends : b = p.backends[i]
  BY DEF Handles
<1>2. i \in Positions(p, ServerOf(p, b))
  BY <1>1 DEF Positions
<1>3. Positions(p, ServerOf(p, b)) \in SUBSET Nat
  BY DEF Positions, Sound, PoolType
<1>4. Min(Positions(p, ServerOf(p, b))) \in Positions(p, ServerOf(p, b))
  BY <1>2, <1>3, MinIsLeast
<1>5. PICK j \in DOMAIN p.backends : /\ PoolFind(p, ServerOf(p, b)) = p.backends[j]
                                     /\ ServerOf(p, p.backends[j]) = ServerOf(p, b)
  BY <1>4 DEF Positions, PoolFind
<1>6. i = j
  BY <1>1, <1>5 DEF HasDuplicate
<1> QED
  BY <1>1, <1>5, <1>6

(* Without duplicates, Says is what ManagerIsLog and WorkerIsLog state.    *)
LEMMA SaysIsView ==
    ASSUME NEW p, Sound(p), ~HasDuplicate(p), NEW u
    PROVE  View(p) = Replay(u) <=> Says(p, u)
<1>1. DOMAIN View(p) = Servers(p) /\ DOMAIN Replay(u) = Added(u)
  BY DEF View, Replay, Added
<1>2. \A b \in Handles(p) : View(p)[ServerOf(p, b)] = p.cell[b].state
  BY FindOnly DEF View, Servers
<1>3. ASSUME View(p) = Replay(u) PROVE Says(p, u)
  BY <1>1, <1>2, <1>3 DEF Says
<1>4. ASSUME Says(p, u) PROVE View(p) = Replay(u)
  <2>1. \A s \in Servers(p) : View(p)[s] = Replay(u)[s]
    BY <1>2, <1>4 DEF Says, Servers
  <2>2. /\ View(p) = [s \in Servers(p) |-> View(p)[s]]
        /\ Replay(u) = [s \in Added(u) |-> Replay(u)[s]]
    BY <1>1 DEF View, Replay
  <2> QED
    BY <1>4, <2>1, <2>2 DEF Says
<1> QED
  BY <1>3, <1>4

(* A later update does not change which server was added first.            *)
LEMMA EarlierAppend ==
    ASSUME NEW p, NEW u \in Seq(Update), NEW x \in Update, AddedEarlier(p, u)
    PROVE  AddedEarlier(p, Append(u, x))
<1>1. PICK v \in Seq(Update) : v = Append(u, x)
  BY AppendProperties
<1>2. PICK n \in Nat : /\ DOMAIN u = 1 .. n /\ DOMAIN v = 1 .. n + 1
                       /\ \A i \in 1 .. n : v[i] = u[i]
  BY <1>1
<1>3. SUFFICES ASSUME NEW i \in DOMAIN p.backends, NEW j \in DOMAIN p.backends, i < j
               PROVE  \E m \in DOMAIN v :
                        /\ v[m] = Addition(ServerOf(p, p.backends[i]))
                        /\ \A l \in DOMAIN v :
                             v[l] = Addition(ServerOf(p, p.backends[j])) => m < l
  BY <1>1 DEF AddedEarlier
<1>4. PICK m \in DOMAIN u :
        /\ u[m] = Addition(ServerOf(p, p.backends[i]))
        /\ \A l \in DOMAIN u : u[l] = Addition(ServerOf(p, p.backends[j])) => m < l
  BY <1>3 DEF AddedEarlier
<1>5. m \in DOMAIN v /\ v[m] = u[m]
  BY <1>2
<1>6. ASSUME NEW l \in DOMAIN v, v[l] = Addition(ServerOf(p, p.backends[j])) PROVE m < l
  <2>1. CASE l \in 1 .. n
    BY <1>2, <1>4, <1>6, <2>1
  <2>2. CASE l = n + 1
    BY <1>2, <2>2
  <2> QED
    BY <1>2, <2>1, <2>2
<1> QED
  BY <1>4, <1>5, <1>6

(* What an update does to a pool and to what the log says of it.           *)
Logged(p, u, q, x) ==
    /\ Sound(q)
    /\ ~HasDuplicate(q) => ~HasDuplicate(p) /\ LogOf(q, Append(u, x))
    /\ HasDuplicate(q) /\ ~HasDuplicate(p) => x.op = "Add" /\ x.server \in Added(u)

(* Pool::add and the message that announces it.                            *)
LEMMA LogAdd ==
    ASSUME NEW p, Sound(p), NEW u \in Seq(Update), NEW s \in Server,
           ~HasDuplicate(p) => LogOf(p, u)
    PROVE  Logged(p, u, PoolAdd(p, s), Addition(s))
<1>1. PICK x \in Update : x = Addition(s) /\ x.op = "Add" /\ x.server = s
  <2>1. Addition(s) \in Update
    BY DEF Update, Addition
  <2> QED
    BY <2>1 DEF Addition
<1>2. PICK v \in Seq(Update) : v = Append(u, x)
  BY AppendProperties
<1>3. /\ Added(v) = Added(u) \cup {s}
      /\ \A t \in Added(v) : Replay(v)[t] = IF t \notin Added(u) THEN "Active" ELSE Replay(u)[t]
  BY <1>1, <1>2, ReplayAppend
<1>4. CASE PoolContains(p, s)
  <2>1. PoolAdd(p, s) = p
    BY <1>4 DEF PoolAdd
  <2>2. s \in Servers(p)
    BY <1>4 DEF PoolContains, NewBackend, Servers, ServerOf
  <2>3. ASSUME ~HasDuplicate(p) PROVE LogOf(p, v)
    <3>1. Says(p, u) /\ AddedEarlier(p, v)
      BY <1>2, <2>3, EarlierAppend DEF LogOf
    <3>2. Added(v) = Added(u) /\ \A t \in Added(u) : Replay(v)[t] = Replay(u)[t]
      BY <1>3, <2>2, <3>1 DEF Says
    <3> QED
      BY <3>1, <3>2 DEF LogOf, Says, Servers
  <2> QED
    BY <1>1, <1>2, <2>1, <2>3 DEF Logged
<1>5. CASE ~PoolContains(p, s)
  <2>1. PICK q : q = PushBackend(p, s) /\ q = PoolAdd(p, s)
    BY <1>5 DEF PoolAdd
  <2>2. PICK n \in Nat : n = Len(p.backends) /\ DOMAIN p.backends = 1 .. n
    BY DEF Sound, PoolType
  <2>3. /\ Sound(q) /\ DOMAIN q.backends = 1 .. n + 1
        /\ \A b \in DOMAIN p.cell : q.cell[b] = p.cell[b]
        /\ \A i \in 1 .. n : q.backends[i] = p.backends[i] /\ q.backends[i] \in DOMAIN p.cell
        /\ ServerOf(q, q.backends[n + 1]) = s
    <3>1. /\ Sound(q) /\ Len(q.backends) = n + 1
          /\ \A b \in DOMAIN p.cell : q.cell[b] = p.cell[b]
          /\ \A i \in 1 .. n : q.backends[i] = p.backends[i]
          /\ ServerOf(q, q.backends[n + 1]) = s
      <4>1. p \in PoolType(Server) /\ Handles(p) \subseteq DOMAIN p.cell
        BY DEF Sound
      <4>2. /\ q \in PoolType(Server) /\ Handles(q) \subseteq DOMAIN q.cell
            /\ \A b \in DOMAIN p.cell : q.cell[b] = p.cell[b]
            /\ Len(q.backends) = n + 1
            /\ \A i \in 1 .. n : q.backends[i] = p.backends[i]
            /\ ServerOf(q, q.backends[n + 1]) = s
        <5>1. LET r == PushBackend(p, s)
              IN  /\ r \in PoolType(Server) /\ Handles(r) \subseteq DOMAIN r.cell
                  /\ \A b \in DOMAIN p.cell : r.cell[b] = p.cell[b]
                  /\ Len(r.backends) = Len(p.backends) + 1
                  /\ \A i \in 1 .. Len(p.backends) : r.backends[i] = p.backends[i]
                  /\ ServerOf(r, r.backends[Len(p.backends) + 1]) = s
          BY <4>1, PushFacts
        <5> QED
          BY <2>1, <2>2, <5>1
      <4> QED
        BY <4>2 DEF Sound
    <3>2. DOMAIN q.backends = 1 .. n + 1
      BY <2>2, <3>1 DEF Sound, PoolType
    <3>3. \A i \in 1 .. n : q.backends[i] \in DOMAIN p.cell
      BY <2>2, <3>1 DEF Sound, Handles
    <3> QED
      BY <3>1, <3>2, <3>3
  <2>4. q.cell[q.backends[n + 1]].state = "Active"
    <3>1. /\ q.cell = Append(p.cell, NewBackend(s))
          /\ q.backends = Append(p.backends, Len(p.cell) + 1)
      BY <2>1 DEF PushBackend
    <3>2. q.backends[n + 1] = Len(p.cell) + 1
      BY <2>2, <3>1 DEF Sound, PoolType
    <3>3. q.cell[Len(p.cell) + 1] = NewBackend(s)
      BY <3>1 DEF Sound, PoolType
    <3> QED
      BY <3>2, <3>3 DEF NewBackend
  <2>5. \A i \in 1 .. n : /\ ServerOf(q, q.backends[i]) = ServerOf(p, p.backends[i])
                          /\ q.cell[q.backends[i]] = p.cell[p.backends[i]]
    BY <2>3 DEF ServerOf
  <2>6. /\ \A i \in 1 .. n : i \in 1 .. n + 1 /\ i # n + 1
        /\ \A i \in 1 .. n + 1 : i \in 1 .. n \/ i = n + 1
        /\ n + 1 \in 1 .. n + 1
    OBVIOUS
  <2>7. HasDuplicate(p) => HasDuplicate(q)
    BY <2>2, <2>3, <2>5, <2>6 DEF HasDuplicate
  <2>8. s \in Servers(p) => HasDuplicate(q)
    <3>1. SUFFICES ASSUME s \in Servers(p) PROVE HasDuplicate(q)
      OBVIOUS
    <3>2. PICK i \in 1 .. n : ServerOf(p, p.backends[i]) = s
      BY <2>2, <3>1 DEF Servers, Handles
    <3> QED
      BY <2>3, <2>5, <2>6, <3>2 DEF HasDuplicate
  <2>9. s \notin Servers(p) /\ ~HasDuplicate(p) => ~HasDuplicate(q)
    <3>1. SUFFICES ASSUME s \notin Servers(p), ~HasDuplicate(p),
                          NEW i \in 1 .. n + 1, NEW j \in 1 .. n + 1, i # j,
                          ServerOf(q, q.backends[i]) = ServerOf(q, q.backends[j])
                   PROVE  FALSE
      BY <2>3 DEF HasDuplicate
    <3>2. \A k \in 1 .. n : ServerOf(q, q.backends[k]) # s
      BY <2>2, <2>5, <3>1 DEF Servers, Handles
    <3>3. i \in 1 .. n /\ j \in 1 .. n
      BY <2>3, <2>6, <3>1, <3>2
    <3> QED
      BY <2>2, <2>5, <3>1, <3>3 DEF HasDuplicate
  <2>10. ASSUME ~HasDuplicate(q) PROVE LogOf(q, v)
    <3>1. s \notin Servers(p) /\ Says(p, u) /\ AddedEarlier(p, u) /\ s \notin Added(u)
      BY <2>7, <2>8, <2>10 DEF LogOf, Says
    <3>2. Says(q, v)
      <4>1. Servers(q) = Servers(p) \cup {s}
        <5>1. \A t : t \in Servers(q) <=> \E i \in 1 .. n + 1 : t = ServerOf(q, q.backends[i])
          BY <2>3 DEF Servers, Handles
        <5>2. \A t : t \in Servers(p) <=> \E i \in 1 .. n : t = ServerOf(p, p.backends[i])
          BY <2>2 DEF Servers, Handles
        <5>3. \A t : t \in Servers(q) <=> t \in Servers(p) \/ t = s
          BY <2>3, <2>5, <2>6, <5>1, <5>2
        <5> QED
          BY <5>3
      <4>2. Servers(q) = Added(v)
        BY <1>3, <3>1, <4>1 DEF Says
      <4>3. ASSUME NEW i \in 1 .. n + 1
            PROVE  Replay(v)[ServerOf(q, q.backends[i])] = q.cell[q.backends[i]].state
        <5>1. CASE i = n + 1
          BY <1>3, <2>3, <2>4, <3>1, <5>1
        <5>2. CASE i \in 1 .. n
          <6>1. p.backends[i] \in Handles(p)
            BY <2>2, <5>2 DEF Handles
          <6>2. ServerOf(p, p.backends[i]) \in Added(u)
            BY <3>1, <6>1 DEF Says, Servers
          <6>3. Replay(u)[ServerOf(p, p.backends[i])] = p.cell[p.backends[i]].state
            BY <3>1, <6>1 DEF Says
          <6> QED
            BY <1>3, <2>5, <5>2, <6>2, <6>3
        <5> QED
          BY <2>6, <5>1, <5>2
      <4> QED
        BY <2>3, <4>2, <4>3 DEF Says, Handles
    <3>3. AddedEarlier(q, v)
      <4>1. PICK k \in Nat : /\ DOMAIN u = 1 .. k /\ DOMAIN v = 1 .. k + 1
                             /\ v[k + 1] = Addition(s) /\ \A i \in 1 .. k : v[i] = u[i]
        BY <1>1, <1>2
      <4>2. SUFFICES ASSUME NEW i \in 1 .. n + 1, NEW j \in 1 .. n + 1, i < j
                     PROVE  \E m \in DOMAIN v :
                              /\ v[m] = Addition(ServerOf(q, q.backends[i]))
                              /\ \A l \in DOMAIN v :
                                   v[l] = Addition(ServerOf(q, q.backends[j])) => m < l
        BY <2>3 DEF AddedEarlier
      <4>3. i \in 1 .. n
        BY <4>2
      <4>4. CASE j \in 1 .. n
        <5>1. AddedEarlier(p, v)
          BY <1>2, <3>1, EarlierAppend
        <5>2. PICK m \in DOMAIN v :
                /\ v[m] = Addition(ServerOf(p, p.backends[i]))
                /\ \A l \in DOMAIN v : v[l] = Addition(ServerOf(p, p.backends[j])) => m < l
          BY <2>2, <4>2, <4>3, <4>4, <5>1 DEF AddedEarlier
        <5>3. /\ ServerOf(p, p.backends[i]) = ServerOf(q, q.backends[i])
              /\ ServerOf(p, p.backends[j]) = ServerOf(q, q.backends[j])
          BY <2>5, <4>3, <4>4
        <5> QED
          BY <5>2, <5>3
      <4>5. CASE j = n + 1
        <5>1. p.backends[i] \in Handles(p)
          BY <2>2, <4>3 DEF Handles
        <5>2. ServerOf(p, p.backends[i]) \in Added(u)
          BY <3>1, <5>1 DEF Says, Servers
        <5>3. PICK m \in DOMAIN u : u[m] = Addition(ServerOf(p, p.backends[i]))
          BY <5>2, AddedFacts
        <5>4. m \in DOMAIN v /\ v[m] = Addition(ServerOf(q, q.backends[i]))
          BY <2>5, <4>1, <4>3, <5>3
        <5>5. ASSUME NEW l \in DOMAIN v, v[l] = Addition(s) PROVE m < l
          <6>1. l \notin 1 .. k
            BY <3>1, <4>1, <5>5, AddedFacts
          <6> QED
            BY <4>1, <6>1
        <5> QED
          BY <2>3, <4>5, <5>4, <5>5
      <4> QED
        BY <2>6, <4>4, <4>5
    <3> QED
      BY <3>2, <3>3 DEF LogOf
  <2>11. ASSUME HasDuplicate(q), ~HasDuplicate(p) PROVE s \in Added(u)
    BY <2>9, <2>11 DEF LogOf, Says
  <2> QED
    BY <1>1, <1>2, <2>1, <2>3, <2>7, <2>10, <2>11 DEF Logged
<1> QED
  BY <1>4, <1>5

(* What does not touch servers and states leaves what the log says alone.  *)
LEMMA LogSame ==
    ASSUME NEW p, Sound(p), NEW q, q.backends = p.backends, NEW u,
           \A d \in DOMAIN p.cell : /\ ServerOf(q, d) = ServerOf(p, d)
                                    /\ q.cell[d].state = p.cell[d].state
    PROVE  LogOf(p, u) => LogOf(q, u)
<1>1. \A b \in Handles(p) : b \in DOMAIN p.cell
  BY DEF Sound
<1>2. Handles(q) = Handles(p)
  BY DEF Handles
<1>3. Servers(q) = Servers(p)
  BY <1>1, <1>2 DEF Servers
<1>4. \A i \in DOMAIN p.backends : ServerOf(q, q.backends[i]) = ServerOf(p, p.backends[i])
  BY <1>1 DEF Handles
<1>5. Says(p, u) => Says(q, u)
  BY <1>1, <1>2, <1>3 DEF Says
<1>6. AddedEarlier(p, u) => AddedEarlier(q, u)
  BY <1>4 DEF AddedEarlier
<1> QED
  BY <1>5, <1>6 DEF LogOf

(* A mark of a backend of the pool and the message that announces it.      *)
LEMMA LogMark ==
    ASSUME NEW p, Sound(p), NEW u \in Seq(Update), NEW b \in Handles(p),
           NEW st \in ServerState, ~HasDuplicate(p) => LogOf(p, u)
    PROVE  Logged(p, u, MarkBackend(p, b, st), [op |-> st, server |-> ServerOf(p, b)])
<1> DEFINE s == ServerOf(p, b)
<1>1. b \in DOMAIN p.cell /\ s \in Server
  <2>1. b \in DOMAIN p.cell /\ p.cell \in Seq(InnerBackend(Server))
    BY DEF Sound, PoolType
  <2>2. p.cell[b] \in InnerBackend(Server)
    BY <2>1
  <2> QED
    BY <2>1, <2>2 DEF InnerBackend, ServerOf
<1>2. PICK x \in Update : x = [op |-> st, server |-> s] /\ x.op = st /\ x.server = s
                          /\ x.op # "Add"
  <2>1. [op |-> st, server |-> s] \in Update
    BY <1>1 DEF Update
  <2> QED
    BY <2>1 DEF ServerState
<1>3. PICK v \in Seq(Update) : v = Append(u, x)
  BY AppendProperties
<1>4. /\ Added(v) = Added(u)
      /\ \A t \in Added(u) : Replay(v)[t] = IF t = s THEN st ELSE Replay(u)[t]
  <2>1. /\ Added(v) = Added(u) \cup (IF x.op = "Add" THEN {x.server} ELSE {})
        /\ \A t \in Added(v) :
              Replay(v)[t] = IF t \notin Added(u) THEN "Active"
                             ELSE IF x.op # "Add" /\ t = x.server THEN x.op
                             ELSE Replay(u)[t]
    BY <1>3, ReplayAppend
  <2>2. Added(v) = Added(u)
    BY <1>2, <2>1
  <2> QED
    BY <1>2, <2>1, <2>2
<1>5. PICK q : q = MarkBackend(p, b, st)
  OBVIOUS
<1>6. /\ q \in PoolType(Server) /\ DOMAIN q.cell = DOMAIN p.cell /\ q.backends = p.backends
      /\ \A d \in DOMAIN p.cell :
            /\ ServerOf(q, d) = ServerOf(p, d)
            /\ q.cell[d].state = IF d = b THEN st ELSE p.cell[d].state
  BY <1>1, <1>5, MarkFacts DEF Sound
<1>7. Handles(q) = Handles(p) /\ Sound(q)
  BY <1>6 DEF Handles, Sound
<1>8. HasDuplicate(q) <=> HasDuplicate(p)
  BY <1>6, SameDuplicates DEF Sound
<1>9. ASSUME ~HasDuplicate(p) PROVE LogOf(q, v)
  <2>1. Says(p, u) /\ AddedEarlier(p, v)
    BY <1>3, <1>9, EarlierAppend DEF LogOf
  <2>2. \A d \in Handles(p) : d \in DOMAIN p.cell
    BY DEF Sound
  <2>3. \A d \in Handles(p) : ServerOf(p, d) = s => d = b
    BY <1>9, FindOnly
  <2>4. Servers(q) = Servers(p)
    BY <1>6, <1>7, <2>2 DEF Servers
  <2>5. ASSUME NEW d \in Handles(p) PROVE Replay(v)[ServerOf(q, d)] = q.cell[d].state
    <3>1. ServerOf(q, d) = ServerOf(p, d) /\ ServerOf(p, d) \in Added(u)
      BY <1>6, <2>1, <2>2 DEF Says, Servers
    <3>2. Replay(u)[ServerOf(p, d)] = p.cell[d].state
      BY <2>1 DEF Says
    <3> QED
      BY <1>4, <1>6, <2>2, <2>3, <3>1, <3>2
  <2>6. Says(q, v)
    BY <1>4, <1>7, <2>1, <2>4, <2>5 DEF Says
  <2>7. \A i \in DOMAIN p.backends : ServerOf(q, q.backends[i]) = ServerOf(p, p.backends[i])
    BY <1>6, <2>2 DEF Handles
  <2>8. AddedEarlier(q, v)
    BY <1>6, <2>1, <2>7 DEF AddedEarlier
  <2> QED
    BY <2>6, <2>8 DEF LogOf
<1> QED
  BY <1>2, <1>3, <1>5, <1>7, <1>8, <1>9 DEF Logged

(* A mark of a server the pool does not have is ignored by both.           *)
LEMMA LogIgnored ==
    ASSUME NEW p, Sound(p), NEW u \in Seq(Update), NEW x \in Update, x.op # "Add",
           x.server \notin Servers(p), ~HasDuplicate(p) => LogOf(p, u)
    PROVE  Logged(p, u, p, x)
<1>1. ASSUME ~HasDuplicate(p) PROVE LogOf(p, Append(u, x))
  <2>1. Says(p, u) /\ AddedEarlier(p, Append(u, x))
    BY <1>1, EarlierAppend DEF LogOf
  <2>2. x.server \notin Added(u)
    BY <2>1 DEF Says
  <2>3. /\ Added(Append(u, x)) = Added(u)
        /\ \A t \in Added(u) : Replay(Append(u, x))[t] = Replay(u)[t]
    BY <2>2, ReplayAppend
  <2> QED
    BY <2>1, <2>3 DEF LogOf, Says, Servers
<1> QED
  BY <1>1 DEF Logged

(* A SubscriberImpl handler does to the worker's pool what its message     *)
(* adds to the log.                                                        *)
LEMMA LogApply ==
    ASSUME NEW p, Sound(p), NEW u \in Seq(Update), NEW x \in Update,
           ~HasDuplicate(p) => LogOf(p, u)
    PROVE  Logged(p, u, ApplyUpdate(p, x), x)
<1>1. CASE x.op = "Add"
  <2>1. x = Addition(x.server) /\ x.server \in Server
    BY <1>1, UpdateFacts
  <2>2. Logged(p, u, PoolAdd(p, x.server), Addition(x.server))
    BY <2>1, LogAdd
  <2> QED
    BY <1>1, <2>1, <2>2 DEF ApplyUpdate
<1>2. CASE x.op # "Add" /\ Positions(p, x.server) = {}
  <2>1. x.server \notin Servers(p)
    BY <1>2 DEF Positions, Servers, Handles
  <2> QED
    BY <1>2, <2>1, LogIgnored DEF ApplyUpdate
<1>3. CASE x.op # "Add" /\ Positions(p, x.server) # {}
  <2>1. x.op \in ServerState /\ x.server \in Server /\ x = [op |-> x.op, server |-> x.server]
    BY <1>3, UpdateFacts DEF ServerState
  <2>2. PICK b \in Handles(p) : b = PoolFind(p, x.server) /\ ServerOf(p, b) = x.server
    BY <1>3, <2>1, FindFacts DEF Sound
  <2>3. Logged(p, u, MarkBackend(p, b, x.op), [op |-> x.op, server |-> ServerOf(p, b)])
    BY <2>1, <2>2, LogMark
  <2> QED
    BY <1>3, <2>1, <2>2, <2>3 DEF ApplyUpdate
<1> QED
  BY <1>1, <1>2, <1>3

-----------------------------------------------------------------------------
(* What a step does to the pools *)

(* The manager's pool, from what BackendHealthProofs shows.                *)
LEMMA ManagerFacts ==
    ASSUME MH!HealthInv
    PROVE  Sound(pool) /\ Handles(pool) = DOMAIN pool.cell /\ todo \in Seq(Handles(pool))
BY DEF MH!HealthInv, MH!TypeOK, MH!PoolType, PoolType, MH!InnerBackend, InnerBackend,
   MH!ServerState, ServerState, MH!Handles, Handles, Sound

(* A worker's feed, from what PubSubProofs shows.                          *)
LEMMA FeedFacts ==
    ASSUME PP!PubSubInv, NEW w \in Worker
    PROVE  /\ published \in Nat
           /\ applied \in [Worker -> Seq(Nat)] /\ toWorker \in [Worker -> Seq(Nat)]
           /\ \A k \in DOMAIN applied[w] : applied[w][k] <= published
           /\ \A k \in DOMAIN toWorker[w] : toWorker[w][k] <= published
           /\ \A j \in DOMAIN applied[w], k \in DOMAIN toWorker[w] :
                toWorker[w][k] # 0 => applied[w][j] < toWorker[w][k]
           /\ conn[w] = "open" /\ ticket[w] # P!NoId =>
                P!Taken(w) \cup P!Coming(w) = (since[w] + 1 .. published) \ skipped[w]
<1>1. PP!TypeOK /\ PP!WorkerInv(w)
  BY DEF PP!PubSubInv
<1>2. conn[w] = "open" /\ ticket[w] # P!NoId =>
        P!Taken(w) \cup P!Coming(w) = (since[w] + 1 .. published) \ skipped[w]
  BY <1>1 DEF PP!WorkerInv, PP!Attached, PP!Fed, PP!Taken, P!Taken, PP!Coming, P!Coming,
              P!NoId, PP!NoId
<1>3. PP!FeedOrdered(w)
  BY <1>1 DEF PP!WorkerInv
<1> QED
  BY <1>1, <1>2, <1>3 DEF PP!TypeOK, PP!FeedOrdered

(* An announcement is one more update, and no worker has it yet.           *)
LEMMA AnnounceFacts ==
    ASSUME NEW op, NEW s, Announce(op, s)
    PROVE  /\ updates' = Append(updates, [op |-> op, server |-> s])
           /\ published' = published + 1
           /\ applied' = applied /\ worker' = worker
BY DEF Announce, P!Publish

(* The pool's operations have the same meaning in BackendHealth.           *)
LEMMA SameOperations ==
    ASSUME NEW p, NEW s, NEW b, NEW st
    PROVE  /\ M!PoolAdd(p, s) = PoolAdd(p, s)
           /\ M!MarkBackend(p, b, st) = MarkBackend(p, b, st)
<1>1. M!PoolAdd(p, s) = PoolAdd(p, s)
  BY DEF M!PoolAdd, PoolAdd, M!PoolContains, PoolContains, M!Handles, Handles,
         M!NewBackend, NewBackend, M!PushBackend, PushBackend
<1>2. M!MarkBackend(p, b, st) = MarkBackend(p, b, st)
  BY DEF M!MarkBackend, MarkBackend, M!WithCell, WithCell
<1> QED
  BY <1>1, <1>2

(* The manager changes its pool and its log together.                      *)
LEMMA ManagerMoves ==
    ASSUME MH!HealthInv, [Next]_vars
    PROVE  \/ pool' = pool /\ updates' = updates /\ published' = published
           \/ /\ published' = published + 1 /\ applied' = applied /\ worker' = worker
              /\ wpool' = wpool
              /\ \/ \E s \in Server : /\ pool' = PoolAdd(pool, s)
                                      /\ updates' = Append(updates, Addition(s))
                 \/ \E b \in Handles(pool), st \in ServerState :
                      /\ pool' = MarkBackend(pool, b, st)
                      /\ updates' = Append(updates, [op |-> st, server |-> ServerOf(pool, b)])
<1> DEFINE Still == pool' = pool /\ updates' = updates /\ published' = published
           Moved == /\ published' = published + 1 /\ applied' = applied /\ worker' = worker
                    /\ wpool' = wpool
           Marked == \E b \in Handles(pool), st \in ServerState :
                      /\ pool' = MarkBackend(pool, b, st)
                      /\ updates' = Append(updates, [op |-> st, server |-> ServerOf(pool, b)])
<1>1. CASE UNCHANGED vars
  BY <1>1 DEF vars, manager, pubsub
<1>2. ASSUME NEW s \in Server, AddServer(s)
      PROVE  Moved /\ pool' = PoolAdd(pool, s) /\ updates' = Append(updates, Addition(s))
  <2>1. pool' = PoolAdd(pool, s) /\ Announce("Add", s) /\ wpool' = wpool
    BY <1>2, SameOperations DEF AddServer, M!AddServer
  <2> QED
    BY <2>1, AnnounceFacts DEF Addition
<1>3. CASE Tick
  BY <1>3 DEF Tick, M!Tick, pubsub
<1>4. ASSUME NEW b \in Handles(pool), NEW st \in ServerState, wpool' = wpool,
             AnnounceChange(st, b), pool' \in {pool, MarkBackend(pool, b, st)}
      PROVE  Still \/ (Moved /\ Marked)
  <2>1. CASE pool' = pool
    BY <1>4, <2>1 DEF AnnounceChange, pubsub
  <2>2. CASE pool' # pool
    <3>1. Announce(st, ServerOf(pool, b)) /\ pool' = MarkBackend(pool, b, st)
      BY <1>4, <2>2 DEF AnnounceChange
    <3>2. Moved /\ updates' = Append(updates, [op |-> st, server |-> ServerOf(pool, b)])
      BY <1>4, <3>1, AnnounceFacts
    <3> QED
      BY <3>1, <3>2
  <2> QED
    BY <2>1, <2>2
<1>5. CASE CheckBackend
  <2>1. todo # <<>> /\ Head(todo) \in Handles(pool)
    BY <1>5, ManagerFacts DEF CheckBackend, M!CheckBackend, M!Idle
  <2>2. pool' \in {pool, MarkBackend(pool, Head(todo), "Down")}
    BY <1>5, SameOperations DEF CheckBackend, M!CheckBackend
  <2> QED
    BY <1>4, <1>5, <2>1, <2>2 DEF CheckBackend, ServerState
<1>6. ASSUME NEW b \in M!Backend, CheckPasses(b) PROVE Still \/ (Moved /\ Marked)
  <2>1. b \in Handles(pool)
    BY <1>6, ManagerFacts DEF CheckPasses, M!CheckPasses, M!Answered
  <2>2. pool' \in {pool, MarkBackend(pool, b, "Active")}
    BY <1>6, SameOperations DEF CheckPasses, M!CheckPasses
  <2> QED
    BY <1>4, <1>6, <2>1, <2>2 DEF CheckPasses, ServerState
<1>7. ASSUME NEW b \in M!Backend, CheckFails(b) PROVE Still \/ (Moved /\ Marked)
  <2>1. b \in Handles(pool)
    BY <1>7, ManagerFacts DEF CheckFails, M!CheckFails, M!Answered
  <2>2. pool' \in {pool, MarkBackend(pool, b, "Down")}
    BY <1>7, SameOperations DEF CheckFails, M!CheckFails
  <2> QED
    BY <1>4, <1>7, <2>1, <2>2 DEF CheckFails, ServerState
<1>8. ASSUME NEW w \in Worker, Connection(w) PROVE Still
  BY <1>8 DEF Connection, manager, P!Subscribe, P!Return, P!ReadAnswer, P!Disconnect,
     P!PromiseError, P!DropSubscription, P!Release, P!Connect, P!ConnectError
<1>9. ASSUME NEW w \in Worker, Handle(w) \/ Serve(w) \/ Die(w) PROVE Still
  BY <1>9 DEF Handle, Serve, Die, manager, pubsub, P!Handle, P!Die
<1> QED
  BY <1>1, <1>2, <1>3, <1>5, <1>6, <1>7, <1>8, <1>9 DEF Next

(* A request a worker serves moves the cursor and counts; no server and no *)
(* state changes.                                                          *)
LEMMA ServeKeeps ==
    ASSUME NEW p, Sound(p), Eligible(p) # {}
    PROVE  LET i == (p.last_used + Min(Eligible(p))) % Len(p.backends)
               b == BackendAt(p, i)
               q == MoveCursor(p, i)
           IN  \A r \in {IncSuccess(q, b), q} :
                 /\ Sound(r) /\ r.backends = p.backends
                 /\ \A d \in DOMAIN p.cell : /\ ServerOf(r, d) = ServerOf(p, d)
                                             /\ r.cell[d].state = p.cell[d].state
<1> DEFINE i == (p.last_used + Min(Eligible(p))) % Len(p.backends)
           b == BackendAt(p, i)
           q == MoveCursor(p, i)
<1>1. /\ p.cell \in Seq(InnerBackend(Server)) /\ p.backends \in Seq(Nat \ {0})
      /\ p.last_used \in Nat /\ Len(p.backends) \in Nat
  BY DEF Sound, PoolType
<1>2. Min(Eligible(p)) \in Eligible(p)
  <2>1. Eligible(p) \in SUBSET Nat
    BY <1>1 DEF Eligible
  <2> QED
    BY <2>1, MinIsLeast
<1>3. Min(Eligible(p)) \in Nat /\ Len(p.backends) > 0
  BY <1>1, <1>2 DEF Eligible
<1>4. i \in 0 .. Len(p.backends) - 1
  <2>1. PICK k, l, n \in Nat :
          k = p.last_used /\ l = Min(Eligible(p)) /\ n = Len(p.backends) /\ n > 0
    BY <1>1, <1>3
  <2>2. (k + l) % n \in 0 .. n - 1
    BY ONLY <2>1
  <2> QED
    BY <2>1, <2>2
<1> HIDE DEF i
<1>5. i + 1 \in DOMAIN p.backends
  BY <1>1, <1>4
<1>6. b \in DOMAIN p.cell
  BY <1>5 DEF BackendAt, Handles, Sound
<1> HIDE DEF b
<1>7. q.cell = p.cell /\ q.backends = p.backends /\ q \in PoolType(Server) /\ Sound(q)
  <2>1. q.cell = p.cell /\ q.backends = p.backends /\ q.last_used = i
        /\ q = [cell |-> p.cell, backends |-> p.backends, last_used |-> i]
    BY DEF MoveCursor
  <2>2. q \in PoolType(Server)
    BY <1>1, <1>4, <2>1 DEF PoolType
  <2> QED
    BY <2>1, <2>2 DEF Sound, Handles
<1> HIDE DEF q
<1>8. PICK c : c = [q.cell[b] EXCEPT !.success = @ + 1]
  OBVIOUS
<1>9. /\ c \in InnerBackend(Server) /\ c.server = q.cell[b].server
      /\ c.state = q.cell[b].state
  <2>1. q.cell[b] \in InnerBackend(Server)
    BY <1>1, <1>6, <1>7
  <2> QED
    BY <1>8, <2>1 DEF InnerBackend
<1>10. PICK r : r = IncSuccess(q, b) /\ r = WithCell(q, b, c)
  BY <1>8 DEF IncSuccess
<1>11. /\ r \in PoolType(Server) /\ DOMAIN r.cell = DOMAIN q.cell /\ r.backends = q.backends
       /\ \A d \in DOMAIN q.cell : /\ ServerOf(r, d) = ServerOf(q, d)
                                   /\ r.cell[d] = IF d = b THEN c ELSE q.cell[d]
  BY <1>6, <1>7, <1>9, <1>10, WithCellFacts
<1>12. /\ Sound(r) /\ r.backends = p.backends
       /\ \A d \in DOMAIN p.cell : /\ ServerOf(r, d) = ServerOf(p, d)
                                   /\ r.cell[d].state = p.cell[d].state
  <2>1. Sound(r)
    BY <1>7, <1>11 DEF Sound, Handles
  <2> QED
    BY <1>7, <1>9, <1>11, <2>1 DEF ServerOf
<1>13. /\ Sound(q) /\ q.backends = p.backends
       /\ \A d \in DOMAIN p.cell : /\ ServerOf(q, d) = ServerOf(p, d)
                                   /\ q.cell[d].state = p.cell[d].state
  BY <1>7 DEF ServerOf
<1> QED
  BY <1>10, <1>12, <1>13 DEF i, b, q

PoolsSound ==
    /\ wpool \in [Worker -> PoolType(Server)]
    /\ \A w \in Worker : Sound(wpool[w])

(* A step leaves the pool of a worker alone, serves a request from it,     *)
(* handles the next message, or is the end of the worker.                  *)
LEMMA WorkerMoves ==
    ASSUME PP!PubSubInv, PoolsSound, [Next]_vars, NEW w \in Worker
    PROVE  \/ /\ wpool'[w] = wpool[w] /\ applied'[w] = applied[w]
              /\ worker'[w] # "dead" => worker[w] # "dead"
           \/ /\ applied'[w] = applied[w] /\ updates' = updates
              /\ worker'[w] # "dead" => worker[w] # "dead"
              /\ Sound(wpool'[w]) /\ wpool'[w].backends = wpool[w].backends
              /\ \A d \in DOMAIN wpool[w].cell :
                    /\ ServerOf(wpool'[w], d) = ServerOf(wpool[w], d)
                    /\ wpool'[w].cell[d].state = wpool[w].cell[d].state
           \/ \E n \in 1 .. published :
                /\ wpool'[w] = ApplyUpdate(wpool[w], updates[n])
                /\ applied'[w] = Append(applied[w], n) /\ updates' = updates
                /\ worker[w] # "dead"
                /\ \A j \in DOMAIN applied[w] : applied[w][j] < n
           \/ worker'[w] = "dead" /\ wpool'[w] = EmptyPool /\ applied'[w] = applied[w]
<1> DEFINE Goal ==
           \/ /\ wpool'[w] = wpool[w] /\ applied'[w] = applied[w]
              /\ worker'[w] # "dead" => worker[w] # "dead"
           \/ /\ applied'[w] = applied[w] /\ updates' = updates
              /\ worker'[w] # "dead" => worker[w] # "dead"
              /\ Sound(wpool'[w]) /\ wpool'[w].backends = wpool[w].backends
              /\ \A d \in DOMAIN wpool[w].cell :
                    /\ ServerOf(wpool'[w], d) = ServerOf(wpool[w], d)
                    /\ wpool'[w].cell[d].state = wpool[w].cell[d].state
           \/ \E n \in 1 .. published :
                /\ wpool'[w] = ApplyUpdate(wpool[w], updates[n])
                /\ applied'[w] = Append(applied[w], n) /\ updates' = updates
                /\ worker[w] # "dead"
                /\ \A j \in DOMAIN applied[w] : applied[w][j] < n
           \/ worker'[w] = "dead" /\ wpool'[w] = EmptyPool /\ applied'[w] = applied[w]
           Idle == /\ wpool'[w] = wpool[w] /\ applied'[w] = applied[w]
                   /\ worker'[w] # "dead" => worker[w] # "dead"
<1>1. CASE UNCHANGED vars
  BY <1>1 DEF vars, pubsub
<1>2. ASSUME NEW op, NEW s, Announce(op, s), wpool' = wpool PROVE Idle
  BY <1>2, AnnounceFacts
<1>3. ASSUME NEW op, NEW b, AnnounceChange(op, b), wpool' = wpool PROVE Idle
  BY <1>2, <1>3 DEF AnnounceChange, pubsub
<1>4. ASSUME NEW s \in Server, AddServer(s) PROVE Idle
  BY <1>2, <1>4 DEF AddServer
<1>5. CASE Tick
  BY <1>5 DEF Tick, pubsub
<1>6. CASE CheckBackend
  BY <1>3, <1>6 DEF CheckBackend
<1>7. ASSUME NEW b \in M!Backend, CheckPasses(b) \/ CheckFails(b) PROVE Idle
  BY <1>3, <1>7 DEF CheckPasses, CheckFails
<1>8. /\ worker \in [Worker -> PP!WorkerState]
      /\ applied \in [Worker -> Seq(Nat)] /\ toWorker \in [Worker -> Seq(Nat)]
      /\ wpool \in [Worker -> PoolType(Server)] /\ published \in Nat
  BY DEF PP!PubSubInv, PP!TypeOK, PoolsSound
<1>9. ASSUME NEW v \in Worker, Connection(v) PROVE Idle
  <2>1. wpool' = wpool /\ applied' = applied
    BY <1>9 DEF Connection, P!history, P!Subscribe, P!Return, P!ReadAnswer, P!Disconnect,
       P!PromiseError, P!DropSubscription, P!Release, P!Connect, P!ConnectError
  <2>2. worker' = worker \/ worker[v] = "starting"
    BY <1>9 DEF Connection, P!Subscribe, P!Return, P!ReadAnswer, P!Disconnect,
       P!PromiseError, P!DropSubscription, P!Release, P!Connect, P!ConnectError
  <2>3. worker'[w] = worker[w] \/ w = v
    BY <1>8, <1>9 DEF Connection, P!Subscribe, P!Return, P!ReadAnswer, P!Disconnect,
       P!PromiseError, P!DropSubscription, P!Release, P!Connect, P!ConnectError
  <2> QED
    BY <2>1, <2>2, <2>3
<1>10. ASSUME NEW v \in Worker, Handle(v) PROVE Goal
  <2>1. /\ P!Handle(v) /\ updates' = updates
        /\ wpool' = IF Head(toWorker[v]) = 0 THEN wpool
                    ELSE [wpool EXCEPT ![v] = ApplyUpdate(@, updates[Head(toWorker[v])])]
    BY <1>10 DEF Handle
  <2>2. CASE v # w
    BY <1>8, <2>1, <2>2 DEF P!Handle
  <2>3. CASE v = w /\ Head(toWorker[v]) = 0
    BY <1>8, <2>1, <2>3 DEF P!Handle
  <2>4. CASE v = w /\ Head(toWorker[v]) # 0
    <3>1. PICK n \in Nat : n = Head(toWorker[w]) /\ n = toWorker[w][1]
                           /\ 1 \in DOMAIN toWorker[w] /\ n # 0
      BY <1>8, <2>1, <2>4 DEF P!Handle
    <3>2. n \in 1 .. published /\ \A j \in DOMAIN applied[w] : applied[w][j] < n
      BY <3>1, FeedFacts
    <3>3. applied'[w] = Append(applied[w], n) /\ worker[w] # "dead"
      BY <1>8, <2>1, <2>4, <3>1 DEF P!Handle
    <3>4. wpool'[w] = ApplyUpdate(wpool[w], updates[n])
      BY <1>8, <2>1, <2>4, <3>1
    <3> QED
      BY <2>1, <3>2, <3>3, <3>4
  <2> QED
    BY <2>2, <2>3, <2>4
<1>11. ASSUME NEW v \in Worker, Serve(v) PROVE Goal
  <2>1. applied' = applied /\ updates' = updates /\ worker' = worker /\ Eligible(wpool[v]) # {}
    BY <1>11 DEF Serve, pubsub
  <2>2. CASE v # w
    BY <1>8, <1>11, <2>1, <2>2 DEF Serve
  <2>3. CASE v = w
    <3> DEFINE p == wpool[w]
               i == (p.last_used + Min(Eligible(p))) % Len(p.backends)
               b == BackendAt(p, i)
               q == MoveCursor(p, i)
    <3>1. wpool'[w] \in {IncSuccess(q, b), q}
      BY <1>8, <1>11, <2>3 DEF Serve
    <3>2. Sound(p)
      BY DEF PoolsSound
    <3>3. /\ Sound(wpool'[w]) /\ wpool'[w].backends = p.backends
          /\ \A d \in DOMAIN p.cell : /\ ServerOf(wpool'[w], d) = ServerOf(p, d)
                                      /\ wpool'[w].cell[d].state = p.cell[d].state
      BY <2>1, <2>3, <3>1, <3>2, ServeKeeps
    <3> QED
      BY <2>1, <3>3
  <2> QED
    BY <2>2, <2>3
<1>12. ASSUME NEW v \in Worker, Die(v) PROVE Goal
  <2>1. /\ applied' = applied /\ worker' = [worker EXCEPT ![v] = "dead"]
        /\ wpool' = [wpool EXCEPT ![v] = EmptyPool]
    BY <1>12 DEF Die, P!Die, P!history
  <2>2. CASE v # w
    BY <1>8, <2>1, <2>2
  <2>3. CASE v = w
    BY <1>8, <2>1, <2>3
  <2> QED
    BY <2>2, <2>3
<1> QED
  BY <1>1, <1>4, <1>5, <1>6, <1>7, <1>9, <1>10, <1>11, <1>12 DEF Next

-----------------------------------------------------------------------------
(* The invariant *)

(* No two updates add the same server *)
Once(u) == \A i, j \in DOMAIN u : u[i].op = "Add" /\ u[i] = u[j] => i = j

(* A set of at most one element.                                           *)
LEMMA AtMostOne ==
    ASSUME NEW T, IsFiniteSet(T)
    PROVE  Cardinality(T) <= 1 <=> \A i, j \in T : i = j
<1>1. ASSUME Cardinality(T) <= 1, NEW i \in T, NEW j \in T, i # j PROVE FALSE
  <2>1. Cardinality(T) \in Nat /\ Cardinality(T \ {i}) = Cardinality(T) - 1
        /\ IsFiniteSet(T \ {i})
    BY FS_CardinalityType, FS_RemoveElement
  <2>2. Cardinality(T \ {i}) \in Nat /\ Cardinality(T \ {i}) # 0
    BY <1>1, <2>1, FS_CardinalityType, FS_EmptySet
  <2> QED
    BY <1>1, <2>1, <2>2
<1>2. ASSUME \A i, j \in T : i = j PROVE Cardinality(T) <= 1
  <2>1. CASE T = {}
    BY <2>1, FS_EmptySet
  <2>2. CASE T # {}
    <3>1. PICK i \in T : T = {i}
      BY <1>2, <2>2
    <3> QED
      BY <3>1, FS_Singleton
  <2> QED
    BY <2>1, <2>2
<1> QED
  BY <1>1, <1>2

(* AddedOnce without counting.                                             *)
LEMMA OnceFacts ==
    ASSUME updates \in Seq(Update)
    PROVE  (\A s \in Server : AddedOnce(s)) <=> Once(updates)
<1> DEFINE T(s) == {i \in DOMAIN updates : updates[i] = Addition(s)}
<1>1. \A s : AddedOnce(s) <=> \A i, j \in T(s) : i = j
  <2>1. SUFFICES ASSUME NEW s PROVE AddedOnce(s) <=> \A i, j \in T(s) : i = j
    OBVIOUS
  <2>2. IsFiniteSet(T(s))
    <3>1. DOMAIN updates = 1 .. Len(updates) /\ Len(updates) \in Nat
      OBVIOUS
    <3>2. IsFiniteSet(DOMAIN updates)
      BY <3>1, FS_Interval
    <3> QED
      BY <3>2, FS_Subset
  <2> QED
    BY <2>2, AtMostOne DEF AddedOnce
<1>2. \A i \in DOMAIN updates : updates[i] \in Update
  OBVIOUS
<1>3. ASSUME \A s \in Server : AddedOnce(s) PROVE Once(updates)
  <2>1. SUFFICES ASSUME NEW i \in DOMAIN updates, NEW j \in DOMAIN updates,
                        updates[i].op = "Add", updates[i] = updates[j]
                 PROVE  i = j
    BY DEF Once
  <2>2. updates[i].server \in Server /\ updates[i] = Addition(updates[i].server)
    BY <1>2, <2>1, UpdateFacts
  <2> QED
    BY <1>1, <1>3, <2>1, <2>2
<1>4. ASSUME Once(updates), NEW s \in Server PROVE AddedOnce(s)
  <2>1. ASSUME NEW i \in T(s), NEW j \in T(s) PROVE i = j
    <3>1. updates[i].op = "Add" /\ updates[i] = updates[j]
      BY <1>2, UpdateFacts
    <3> QED
      BY <1>4, <3>1 DEF Once
  <2> QED
    BY <1>1, <2>1
<1> QED
  BY <1>3, <1>4

LogInv ==
    /\ updates \in Seq(Update) /\ Len(updates) = published
    /\ PoolsSound
    /\ AppliedOrdered
    /\ ~HasDuplicate(pool) => LogOf(pool, updates)
    /\ \A w \in Worker : worker[w] # "dead" /\ ~HasDuplicate(wpool[w])
                            => LogOf(wpool[w], Messages(w))
    /\ Once(updates) => ~HasDuplicate(pool) /\ \A w \in Worker : ~HasDuplicate(wpool[w])

(* The manager's pool follows its log, and the log only grows.             *)
LEMMA ManagerLogged ==
    ASSUME LogInv, MH!HealthInv, PP!PubSubInv, [Next]_vars
    PROVE  /\ updates' \in Seq(Update) /\ Len(updates') = published'
           /\ ~HasDuplicate(pool') => LogOf(pool', updates')
           /\ Once(updates') => Once(updates) /\ ~HasDuplicate(pool')
           /\ \A i \in DOMAIN updates : i \in DOMAIN updates' /\ updates'[i] = updates[i]
<1>1. Sound(pool) /\ updates \in Seq(Update) /\ (~HasDuplicate(pool) => LogOf(pool, updates))
      /\ Len(updates) = published
  BY ManagerFacts DEF LogInv
<1>2. CASE pool' = pool /\ updates' = updates /\ published' = published
  BY <1>1, <1>2 DEF LogInv
<1>3. ASSUME NEW x \in Update, updates' = Append(updates, x), published' = published + 1,
             Logged(pool, updates, pool', x)
      PROVE  /\ updates' \in Seq(Update) /\ Len(updates') = published'
             /\ ~HasDuplicate(pool') => LogOf(pool', updates')
             /\ Once(updates') => Once(updates) /\ ~HasDuplicate(pool')
             /\ \A i \in DOMAIN updates : i \in DOMAIN updates' /\ updates'[i] = updates[i]
  <2>1. PICK n \in Nat : /\ DOMAIN updates = 1 .. n /\ DOMAIN updates' = 1 .. n + 1
                         /\ updates'[n + 1] = x
                         /\ \A i \in 1 .. n : i \in 1 .. n + 1 /\ updates'[i] = updates[i]
    BY <1>1, <1>3
  <2>2. updates' \in Seq(Update) /\ Len(updates') = published'
    BY <1>1, <1>3, AppendProperties
  <2>3. ASSUME Once(updates') PROVE Once(updates)
    BY <2>1, <2>3 DEF Once
  <2>4. ASSUME Once(updates'), HasDuplicate(pool') PROVE FALSE
    <3>1. ~HasDuplicate(pool)
      BY <2>3, <2>4 DEF LogInv
    <3>2. x.op = "Add" /\ x.server \in Added(updates)
      BY <1>3, <2>4, <3>1 DEF Logged
    <3>3. PICK i \in DOMAIN updates : updates[i] = Addition(x.server)
      BY <1>1, <3>2, AddedFacts
    <3>4. updates'[i] = x /\ i \in DOMAIN updates' /\ i # n + 1 /\ n + 1 \in DOMAIN updates'
      BY <2>1, <3>2, <3>3, UpdateFacts
    <3> QED
      BY <2>1, <2>4, <3>2, <3>4 DEF Once
  <2> QED
    BY <1>3, <2>1, <2>2, <2>3, <2>4 DEF Logged
<1>4. ASSUME NEW s \in Server, pool' = PoolAdd(pool, s), updates' = Append(updates, Addition(s))
      PROVE  Addition(s) \in Update /\ Logged(pool, updates, pool', Addition(s))
  BY <1>1, <1>4, LogAdd DEF Addition, Update
<1>5. ASSUME NEW b \in Handles(pool), NEW st \in ServerState, pool' = MarkBackend(pool, b, st)
      PROVE  /\ [op |-> st, server |-> ServerOf(pool, b)] \in Update
             /\ Logged(pool, updates, pool', [op |-> st, server |-> ServerOf(pool, b)])
  <2>1. b \in DOMAIN pool.cell /\ pool.cell \in Seq(InnerBackend(Server))
    BY <1>1 DEF Sound, PoolType
  <2>2. pool.cell[b] \in InnerBackend(Server)
    BY <2>1
  <2>3. ServerOf(pool, b) \in Server
    BY <2>2 DEF InnerBackend, ServerOf
  <2> QED
    BY <1>1, <1>5, <2>3, LogMark DEF Update
<1> QED
  BY <1>2, <1>3, <1>4, <1>5, ManagerMoves

(* The messages of a worker that handles one more.                         *)
LEMMA MessagesAppend ==
    ASSUME NEW a \in Seq(Nat), NEW n \in Nat, NEW u \in Seq(Update),
           \A k \in DOMAIN a : a[k] \in DOMAIN u, n \in DOMAIN u
    PROVE  /\ [k \in DOMAIN a |-> u[a[k]]] \in Seq(Update)
           /\ [k \in DOMAIN Append(a, n) |-> u[Append(a, n)[k]]]
                = Append([k \in DOMAIN a |-> u[a[k]]], u[n])
<1>1. PICK l \in Nat : l = Len(a) /\ DOMAIN a = 1 .. l
  OBVIOUS
<1>2. PICK f : f = [k \in DOMAIN a |-> u[a[k]]]
  OBVIOUS
<1>3. f \in Seq(Update) /\ Len(f) = l /\ DOMAIN f = 1 .. l
  <2>1. \A k \in 1 .. l : f[k] \in Update
    BY <1>1, <1>2
  <2>2. f \in [1 .. l -> Update]
    BY <1>1, <1>2, <2>1
  <2> QED
    BY <2>2
<1>4. PICK b \in Seq(Nat) : b = Append(a, n)
  BY AppendProperties
<1>5. DOMAIN b = 1 .. l + 1 /\ b[l + 1] = n /\ \A k \in 1 .. l : b[k] = a[k]
  BY <1>1, <1>4
<1>6. PICK e \in Update : e = u[n]
  OBVIOUS
<1>7. PICK g \in Seq(Update) : g = Append(f, e)
  BY <1>3, AppendProperties
<1>8. DOMAIN g = 1 .. l + 1 /\ g[l + 1] = e /\ \A k \in 1 .. l : g[k] = f[k]
  BY <1>3, <1>7
<1>9. \A k \in 1 .. l + 1 : u[b[k]] = g[k]
  <2>1. \A k \in 1 .. l + 1 : k \in 1 .. l \/ k = l + 1
    OBVIOUS
  <2> QED
    BY <1>1, <1>2, <1>5, <1>6, <1>8, <2>1
<1>10. [k \in DOMAIN b |-> u[b[k]]] = g
  <2>1. g \in [1 .. l + 1 -> Update]
    BY <1>8
  <2> QED
    BY <1>5, <1>9, <2>1
<1> QED
  BY <1>2, <1>3, <1>4, <1>6, <1>7, <1>10

(* The pool of a worker follows the messages it has handled.               *)
LEMMA WorkerLogged ==
    ASSUME LogInv, MH!HealthInv, PP!PubSubInv, [Next]_vars, NEW w \in Worker
    PROVE  /\ Sound(wpool'[w])
           /\ \A j, k \in DOMAIN applied'[w] :
                applied'[w][j] > 0 /\ (j < k => applied'[w][j] < applied'[w][k])
           /\ worker'[w] # "dead" /\ ~HasDuplicate(wpool'[w])
                => LogOf(wpool'[w], Messages(w)')
           /\ Once(updates') => ~HasDuplicate(wpool'[w])
<1>1. /\ updates \in Seq(Update) /\ PoolsSound /\ Sound(wpool[w]) /\ applied[w] \in Seq(Nat)
      /\ DOMAIN updates = 1 .. published /\ published \in Nat
      /\ Once(updates) => ~HasDuplicate(wpool[w])
      /\ worker[w] # "dead" /\ ~HasDuplicate(wpool[w]) => LogOf(wpool[w], Messages(w))
  BY FeedFacts DEF LogInv, PoolsSound
<1>2. \A j, k \in DOMAIN applied[w] :
        applied[w][j] > 0 /\ (j < k => applied[w][j] < applied[w][k])
  BY DEF LogInv, AppliedOrdered
<1>3. \A k \in DOMAIN applied[w] : applied[w][k] \in DOMAIN updates
  BY <1>1, <1>2, FeedFacts
<1>4. /\ \A i \in DOMAIN updates : updates'[i] = updates[i]
      /\ Once(updates') => Once(updates)
  BY ManagerLogged
<1>5. applied'[w] = applied[w] => Messages(w)' = Messages(w)
  BY <1>3, <1>4 DEF Messages
<1>6. CASE /\ wpool'[w] = wpool[w] /\ applied'[w] = applied[w]
           /\ worker'[w] # "dead" => worker[w] # "dead"
  BY <1>1, <1>2, <1>4, <1>5, <1>6
<1>7. CASE /\ applied'[w] = applied[w] /\ updates' = updates
           /\ worker'[w] # "dead" => worker[w] # "dead"
           /\ Sound(wpool'[w]) /\ wpool'[w].backends = wpool[w].backends
           /\ \A d \in DOMAIN wpool[w].cell :
                 /\ ServerOf(wpool'[w], d) = ServerOf(wpool[w], d)
                 /\ wpool'[w].cell[d].state = wpool[w].cell[d].state
  <2>1. HasDuplicate(wpool'[w]) <=> HasDuplicate(wpool[w])
    BY <1>1, <1>7, SameDuplicates DEF Sound
  <2>2. LogOf(wpool[w], Messages(w)) => LogOf(wpool'[w], Messages(w))
    BY <1>1, <1>7, LogSame
  <2> QED
    BY <1>1, <1>2, <1>4, <1>5, <1>7, <2>1, <2>2
<1>8. ASSUME NEW n \in 1 .. published, wpool'[w] = ApplyUpdate(wpool[w], updates[n]),
             applied'[w] = Append(applied[w], n), updates' = updates, worker[w] # "dead",
             \A j \in DOMAIN applied[w] : applied[w][j] < n
      PROVE  /\ Sound(wpool'[w])
             /\ \A j, k \in DOMAIN applied'[w] :
                  applied'[w][j] > 0 /\ (j < k => applied'[w][j] < applied'[w][k])
             /\ worker'[w] # "dead" /\ ~HasDuplicate(wpool'[w])
                  => LogOf(wpool'[w], Messages(w)')
             /\ Once(updates') => ~HasDuplicate(wpool'[w])
  <2>1. n \in Nat \ {0} /\ n \in DOMAIN updates /\ updates[n] \in Update
    BY <1>1
  <2>2. Messages(w) \in Seq(Update) /\ Messages(w)' = Append(Messages(w), updates[n])
    <3>1. Messages(w) \in Seq(Update)
      BY <1>1, <1>3, <2>1, MessagesAppend DEF Messages
    <3>2. Messages(w)' = [k \in DOMAIN Append(applied[w], n) |-> updates[Append(applied[w], n)[k]]]
      BY <1>8 DEF Messages
    <3>3. [k \in DOMAIN Append(applied[w], n) |-> updates[Append(applied[w], n)[k]]]
            = Append(Messages(w), updates[n])
      BY <1>1, <1>3, <2>1, MessagesAppend DEF Messages
    <3> QED
      BY <3>1, <3>2, <3>3
  <2>3. Logged(wpool[w], Messages(w), wpool'[w], updates[n])
    BY <1>1, <1>8, <2>1, <2>2, LogApply
  <2>4. ASSUME NEW j \in DOMAIN applied'[w], NEW k \in DOMAIN applied'[w]
        PROVE  applied'[w][j] > 0 /\ (j < k => applied'[w][j] < applied'[w][k])
    <3>1. PICK a \in Seq(Nat) : a = applied[w]
      BY <1>1
    <3>2. PICK l \in Nat : l = Len(a) /\ DOMAIN a = 1 .. l /\ DOMAIN Append(a, n) = 1 .. l + 1
                           /\ Append(a, n)[l + 1] = n
                           /\ \A i \in 1 .. l : Append(a, n)[i] = a[i]
      BY <2>1, <3>1
    <3>3. /\ \A i \in 1 .. l : a[i] > 0 /\ a[i] < n
          /\ \A h, i \in 1 .. l : h < i => a[h] < a[i]
      BY <1>2, <1>8, <3>1, <3>2
    <3>4. applied'[w] = Append(a, n)
      BY <1>8, <3>1
    <3>5. /\ j \in 1 .. l \/ j = l + 1
          /\ k \in 1 .. l \/ k = l + 1
      BY <2>4, <3>2, <3>4
    <3> QED
      BY <2>1, <3>2, <3>3, <3>4, <3>5
  <2>5. ASSUME Once(updates'), HasDuplicate(wpool'[w]) PROVE FALSE
    <3>1. updates[n].op = "Add" /\ updates[n].server \in Added(Messages(w))
      BY <1>1, <1>8, <2>3, <2>5 DEF Logged
    <3>2. PICK k \in DOMAIN Messages(w) : Messages(w)[k] = Addition(updates[n].server)
      BY <2>2, <3>1, AddedFacts
    <3>3. k \in DOMAIN applied[w] /\ updates[applied[w][k]] = Addition(updates[n].server)
      BY <3>2 DEF Messages
    <3>4. updates[applied[w][k]] = updates[n]
      BY <2>1, <3>1, <3>3, UpdateFacts
    <3>5. applied[w][k] \in DOMAIN updates /\ applied[w][k] < n
      BY <1>3, <1>8, <3>3
    <3>6. applied[w][k] = n
      BY <1>8, <2>1, <2>5, <3>1, <3>4, <3>5 DEF Once
    <3> QED
      BY <1>1, <2>1, <3>5, <3>6
  <2> QED
    BY <2>2, <2>3, <2>4, <2>5 DEF Logged
<1>9. CASE worker'[w] = "dead" /\ wpool'[w] = EmptyPool /\ applied'[w] = applied[w]
  <2>1. Sound(EmptyPool) /\ ~HasDuplicate(EmptyPool)
    BY DEF EmptyPool, Sound, PoolType, Handles, HasDuplicate
  <2> QED
    BY <1>2, <1>9, <2>1
<1> QED
  BY <1>1, <1>6, <1>7, <1>8, <1>9, WorkerMoves

(* Every worker keeps a pool.                                              *)
LEMMA WorkerPools ==
    ASSUME PoolsSound, [Next]_vars
    PROVE  wpool' = [w \in Worker |-> wpool'[w]]
<1>1. wpool \in [Worker -> PoolType(Server)]
  BY DEF PoolsSound
<1>2. CASE wpool' = wpool
  BY <1>1, <1>2
<1>3. ASSUME NEW v \in Worker, NEW q, wpool' = [wpool EXCEPT ![v] = q]
      PROVE  wpool' = [w \in Worker |-> wpool'[w]]
  BY <1>1, <1>3
<1>4. \/ wpool' = wpool
      \/ \E v \in Worker : \E q : wpool' = [wpool EXCEPT ![v] = q]
  <2>1. CASE UNCHANGED vars
    BY <2>1 DEF vars
  <2>2. ASSUME NEW w \in Worker, Handle(w) \/ Serve(w) \/ Die(w)
        PROVE  \/ wpool' = wpool
               \/ \E v \in Worker : \E q : wpool' = [wpool EXCEPT ![v] = q]
    BY <2>2 DEF Handle, Serve, Die
  <2>3. ASSUME NEW w \in Worker, Connection(w) PROVE wpool' = wpool
    BY <2>3 DEF Connection
  <2> QED
    BY <2>1, <2>2, <2>3 DEF Next, AddServer, Tick, CheckBackend, CheckPasses, CheckFails
<1> QED
  BY <1>2, <1>3, <1>4

(* The invariant holds in every reachable state.                           *)
LEMMA LogInvariance == Spec => []LogInv
<1>1. Init => LogInv
  <2>1. SUFFICES ASSUME Init PROVE LogInv
    OBVIOUS
  <2>2. /\ pool = EmptyPool /\ updates = <<>> /\ published = 0
        /\ applied = [w \in Worker |-> <<>>] /\ wpool = [w \in Worker |-> EmptyPool]
    BY <2>1 DEF Init, M!Init, P!Init, M!EmptyPool, EmptyPool
  <2>3. EmptyPool \in PoolType(Server) /\ Sound(EmptyPool) /\ ~HasDuplicate(EmptyPool)
    BY DEF EmptyPool, Sound, PoolType, Handles, HasDuplicate
  <2>4. ASSUME NEW u, DOMAIN u = {} PROVE LogOf(EmptyPool, u)
    BY <2>4 DEF EmptyPool, LogOf, Says, AddedEarlier, Added, Servers, Handles
  <2>5. DOMAIN updates = {} /\ \A w \in Worker : DOMAIN Messages(w) = {}
    BY <2>2 DEF Messages
  <2>6. PoolsSound /\ AppliedOrdered
    BY <2>2, <2>3 DEF PoolsSound, AppliedOrdered
  <2> QED
    BY <2>2, <2>3, <2>4, <2>5, <2>6 DEF LogInv
<1>2. ASSUME LogInv, MH!HealthInv, PP!PubSubInv, [Next]_vars PROVE LogInv'
  <2>1. PoolsSound'
    <3>1. \A w \in Worker : Sound(wpool'[w])
      BY <1>2, WorkerLogged
    <3>2. \A w \in Worker : wpool'[w] \in PoolType(Server)
      BY <3>1 DEF Sound
    <3>3. wpool' = [w \in Worker |-> wpool'[w]]
      BY <1>2, WorkerPools DEF LogInv
    <3> QED
      BY <3>1, <3>2, <3>3 DEF PoolsSound
  <2>2. AppliedOrdered'
    BY <1>2, WorkerLogged DEF AppliedOrdered
  <2> QED
    BY <1>2, <2>1, <2>2, ManagerLogged, WorkerLogged DEF LogInv
<1> QED
  BY <1>1, <1>2, ManagerHolds, PubSubHolds, PTL DEF Spec

-----------------------------------------------------------------------------
(* Replication *)

(* A sequence that takes 1 .. n in increasing order is 1 .. n itself.      *)
LEMMA AppliedIsAll ==
    ASSUME NEW n \in Nat, NEW l \in Nat, NEW a, \A k \in 1 .. l : a[k] \in 1 .. n,
           \A i \in 1 .. n : \E k \in 1 .. l : a[k] = i,
           \A j, k \in 1 .. l : j < k => a[j] < a[k]
    PROVE  l = n /\ \A k \in 1 .. l : a[k] = k
<1>1. \A k \in 1 .. l : a[k] = k
  <2> DEFINE Bad == {k \in 1 .. l : a[k] # k}
  <2>1. SUFFICES ASSUME Bad # {} PROVE FALSE
    OBVIOUS
  <2>2. PICK m \in Bad : \A k \in Bad : m <= k
    <3>1. Bad \in SUBSET Nat
      OBVIOUS
    <3> QED
      BY <2>1, <3>1, MinIsLeast
  <2>3. m \in 1 .. l /\ a[m] # m /\ a[m] \in 1 .. n
    OBVIOUS
  <2>4. \A k \in 1 .. l : k < m => a[k] = k
    BY <2>2
  <2>5. a[m] > m
    <3>1. CASE m = 1
      BY <2>3, <3>1
    <3>2. CASE m # 1
      <4>1. m - 1 \in 1 .. l /\ m - 1 < m
        BY <2>3, <3>2
      <4>2. a[m - 1] = m - 1 /\ a[m - 1] < a[m]
        BY <2>3, <2>4, <4>1
      <4> QED
        BY <2>3, <4>1, <4>2
    <3> QED
      BY <3>1, <3>2
  <2>6. m \in 1 .. n
    BY <2>3, <2>5
  <2>7. PICK k \in 1 .. l : a[k] = m
    BY <2>6
  <2>8. ~(k < m) /\ k # m
    BY <2>3, <2>4, <2>7
  <2>9. m < k
    BY <2>3, <2>8
  <2>10. a[m] < a[k]
    BY <2>3, <2>9
  <2> QED
    BY <2>3, <2>5, <2>7, <2>10
<1>2. l <= n
  BY <1>1
<1>3. n <= l
  <2>1. SUFFICES ASSUME l < n PROVE FALSE
    OBVIOUS
  <2>2. PICK k \in 1 .. l : a[k] = l + 1
    BY <2>1
  <2> QED
    BY <1>1, <2>2
<1> QED
  BY <1>1, <1>2, <1>3

Before(u, s, t) ==
    \E m \in DOMAIN u : /\ u[m] = Addition(s)
                        /\ \A l \in DOMAIN u : u[l] = Addition(t) => m < l

Ascending(u, n, f) == \A i, j \in 1 .. n : i < j => Before(u, f[i], f[j])

Within(f, a, g, b) == \A i \in 1 .. a : \E j \in 1 .. b : f[i] = g[j]

(* Two lists of the same servers, both in the order of the log, are equal. *)
LEMMA OneOrder ==
    ASSUME NEW u \in Seq(Update), NEW a \in Nat, NEW b \in Nat, NEW f, NEW g,
           Within(f, a, g, b), Within(g, b, f, a), Ascending(u, a, f), Ascending(u, b, g)
    PROVE  a = b /\ \A i \in 1 .. a : f[i] = g[i]
<1>1. \A s, t : ~(Before(u, s, t) /\ Before(u, t, s))
  <2>1. SUFFICES ASSUME NEW s, NEW t, Before(u, s, t), Before(u, t, s) PROVE FALSE
    OBVIOUS
  <2>2. PICK m \in DOMAIN u : /\ u[m] = Addition(s)
                              /\ \A l \in DOMAIN u : u[l] = Addition(t) => m < l
    BY <2>1 DEF Before
  <2>3. PICK k \in DOMAIN u : /\ u[k] = Addition(t)
                              /\ \A l \in DOMAIN u : u[l] = Addition(s) => k < l
    BY <2>1 DEF Before
  <2>4. m < k /\ k < m /\ m \in Nat /\ k \in Nat
    BY <2>2, <2>3
  <2> QED
    BY ONLY <2>4
<1>2. ASSUME NEW i \in 1 .. a PROVE i \in 1 .. b /\ f[i] = g[i]
  <2> DEFINE Bad == {k \in 1 .. a : ~(k \in 1 .. b /\ f[k] = g[k])}
  <2>1. SUFFICES ASSUME Bad # {} PROVE FALSE
    OBVIOUS
  <2>2. PICK m \in Bad : \A k \in Bad : m <= k
    <3>1. Bad \in SUBSET Nat
      OBVIOUS
    <3> QED
      BY <2>1, <3>1, MinIsLeast
  <2>3. m \in 1 .. a /\ ~(m \in 1 .. b /\ f[m] = g[m])
    OBVIOUS
  <2>4. \A k \in 1 .. a : k < m => k \in 1 .. b /\ f[k] = g[k]
    BY <2>2
  <2>5. PICK k \in 1 .. b : f[m] = g[k]
    BY <2>3 DEF Within
  <2>6. ~(k < m)
    <3>1. SUFFICES ASSUME k < m PROVE FALSE
      OBVIOUS
    <3>2. k \in 1 .. a /\ f[k] = g[k]
      BY <2>3, <2>4, <3>1
    <3>3. Before(u, f[k], f[m]) /\ f[k] = f[m]
      BY <2>3, <2>5, <3>1, <3>2 DEF Ascending
    <3> QED
      BY <1>1, <3>3
  <2>7. m \in 1 .. b /\ m < k
    <3>1. k # m
      BY <2>3, <2>5
    <3>2. m \in Nat /\ m >= 1 /\ k \in Nat /\ k <= b /\ b \in Nat
      BY ONLY a \in Nat, b \in Nat, m \in 1 .. a, k \in 1 .. b, <2>3, <2>5
    <3> QED
      BY ONLY <2>6, <3>1, <3>2
  <2>8. PICK h \in 1 .. a : f[h] = g[m]
    BY <2>7 DEF Within
  <2>9. ~(h < m)
    <3>1. SUFFICES ASSUME h < m PROVE FALSE
      OBVIOUS
    <3>2. h \in 1 .. b /\ f[h] = g[h]
      BY <2>4, <3>1
    <3>3. Before(u, g[h], g[m]) /\ g[h] = g[m]
      BY <2>7, <2>8, <3>1, <3>2 DEF Ascending
    <3> QED
      BY <1>1, <3>3
  <2>10. m < h
    <3>1. h # m
      BY <2>3, <2>7, <2>8
    <3>2. m \in Nat /\ h \in Nat
      BY ONLY a \in Nat, m \in 1 .. a, h \in 1 .. a, <2>3, <2>8
    <3> QED
      BY ONLY <2>9, <3>1, <3>2
  <2>11. Before(u, f[m], f[h])
    BY <2>3, <2>10 DEF Ascending
  <2>12. Before(u, g[m], g[k])
    BY <2>7 DEF Ascending
  <2> QED
    BY <1>1, <2>5, <2>8, <2>11, <2>12
<1>3. a <= b
  <2>1. a = 0 \/ a \in 1 .. a
    OBVIOUS
  <2>2. a = 0 \/ a \in 1 .. b
    BY <1>2, <2>1
  <2> QED
    BY ONLY <2>2, a \in Nat, b \in Nat
<1>4. b <= a
  <2>1. SUFFICES ASSUME a < b PROVE FALSE
    OBVIOUS
  <2>2. a + 1 \in 1 .. b
    BY <2>1
  <2>3. PICK h \in 1 .. a : f[h] = g[a + 1]
    BY <2>2 DEF Within
  <2>4. h \in 1 .. b /\ f[h] = g[h] /\ h < a + 1
    BY <1>2
  <2>5. Before(u, g[h], g[a + 1])
    BY <2>2, <2>4 DEF Ascending
  <2> QED
    BY <1>1, <2>3, <2>4, <2>5
<1> QED
  BY <1>2, <1>3, <1>4

(* The backends of a pool, by server, are in the order of its log.         *)
LEMMA EarlierBefore ==
    ASSUME NEW p, NEW u, NEW n, AddedEarlier(p, u), DOMAIN p.backends = 1 .. n
    PROVE  Ascending(u, n, [i \in 1 .. n |-> ServerOf(p, p.backends[i])])
<1>1. SUFFICES ASSUME NEW i \in 1 .. n, NEW j \in 1 .. n, i < j
               PROVE  Before(u, ServerOf(p, p.backends[i]), ServerOf(p, p.backends[j]))
  BY DEF Ascending
<1> QED
  BY <1>1 DEF AddedEarlier, Before

(* One log describes one pool: servers, states and order of rotation.      *)
LEMMA SameListing ==
    ASSUME NEW p, NEW q, Sound(p), Sound(q), NEW u \in Seq(Update), LogOf(p, u), LogOf(q, u)
    PROVE  Listing(p) = Listing(q)
<1>1. PICK a \in Nat : DOMAIN p.backends = 1 .. a
  BY DEF Sound, PoolType
<1>2. PICK b \in Nat : DOMAIN q.backends = 1 .. b
  BY DEF Sound, PoolType
<1>3. PICK f : f = [i \in 1 .. a |-> ServerOf(p, p.backends[i])]
  OBVIOUS
<1>4. PICK g : g = [i \in 1 .. b |-> ServerOf(q, q.backends[i])]
  OBVIOUS
<1>5. \A s : s \in Servers(p) <=> \E i \in 1 .. a : s = f[i]
  BY <1>1, <1>3 DEF Servers, Handles
<1>6. \A s : s \in Servers(q) <=> \E i \in 1 .. b : s = g[i]
  BY <1>2, <1>4 DEF Servers, Handles
<1>7. Servers(p) = Servers(q)
  BY DEF LogOf, Says
<1>8. Within(f, a, g, b)
  BY <1>5, <1>6, <1>7 DEF Within
<1>9. Within(g, b, f, a)
  BY <1>5, <1>6, <1>7 DEF Within
<1>10. Ascending(u, a, f)
  BY <1>1, <1>3, EarlierBefore DEF LogOf
<1>11. Ascending(u, b, g)
  BY <1>2, <1>4, EarlierBefore DEF LogOf
<1>12. a = b /\ \A i \in 1 .. a : f[i] = g[i]
  BY <1>8, <1>9, <1>10, <1>11, OneOrder
<1>13. ASSUME NEW i \in 1 .. a
       PROVE  /\ ServerOf(p, p.backends[i]) = ServerOf(q, q.backends[i])
              /\ p.cell[p.backends[i]].state = q.cell[q.backends[i]].state
  <2>1. ServerOf(p, p.backends[i]) = ServerOf(q, q.backends[i])
    BY <1>3, <1>4, <1>12
  <2>2. p.backends[i] \in Handles(p) /\ q.backends[i] \in Handles(q)
    BY <1>1, <1>2, <1>12 DEF Handles
  <2>3. /\ Replay(u)[ServerOf(p, p.backends[i])] = p.cell[p.backends[i]].state
        /\ Replay(u)[ServerOf(q, q.backends[i])] = q.cell[q.backends[i]].state
    BY <2>2 DEF LogOf, Says
  <2> QED
    BY <2>1, <2>3
<1> QED
  BY <1>1, <1>2, <1>12, <1>13 DEF Listing

(* A worker that missed nothing and handled everything was told what the   *)
(* manager announced, in the same order.                                   *)
LEMMA FedIsLog ==
    ASSUME LogInv, PP!PubSubInv, NEW w \in Worker, Fed(w), CaughtUp(w)
    PROVE  worker[w] # "dead" /\ Messages(w) = updates
<1>1. worker[w] # "dead"
  BY DEF Fed, PP!PubSubInv, PP!WorkerInv, PP!Staged
<1>2. PICK n \in Nat : n = published /\ DOMAIN updates = 1 .. n /\ updates \in [1 .. n -> Update]
  BY DEF LogInv
<1>3. PICK a \in Seq(Nat) : a = applied[w]
  BY FeedFacts
<1>4. PICK l \in Nat : DOMAIN a = 1 .. l
  OBVIOUS
<1>5. {a[k] : k \in 1 .. l} = 1 .. n
  <2>1. P!Taken(w) \cup P!Coming(w) = (since[w] + 1 .. published) \ skipped[w]
    BY FeedFacts DEF Fed
  <2>2. P!Taken(w) = 0 + 1 .. n
    BY <1>2, <2>1 DEF Fed, CaughtUp
  <2> QED
    BY <1>3, <1>4, <2>2 DEF P!Taken
<1>6. \A k \in 1 .. l : a[k] \in 1 .. n
  BY <1>5
<1>7. \A i \in 1 .. n : \E k \in 1 .. l : a[k] = i
  BY <1>5
<1>8. \A j, k \in 1 .. l : j < k => a[j] < a[k]
  BY <1>3, <1>4 DEF LogInv, AppliedOrdered
<1>9. l = n /\ \A k \in 1 .. l : a[k] = k
  BY <1>6, <1>7, <1>8, AppliedIsAll
<1>10. Messages(w) = [k \in 1 .. n |-> updates[k]]
  BY <1>3, <1>4, <1>9 DEF Messages
<1> QED
  BY <1>1, <1>2, <1>10

-----------------------------------------------------------------------------
(* What Weldr guarantees *)

(* Everything the manager knows it has announced (manager.rs add_server,   *)
(* health.rs): without duplicates its pool is what its log says.           *)
THEOREM ManagerFollowsLog == Spec => []ManagerIsLog
<1>1. LogInv /\ MH!HealthInv => ManagerIsLog
  <2>1. SUFFICES ASSUME LogInv, MH!HealthInv, ~HasDuplicate(pool)
                 PROVE  View(pool) = Replay(updates)
    BY DEF ManagerIsLog
  <2>2. Sound(pool) /\ Says(pool, updates)
    BY <2>1, ManagerFacts DEF LogInv, LogOf
  <2> QED
    BY <2>1, <2>2, SaysIsView
<1> QED
  BY <1>1, LogInvariance, ManagerHolds, PTL

(* The handlers of a worker (worker.rs) do to its pool what the messages   *)
(* say, whatever requests were served between them.                        *)
THEOREM WorkersFollowLog == Spec => []WorkerIsLog
<1>1. LogInv => WorkerIsLog
  <2>1. SUFFICES ASSUME LogInv, NEW w \in Worker, worker[w] # "dead", ~HasDuplicate(wpool[w])
                 PROVE  View(wpool[w]) = Replay(Messages(w))
    BY DEF WorkerIsLog
  <2>2. Sound(wpool[w]) /\ Says(wpool[w], Messages(w))
    BY <2>1 DEF LogInv, LogOf, PoolsSound
  <2> QED
    BY <2>1, <2>2, SaysIsView
<1> QED
  BY <1>1, LogInvariance, PTL

(* No pool holds a server twice unless the manager was asked to add it     *)
(* twice: messages, requests and health checks alone never duplicate one.  *)
THEOREM ReAddOnly == Spec => []DuplicateNeedsReAdd
<1>1. LogInv => DuplicateNeedsReAdd
  <2>1. SUFFICES ASSUME LogInv, \A s \in Server : AddedOnce(s)
                 PROVE  ~HasDuplicate(pool) /\ \A w \in Worker : ~HasDuplicate(wpool[w])
    BY DEF DuplicateNeedsReAdd
  <2>2. Once(updates)
    BY <2>1, OnceFacts DEF LogInv
  <2> QED
    BY <2>1, <2>2 DEF LogInv
<1> QED
  BY <1>1, LogInvariance, PTL

(* Replication: a worker that missed no update and handled all of them     *)
(* rotates over the same servers, in the same states and the same order,   *)
(* as the manager.                                                         *)
THEOREM PoolsAgree == Spec => []Agreement
<1>1. LogInv /\ MH!HealthInv /\ PP!PubSubInv => Agreement
  <2>1. SUFFICES ASSUME LogInv, MH!HealthInv, PP!PubSubInv, NEW w \in Worker,
                        Fed(w), CaughtUp(w), ~HasDuplicate(pool), ~HasDuplicate(wpool[w])
                 PROVE  Listing(wpool[w]) = Listing(pool)
    BY DEF Agreement
  <2>2. worker[w] # "dead" /\ Messages(w) = updates
    BY <2>1, FedIsLog
  <2>3. Sound(pool) /\ Sound(wpool[w]) /\ updates \in Seq(Update)
    BY <2>1, ManagerFacts DEF LogInv, PoolsSound
  <2>4. LogOf(pool, updates) /\ LogOf(wpool[w], updates)
    BY <2>1, <2>2 DEF LogInv
  <2> QED
    BY <2>3, <2>4, SameListing
<1> QED
  BY <1>1, LogInvariance, ManagerHolds, PubSubHolds, PTL

(* The manager of Weldr is BackendHealth and its connections are PubSub:   *)
(* composing them with the pools of the workers adds no behaviour.         *)
THEOREM ComponentsImplemented == Spec => MH!Spec /\ PP!Spec
<1>1. Init => MH!Init /\ PP!Init
  BY ManagerActions, PubSubActions DEF Init
<1> QED
  BY <1>1, ManagerStep, PubSubStep, PTL DEF Spec, MH!Spec, PP!Spec

(* The whole invariant of Weldr, the type invariants of its components and *)
(* the order of rotation included.                                         *)
THEOREM WeldrInvariance == Spec => []WeldrInv
<1>1. MH!HealthInv => M!TypeOK
  BY DEF MH!HealthInv, MH!TypeOK, M!TypeOK, MH!PoolType, M!PoolType, MH!InnerBackend,
         M!InnerBackend, MH!ServerState, M!ServerState, MH!Handles, M!Handles,
         MH!HealthState, M!HealthState, MH!Backend, M!Backend
<1>2. PP!PubSubInv => P!TypeOK
  BY DEF PP!PubSubInv, PP!TypeOK, P!TypeOK, PP!NoId, P!NoId, PP!WorkerState, P!WorkerState,
         PP!ConnState, P!ConnState, PP!SubscriberHandle, P!SubscriberHandle
<1>3. LogInv => /\ updates \in Seq(Update) /\ Len(updates) = published
                /\ wpool \in [Worker -> PoolType(Server)]
                /\ \A w \in Worker : Handles(wpool[w]) \subseteq DOMAIN wpool[w].cell
                /\ AppliedOrdered /\ RotationIsLog
  BY DEF LogInv, PoolsSound, Sound, RotationIsLog, LogOf
<1>4. Spec => [](M!TypeOK /\ P!TypeOK /\ LogInv)
  BY <1>1, <1>2, LogInvariance, ManagerHolds, PubSubHolds, PTL
<1>5. ASSUME M!TypeOK, P!TypeOK, LogInv, ManagerIsLog, WorkerIsLog, DuplicateNeedsReAdd
      PROVE  WeldrInv
  BY <1>3, <1>5 DEF WeldrInv, TypeOK
<1> QED
  BY <1>4, <1>5, ManagerFollowsLog, WorkersFollowLog, ReAddOnly, PTL
=============================================================================
