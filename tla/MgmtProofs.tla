----------------------------- MODULE MgmtProofs -----------------------------
(***************************************************************************)
(* Proofs about Mgmt, for every set of connections and of servers.         *)
(***************************************************************************)
EXTENDS Mgmt, PoolOpsProofs

-----------------------------------------------------------------------------
(* The queue of the listener *)

(* The connection at the head leaves the queue, and it alone.              *)
LEMMA TailFacts ==
    ASSUME NEW S, NEW q \in Seq(S), q # <<>>, IsInjective(q)
    PROVE  /\ Head(q) \in S /\ Head(q) \in Range(q)
           /\ Tail(q) \in Seq(S)
           /\ IsInjective(Tail(q))
           /\ Range(Tail(q)) = Range(q) \ {Head(q)}
<1>1. /\ Len(q) \in Nat \ {0} /\ DOMAIN q = 1 .. Len(q)
      /\ Head(q) = q[1] /\ 1 \in DOMAIN q
      /\ Tail(q) \in Seq(S) /\ DOMAIN Tail(q) = 1 .. Len(q) - 1
      /\ \A i \in 1 .. Len(q) - 1 : Tail(q)[i] = q[i + 1]
  OBVIOUS
<1>2. \A i, j \in DOMAIN q : q[i] = q[j] => i = j
  BY DEF IsInjective
<1>3. IsInjective(Tail(q))
  <2>1. SUFFICES ASSUME NEW i \in 1 .. Len(q) - 1, NEW j \in 1 .. Len(q) - 1,
                        q[i + 1] = q[j + 1]
                 PROVE  i = j
    BY <1>1 DEF IsInjective
  <2> QED
    BY <1>1, <1>2, <2>1
<1>4. ASSUME NEW c \in Range(q), c # Head(q)
      PROVE  c \in Range(Tail(q))
  <2>1. PICK i \in DOMAIN q : c = q[i]
    BY DEF Range
  <2>2. i - 1 \in DOMAIN Tail(q) /\ Tail(q)[i - 1] = c
    BY <1>1, <1>4, <2>1
  <2> QED
    BY <2>2 DEF Range
<1>5. ASSUME NEW c \in Range(Tail(q))
      PROVE  c \in Range(q) /\ c # Head(q)
  <2>1. PICK i \in DOMAIN Tail(q) : c = Tail(q)[i]
    BY DEF Range
  <2>2. i + 1 \in DOMAIN q /\ q[i + 1] = c /\ i + 1 # 1
    BY <1>1, <2>1
  <2> QED
    BY <1>1, <1>2, <2>2 DEF Range
<1>6. Head(q) \in S /\ Head(q) \in Range(q)
  BY <1>1 DEF Range
<1> QED
  BY <1>1, <1>3, <1>4, <1>5, <1>6

(* A connection that is not in the queue joins it.                         *)
LEMMA AppendFacts ==
    ASSUME NEW S, NEW q \in Seq(S), NEW c \in S, c \notin Range(q), IsInjective(q)
    PROVE  /\ Append(q, c) \in Seq(S)
           /\ IsInjective(Append(q, c))
           /\ Range(Append(q, c)) = Range(q) \cup {c}
<1> DEFINE a == Append(q, c)
<1>1. /\ Len(q) \in Nat /\ DOMAIN q = 1 .. Len(q)
      /\ a \in Seq(S) /\ DOMAIN a = 1 .. Len(q) + 1
      /\ \A i \in DOMAIN q : a[i] = q[i]
      /\ a[Len(q) + 1] = c
  OBVIOUS
<1>2. \A i, j \in DOMAIN q : q[i] = q[j] => i = j
  BY DEF IsInjective
<1>3. \A i \in DOMAIN q : q[i] # c
  BY DEF Range
<1> HIDE DEF a
<1>4. \A i \in DOMAIN a : i \in DOMAIN q \/ i = Len(q) + 1
  BY <1>1
<1>5. IsInjective(a)
  BY <1>1, <1>2, <1>3, <1>4 DEF IsInjective
<1>6. Range(a) = Range(q) \cup {c}
  BY <1>1, <1>4 DEF Range
<1> QED
  BY <1>1, <1>5, <1>6 DEF a

-----------------------------------------------------------------------------
(* The listing *)

(* The listing has one line per backend.                                   *)
LEMMA ListingFacts ==
    ASSUME NEW S, NEW p \in PoolType(S), Handles(p) \subseteq DOMAIN p.cell
    PROVE  /\ Len(p.backends) \in Nat /\ DOMAIN p.backends = 1 .. Len(p.backends)
           /\ Listing(p) \in Seq(S)
           /\ Len(Listing(p)) = Len(p.backends)
           /\ DOMAIN Listing(p) = 1 .. Len(p.backends)
           /\ \A i \in 1 .. Len(p.backends) : Listing(p)[i] = ServerOf(p, p.backends[i])
<1> DEFINE n == Len(p.backends)
<1>1. /\ p.cell \in Seq(InnerBackend(S)) /\ p.backends \in Seq(Nat \ {0})
      /\ n \in Nat /\ DOMAIN p.backends = 1 .. n
      /\ \A i \in 1 .. n : p.backends[i] \in DOMAIN p.cell
  BY DEF PoolType, Handles
<1>2. \A b \in DOMAIN p.cell : ServerOf(p, b) \in S
  <2>1. \A b \in DOMAIN p.cell : p.cell[b] \in InnerBackend(S)
    BY <1>1
  <2> QED
    BY <2>1 DEF ServerOf, InnerBackend
<1>3. Listing(p) = [i \in 1 .. n |-> ServerOf(p, p.backends[i])]
  BY <1>1 DEF Listing
<1>4. Listing(p) \in [1 .. n -> S]
  BY <1>1, <1>2, <1>3
<1> HIDE DEF n
<1>5. Listing(p) \in Seq(S) /\ Len(Listing(p)) = n
  BY <1>1, <1>4
<1> QED
  BY <1>1, <1>3, <1>5 DEF n

(* add_server adds the server to the end of the listing, unless its answer *)
(* is the listing as it was, which names the server already.               *)
LEMMA AddLists ==
    ASSUME NEW S, NEW p \in PoolType(S), NEW s \in S,
           Handles(p) \subseteq DOMAIN p.cell
    PROVE  LET q == PoolAdd(p, s)
           IN  /\ q \in PoolType(S)
               /\ Handles(q) \subseteq DOMAIN q.cell
               /\ Listing(q) \in Seq(S)
               /\ Range(Listing(q)) = Range(Listing(p)) \cup {s}
               /\ IsPrefix(Listing(p), Listing(q))
               /\ Len(q.cell) = IF PoolContains(p, s) THEN Len(p.cell) ELSE Len(p.cell) + 1
<1> DEFINE q == PoolAdd(p, s)
           n == Len(p.backends)
<1>1. /\ p.cell \in Seq(InnerBackend(S)) /\ p.backends \in Seq(Nat \ {0})
      /\ n \in Nat /\ DOMAIN p.backends = 1 .. n
      /\ \A i \in 1 .. n : p.backends[i] \in DOMAIN p.cell
  BY DEF PoolType, Handles
<1>2. CASE PoolContains(p, s)
  <2>1. q = p
    BY <1>2 DEF PoolAdd
  <2>2. PICK i \in DOMAIN p.backends : p.cell[p.backends[i]] = NewBackend(s)
    BY <1>2 DEF PoolContains, Handles
  <2>3. s \in Range(Listing(p))
    BY <2>2 DEF Listing, Range, ServerOf, NewBackend
  <2>4. Listing(p) \in Seq(S)
    BY ListingFacts
  <2>5. IsPrefix(Listing(p), Listing(p))
    BY <2>4 DEF IsPrefix
  <2> QED
    BY <1>1, <1>2, <2>1, <2>3, <2>4, <2>5
<1>3. CASE ~PoolContains(p, s)
  <2>1. q = PushBackend(p, s)
    BY <1>3 DEF PoolAdd
  <2>2. /\ q \in PoolType(S)
        /\ Handles(q) \subseteq DOMAIN q.cell
        /\ \A b \in DOMAIN p.cell : q.cell[b] = p.cell[b]
        /\ Len(q.backends) = n + 1
        /\ \A i \in 1 .. n : q.backends[i] = p.backends[i]
        /\ ServerOf(q, q.backends[n + 1]) = s
    BY <2>1, PushFacts
  <2>3. Len(q.cell) = Len(p.cell) + 1
    BY <1>1, <2>1 DEF PushBackend
  <2> HIDE DEF q
  <2>4. /\ Listing(p) \in Seq(S) /\ Len(Listing(p)) = n /\ DOMAIN Listing(p) = 1 .. n
        /\ \A i \in 1 .. n : Listing(p)[i] = ServerOf(p, p.backends[i])
    BY ListingFacts
  <2>5. /\ Listing(q) \in Seq(S) /\ Len(Listing(q)) = n + 1 /\ DOMAIN Listing(q) = 1 .. n + 1
        /\ \A i \in 1 .. n + 1 : Listing(q)[i] = ServerOf(q, q.backends[i])
    BY <2>2, ListingFacts
  <2>6. \A i \in 1 .. n : i \in 1 .. n + 1 /\ Listing(q)[i] = Listing(p)[i]
    <3>1. SUFFICES ASSUME NEW i \in 1 .. n
                   PROVE  i \in 1 .. n + 1 /\ Listing(q)[i] = Listing(p)[i]
      OBVIOUS
    <3>2. i \in 1 .. n + 1
      BY <1>1
    <3>3. ServerOf(q, q.backends[i]) = ServerOf(p, p.backends[i])
      BY <1>1, <2>2 DEF ServerOf
    <3> QED
      BY <2>4, <2>5, <3>2, <3>3
  <2>7. n + 1 \in 1 .. n + 1 /\ Listing(q)[n + 1] = s
    BY <1>1, <2>2, <2>5
  <2>8. \A i \in 1 .. n + 1 : i \in 1 .. n \/ i = n + 1
    BY <1>1
  <2>9. Range(Listing(q)) = Range(Listing(p)) \cup {s}
    BY <2>4, <2>5, <2>6, <2>7, <2>8 DEF Range
  <2>10. IsPrefix(Listing(p), Listing(q))
    BY <1>1, <2>4, <2>5, <2>6 DEF IsPrefix
  <2> QED
    BY <1>3, <2>2, <2>3, <2>5, <2>9, <2>10 DEF q
<1> QED
  BY <1>2, <1>3

(* A mark does not show in the listing.                                    *)
LEMMA MarkLists ==
    ASSUME NEW S, NEW p \in PoolType(S), NEW b \in Handles(p), NEW st \in ServerState,
           Handles(p) \subseteq DOMAIN p.cell
    PROVE  LET q == MarkBackend(p, b, st)
           IN  /\ q \in PoolType(S)
               /\ Handles(q) \subseteq DOMAIN q.cell
               /\ Listing(q) = Listing(p)
               /\ Len(q.cell) = Len(p.cell)
<1> DEFINE c == [p.cell[b] EXCEPT !.state = st]
           q == WithCell(p, b, c)
<1>1. p.cell \in Seq(InnerBackend(S)) /\ p.cell[b] \in InnerBackend(S)
  BY DEF PoolType
<1>2. c \in InnerBackend(S) /\ c.server = p.cell[b].server
  BY <1>1 DEF InnerBackend
<1> HIDE DEF c
<1>3. /\ q \in PoolType(S) /\ DOMAIN q.cell = DOMAIN p.cell /\ q.backends = p.backends
      /\ \A d \in DOMAIN p.cell : ServerOf(q, d) = ServerOf(p, d)
  BY <1>2, WithCellFacts
<1>4. Len(q.cell) = Len(p.cell)
  BY <1>1, <1>3 DEF PoolType
<1> HIDE DEF q
<1>5. Handles(q) \subseteq DOMAIN q.cell /\ Listing(q) = Listing(p)
  BY <1>3 DEF Handles, Listing
<1> QED
  BY <1>3, <1>4, <1>5 DEF MarkBackend, q, c

-----------------------------------------------------------------------------
(* One lemma per action, or per group of actions with the same effect *)

(* The manager starts with an empty pool and no connection.                *)
LEMMA InitInv == Init => MgmtInv
<1> SUFFICES ASSUME Init PROVE MgmtInv
  OBVIOUS
<1>1. TypeOK
  <2>1. pool \in PoolType(Server) /\ Len(pool.cell) = 0
    BY DEF Init, EmptyPool, PoolType
  <2>2. backlog \in Seq(Conn) /\ IsInjective(backlog) /\ Range(backlog) = {}
    BY DEF Init, IsInjective, Range
  <2>3. Len(pool.cell) <= MaxBackends /\ overtaken \in 0 .. Many
    BY <2>1, MgmtAssumption DEF Init, Many
  <2>4. conn \in [Conn -> {"free", "backlog", "open", "body"}] /\ \A c \in Conn : conn[c] # "backlog"
    BY DEF Init
  <2>5. announced \subseteq Server /\ listing \in Seq(Server)
    BY DEF Init
  <2>6. state \in {"waiting", "polling", "ended"} /\ due \in BOOLEAN /\ flag \in BOOLEAN
    BY DEF Init
  <2> QED
    BY <2>1, <2>2, <2>3, <2>4, <2>5, <2>6 DEF TypeOK
<1>2. Handles(pool) = {} /\ Listing(pool) = <<>>
  BY DEF Init, EmptyPool, Handles, Listing
<1> QED
  BY <1>1, <1>2 DEF Init, MgmtInv, OvertakerYields, AnswerCurrent, ListedIsAnnounced, Range

(* A step that leaves the pool and the answers alone preserves what is     *)
(* said of them.                                                           *)
LEMMA ApiUnchanged ==
    ASSUME MgmtInv, UNCHANGED api
    PROVE  AnswerCurrent' /\ ListedIsAnnounced'
BY DEF MgmtInv, api, AnswerCurrent, ListedIsAnnounced, Listing, Handles, ServerOf, Range

(* A connection arrives.                                                   *)
LEMMA ArriveInv ==
    ASSUME MgmtInv, NEW c \in Conn, Arrive(c)
    PROVE  MgmtInv'
<1>1. TypeOK /\ OvertakerYields /\ UNCHANGED <<state, due, flag, overtaken, api>>
  BY DEF MgmtInv, Arrive
<1>2. c \notin Range(backlog)
  BY <1>1 DEF Arrive, TypeOK
<1>3. /\ backlog' \in Seq(Conn) /\ IsInjective(backlog')
      /\ Range(backlog') = Range(backlog) \cup {c}
  BY <1>1, <1>2, AppendFacts DEF Arrive, TypeOK
<1>4. conn' = [conn EXCEPT ![c] = "backlog"]
  BY DEF Arrive
<1>5. TypeOK'
  BY <1>1, <1>3, <1>4 DEF TypeOK, api
<1>6. OvertakerYields'
  BY <1>1 DEF OvertakerYields
<1> QED
  BY <1>1, <1>5, <1>6, ApiUnchanged DEF MgmtInv

(* for_each takes a connection: at most the second in a row if the timer   *)
(* is due, and then the next turn is the timer's.                          *)
LEMMA AcceptInv ==
    ASSUME MgmtInv, Accept
    PROVE  MgmtInv'
<1>1. TypeOK /\ OvertakerYields /\ UNCHANGED <<state, due, api>>
  BY DEF MgmtInv, Accept, Take
<1>2. backlog # <<>> /\ (~flag \/ ~due) /\ backlog' = Tail(backlog) /\ flag' = TRUE
  BY DEF Accept, Take, ConnectionFirst
<1>3. /\ Head(backlog) \in Conn /\ Head(backlog) \in Range(backlog)
      /\ backlog' \in Seq(Conn) /\ IsInjective(backlog')
      /\ Range(backlog') = Range(backlog) \ {Head(backlog)}
  BY <1>1, <1>2, TailFacts DEF TypeOK
<1>4. conn' = [conn EXCEPT ![Head(backlog)] = "open"]
  BY DEF Accept, Take
<1>5. overtaken' = IF due THEN 1 ELSE 0
  BY <1>1, <1>2 DEF OvertakerYields, Accept, Take, Many
<1>6. TypeOK'
  BY <1>1, <1>2, <1>3, <1>4, <1>5 DEF TypeOK, api, Many
<1>7. OvertakerYields'
  BY <1>1, <1>2, <1>5 DEF OvertakerYields
<1> QED
  BY <1>1, <1>6, <1>7, ApiUnchanged DEF MgmtInv

(* The timer and the turns of the loop that take no connection.            *)
LEMMA LoopInv ==
    ASSUME MgmtInv, Elapse \/ Wake \/ Tick \/ Park
    PROVE  MgmtInv'
<1>1. TypeOK /\ OvertakerYields /\ UNCHANGED <<backlog, conn, api>>
  BY DEF MgmtInv, Elapse, Wake, Tick, Park
<1>2. TypeOK'
  <2>1. state' \in {"waiting", "polling", "ended"} /\ overtaken' \in 0 .. Many
    BY <1>1 DEF TypeOK, Elapse, Wake, Tick, Park, Many
  <2>2. due' \in BOOLEAN /\ flag' \in BOOLEAN
    BY <1>1 DEF TypeOK, Elapse, Wake, Tick, Park
  <2> QED
    BY <1>1, <2>1, <2>2 DEF TypeOK, api
<1>3. OvertakerYields'
  BY <1>1 DEF TypeOK, OvertakerYields, Elapse, Wake, Tick, Park
<1> QED
  BY <1>1, <1>2, <1>3, ApiUnchanged DEF MgmtInv

(* The end of the process, by the loop or by a body.                       *)
LEMMA EndInv ==
    ASSUME MgmtInv, End
    PROVE  MgmtInv'
<1>1. TypeOK /\ OvertakerYields /\ UNCHANGED <<due, flag, overtaken, api>>
  BY DEF MgmtInv, End
<1>2. Range(backlog') = {} /\ backlog' \in Seq(Conn) /\ IsInjective(backlog')
  BY DEF End, Range, IsInjective
<1>3. TypeOK'
  BY <1>1, <1>2 DEF TypeOK, api, End
<1>4. OvertakerYields'
  BY <1>1 DEF OvertakerYields
<1> QED
  BY <1>1, <1>3, <1>4, ApiUnchanged DEF MgmtInv

(* An accepted connection moves between its requests and a body, or goes.  *)
LEMMA ConnectionMoves ==
    ASSUME MgmtInv, NEW c \in Conn, NEW st \in {"free", "open", "body"},
           conn[c] \in {"open", "body"}, conn' = [conn EXCEPT ![c] = st], UNCHANGED loop
    PROVE  /\ conn' \in [Conn -> {"free", "backlog", "open", "body"}]
           /\ \A d \in Conn : conn'[d] = "backlog" <=> d \in Range(backlog)
           /\ OvertakerYields'
BY DEF MgmtInv, TypeOK, loop, OvertakerYields

(* A request that only moves its connection preserves the invariant.       *)
LEMMA OnlyMovesInv ==
    ASSUME MgmtInv, NEW c \in Conn, Close(c) \/ PostServers(c) \/ InvalidJson(c)
    PROVE  MgmtInv'
<1>1. /\ conn[c] \in {"open", "body"} /\ UNCHANGED <<loop, api>>
      /\ \E st \in {"free", "open", "body"} : conn' = [conn EXCEPT ![c] = st]
  BY DEF Close, PostServers, InvalidJson, Serving
<1>2. /\ conn' \in [Conn -> {"free", "backlog", "open", "body"}]
      /\ \A d \in Conn : conn'[d] = "backlog" <=> d \in Range(backlog)
      /\ OvertakerYields'
  BY <1>1, ConnectionMoves
<1>3. TypeOK'
  BY <1>1, <1>2 DEF MgmtInv, TypeOK, loop, api
<1> QED
  BY <1>1, <1>2, <1>3, ApiUnchanged DEF MgmtInv

(* GET /servers answers what the pool holds.                               *)
LEMMA GetServersInv ==
    ASSUME MgmtInv, NEW c \in Conn, GetServers(c)
    PROVE  MgmtInv' /\ listing' = listing
<1>1. listing' = listing /\ UNCHANGED <<loop, conn, pool, announced>>
  BY DEF GetServers, MgmtInv, AnswerCurrent
<1>2. TypeOK' /\ OvertakerYields'
  BY <1>1 DEF MgmtInv, TypeOK, OvertakerYields, loop
<1> QED
  BY <1>1, <1>2, ApiUnchanged DEF MgmtInv, api

(* add_server extends pool, answer and announcement by the same server.    *)
LEMMA AddServerInv ==
    ASSUME MgmtInv, NEW c \in Conn, NEW s \in Server, add_server(c, s)
    PROVE  MgmtInv' /\ IsPrefix(listing, listing')
<1>1. /\ TypeOK /\ AnswerCurrent /\ ListedIsAnnounced /\ pool \in PoolType(Server)
      /\ Len(pool.cell) \in Nat
  BY DEF MgmtInv, TypeOK, PoolType
<1>2. /\ conn[c] = "body" /\ conn' = [conn EXCEPT ![c] = "open"] /\ UNCHANGED loop
      /\ pool' = PoolAdd(pool, s) /\ listing' = Listing(pool')
      /\ announced' = announced \cup {s}
      /\ PoolContains(pool, s) \/ Len(pool.cell) < MaxBackends
  BY DEF add_server, Add, Serving
<1>3. /\ pool' \in PoolType(Server)
      /\ Handles(pool') \subseteq DOMAIN pool'.cell
      /\ listing' \in Seq(Server)
      /\ Range(listing') = Range(listing) \cup {s}
      /\ IsPrefix(listing, listing')
      /\ PoolContains(pool, s) => Len(pool'.cell) = Len(pool.cell)
      /\ ~PoolContains(pool, s) => Len(pool'.cell) = Len(pool.cell) + 1
  <2>1. Handles(pool) \subseteq DOMAIN pool.cell /\ listing = Listing(pool)
    BY <1>1 DEF AnswerCurrent
  <2> QED
    BY ONLY <1>1, <1>2, <2>1, s \in Server, AddLists
<1>4. Len(pool'.cell) <= MaxBackends
  BY <1>1, <1>2, <1>3, MgmtAssumption DEF TypeOK
<1>5. /\ conn' \in [Conn -> {"free", "backlog", "open", "body"}]
      /\ \A d \in Conn : conn'[d] = "backlog" <=> d \in Range(backlog)
      /\ OvertakerYields'
  BY <1>2, ConnectionMoves
<1>6. TypeOK'
  BY <1>1, <1>2, <1>3, <1>4, <1>5 DEF TypeOK, loop
<1>7. AnswerCurrent' /\ ListedIsAnnounced'
  BY <1>1, <1>2, <1>3 DEF AnswerCurrent, ListedIsAnnounced
<1> QED
  BY <1>3, <1>5, <1>6, <1>7 DEF MgmtInv

(* A mark of the health checker preserves the invariant.                   *)
LEMMA MarkInv ==
    ASSUME MgmtInv, NEW b \in Handles(pool), NEW st \in ServerState, Mark(b, st)
    PROVE  MgmtInv' /\ listing' = listing
<1>1. /\ TypeOK /\ AnswerCurrent /\ pool \in PoolType(Server)
      /\ pool' = MarkBackend(pool, b, st) /\ UNCHANGED <<loop, conn, announced, listing>>
  BY DEF MgmtInv, TypeOK, Mark
<1>2. /\ pool' \in PoolType(Server)
      /\ Handles(pool') \subseteq DOMAIN pool'.cell
      /\ Listing(pool') = Listing(pool)
      /\ Len(pool'.cell) = Len(pool.cell)
  BY <1>1, MarkLists DEF AnswerCurrent
<1>3. TypeOK' /\ OvertakerYields'
  BY <1>1, <1>2 DEF MgmtInv, TypeOK, OvertakerYields, loop
<1>4. AnswerCurrent' /\ ListedIsAnnounced'
  BY <1>1, <1>2 DEF MgmtInv, AnswerCurrent, ListedIsAnnounced
<1> QED
  BY <1>1, <1>3, <1>4 DEF MgmtInv

(* A step that changes nothing preserves the invariant.                    *)
LEMMA StutterInv ==
    ASSUME MgmtInv, UNCHANGED vars
    PROVE  MgmtInv'
<1>1. UNCHANGED <<loop, conn, api>>
  BY DEF vars
<1>2. TypeOK' /\ OvertakerYields'
  BY <1>1 DEF MgmtInv, TypeOK, OvertakerYields, loop, api
<1> QED
  BY <1>1, <1>2, ApiUnchanged DEF MgmtInv

(* Every step preserves the invariant and extends the last answer.         *)
LEMMA StepInv ==
    ASSUME MgmtInv, [Next]_vars
    PROVE  MgmtInv' /\ IsPrefix(listing, listing')
<1>1. listing \in Seq(Server)
  BY DEF MgmtInv, TypeOK
<1>2. ASSUME listing' = listing PROVE IsPrefix(listing, listing')
  BY <1>1, <1>2 DEF IsPrefix
<1>3. CASE UNCHANGED vars
  BY <1>2, <1>3, StutterInv DEF vars, api
<1>4. CASE Loop \/ LoopFails \/ Elapse
  <2>1. MgmtInv'
    BY <1>4, AcceptInv, LoopInv, EndInv DEF Loop, LoopFails
  <2>2. listing' = listing
    BY <1>4 DEF Loop, LoopFails, Elapse, Wake, Accept, Take, Tick, Park, End, api
  <2> QED
    BY <1>2, <2>1, <2>2
<1>5. ASSUME NEW c \in Conn,
             \/ Arrive(c) \/ Close(c) \/ PostServers(c) \/ InvalidJson(c) \/ InvalidUrl(c)
      PROVE  MgmtInv' /\ IsPrefix(listing, listing')
  <2>1. MgmtInv'
    BY <1>5, ArriveInv, OnlyMovesInv, EndInv DEF InvalidUrl
  <2>2. listing' = listing
    BY <1>5 DEF Arrive, Close, PostServers, InvalidJson, InvalidUrl, End, api
  <2> QED
    BY <1>2, <2>1, <2>2
<1>6. ASSUME NEW c \in Conn, Index(c) \/ OtherRoute(c)
      PROVE  UNCHANGED vars
  BY <1>6 DEF Index, OtherRoute
<1>7. ASSUME NEW b \in Handles(pool), NEW st \in ServerState, Mark(b, st)
      PROVE  MgmtInv' /\ IsPrefix(listing, listing')
  BY <1>2, <1>7, MarkInv
<1> QED
  BY <1>2, <1>3, <1>4, <1>5, <1>6, <1>7, GetServersInv, AddServerInv DEF Next

-----------------------------------------------------------------------------
(* The inductive invariant of the event loop and the API.                  *)
THEOREM MgmtInvariance == Spec => []MgmtInv
<1>1. MgmtInv /\ [Next]_vars => MgmtInv'
  BY StepInv
<1> QED
  BY <1>1, InitInv, PTL DEF Spec

(* However many connections are waiting, at most one is accepted between   *)
(* the moment the health timer elapses and its tick.                       *)
THEOREM TicksOvertakenOnce == Spec => []AtMostOneOvertakes
<1>1. MgmtInv => AtMostOneOvertakes
  BY DEF MgmtInv, OvertakerYields, AtMostOneOvertakes
<1> QED
  BY <1>1, MgmtInvariance, PTL

(* The last answer names the servers that were announced, and no others.   *)
THEOREM AnswersAreAnnounced == Spec => []ListedIsAnnounced
<1>1. MgmtInv => ListedIsAnnounced
  BY DEF MgmtInv
<1> QED
  BY <1>1, MgmtInvariance, PTL

(* An answer extends the answer before it.                                 *)
THEOREM AnswersExtend == Spec => ListingsExtend
<1>1. MgmtInv /\ [Next]_vars => [IsPrefix(listing, listing')]_vars
  BY StepInv
<1> QED
  BY <1>1, MgmtInvariance, PTL DEF Spec, ListingsExtend
=============================================================================
