----------------------------- MODULE PoolProofs -----------------------------
(***************************************************************************)
(* Proofs about Pool, for every set of servers and requests and every      *)
(* bound.  They are about Spec, the worker as weldr runs it: Pool::remove, *)
(* which weldr never calls, is not part of it.                             *)
(***************************************************************************)
EXTENDS Pool, PoolOpsProofs, FiniteSetTheorems, SequenceTheorems

-----------------------------------------------------------------------------
(* One lemma per action: it preserves the inductive invariant.             *)

(* What TypeOK says of the Vec, unfolded once.                             *)
LEMMA TypeFacts ==
    ASSUME TypeOK
    PROVE  /\ pool \in PoolType(Server)
           /\ pool.cell \in Seq(InnerBackend(Server))
           /\ pool.backends \in Seq(Nat \ {0})
           /\ pool.last_used \in Nat
           /\ Len(pool.backends) \in Nat
           /\ DOMAIN pool.backends = 1 .. Len(pool.backends)
           /\ \A i \in DOMAIN pool.backends : pool.backends[i] \in DOMAIN pool.cell
           /\ 0 \notin DOMAIN pool.cell
BY DEF TypeOK, PoolType, Handles

(* Pool::request up to the start of the loop preserves the invariant.      *)
LEMMA SendRequestInv ==
    ASSUME PoolInv, NEW r \in Request, SendRequest(r)
    PROVE  PoolInv'
<1> USE DEF PoolInv
<1>1. pool' = pool /\ target' = target /\ ordered_down' = ordered_down /\ turn' = turn
  BY DEF SendRequest
<1>2. TypeOK'
  <2>1. phase' \in [Request -> Phase] /\ start' \in Nat
    BY TypeFacts DEF SendRequest, TypeOK, Phase
  <2> QED
    BY <1>1, <2>1 DEF TypeOK
<1>3. \A q \in Request : q # r => phase'[q] # "choosing"
  BY DEF SendRequest, Borrowed, TypeOK
<1>4. CursorInRange' /\ VisitedDown'
  <2>1. CASE pool.backends = <<>>
    <3>1. ~Borrowed'
      BY <1>3, <2>1 DEF SendRequest, Borrowed, TypeOK
    <3> QED
      BY <1>1, <3>1 DEF CursorInRange, VisitedDown
  <2>2. CASE pool.backends # <<>>
    <3>1. start' = pool.last_used /\ pool.last_used < Len(pool.backends)
      BY <2>2 DEF SendRequest, CursorInRange
    <3>2. Visited' = {}
      BY <1>1, <3>1, TypeFacts DEF Visited
    <3> QED
      BY <1>1, <2>2, <3>1, <3>2 DEF CursorInRange, VisitedDown
  <2> QED
    BY <2>1, <2>2
<1>5. OneBorrower'
  BY <1>3 DEF OneBorrower
<1>6. SentHasTarget'
  BY <1>1 DEF SentHasTarget, SendRequest, TypeOK
<1>7. OrderedAreDown'
  BY <1>1 DEF OrderedAreDown
<1> QED
  BY <1>2, <1>4, <1>5, <1>6, <1>7

(* What one iteration of the loop of get does to the cursor.               *)
LEMMA GetStepFacts ==
    ASSUME PoolInv, NEW r \in Request, GetStep(r)
    PROVE  LET n == Len(pool.backends)
               i == NextIndex(pool)
               b == BackendAt(pool, i)
           IN  /\ n \in Nat \ {0} /\ start \in 0 .. n - 1
               /\ pool.last_used \in 0 .. n - 1
               /\ i = IF pool.last_used + 1 = n THEN 0 ELSE pool.last_used + 1
               /\ i \in 0 .. n - 1
               /\ b \in DOMAIN pool.cell /\ b \in Handles(pool) /\ b # 0
               /\ pool'.cell = pool.cell
               /\ pool'.backends = pool.backends
               /\ pool'.last_used = i
               /\ pool' \in PoolType(Server)
               /\ \A q \in Request : q # r => phase[q] # "choosing" /\ phase'[q] = phase[q]
<1>1. TypeOK /\ CursorInRange /\ OneBorrower /\ phase[r] = "choosing" /\ Borrowed
  BY DEF PoolInv, GetStep, Borrowed
<1>2. /\ Len(pool.backends) \in Nat \ {0}
      /\ start \in 0 .. Len(pool.backends) - 1
      /\ pool.last_used \in 0 .. Len(pool.backends) - 1
  BY <1>1, TypeFacts DEF CursorInRange, TypeOK
<1>3. NextIndex(pool) = IF pool.last_used + 1 = Len(pool.backends)
                        THEN 0 ELSE pool.last_used + 1
  <2>1. pool.last_used \in Nat /\ pool.last_used < Len(pool.backends)
    BY <1>2
  <2>2. (pool.last_used + 1) % Len(pool.backends)
          = IF pool.last_used + 1 = Len(pool.backends) THEN 0 ELSE pool.last_used + 1
    BY ONLY <1>2, <2>1, NextWraps
  <2> QED
    BY <2>2 DEF NextIndex
<1>4. NextIndex(pool) \in 0 .. Len(pool.backends) - 1
  BY <1>2, <1>3
<1>5. /\ BackendAt(pool, NextIndex(pool)) \in Handles(pool)
      /\ BackendAt(pool, NextIndex(pool)) \in DOMAIN pool.cell
      /\ BackendAt(pool, NextIndex(pool)) # 0
  <2>1. NextIndex(pool) + 1 \in DOMAIN pool.backends
    BY <1>1, <1>2, <1>4, TypeFacts
  <2> QED
    BY <1>1, <2>1, TypeFacts DEF BackendAt, Handles
<1>6. /\ pool'.cell = pool.cell
      /\ pool'.backends = pool.backends
      /\ pool'.last_used = NextIndex(pool)
      /\ pool' = [cell |-> pool.cell, backends |-> pool.backends,
                  last_used |-> NextIndex(pool)]
  BY DEF GetStep, MoveCursor
<1>7. pool' \in PoolType(Server)
  BY <1>1, <1>2, <1>4, <1>6, TypeFacts DEF PoolType
<1>8. \A q \in Request : q # r => phase[q] # "choosing" /\ phase'[q] = phase[q]
  BY <1>1 DEF GetStep, OneBorrower, TypeOK
<1> QED
  BY <1>2, <1>3, <1>4, <1>5, <1>6, <1>7, <1>8

(* An iteration of the loop preserves the invariant: a backend it passes   *)
(* over is down, and it stops when the cursor is back at start.            *)
LEMMA GetStepInv ==
    ASSUME PoolInv, NEW r \in Request, GetStep(r)
    PROVE  PoolInv'
<1> DEFINE i == NextIndex(pool)
           b == BackendAt(pool, i)
           n == Len(pool.backends)
<1>1. /\ n \in Nat \ {0} /\ start \in 0 .. n - 1
      /\ pool.last_used \in 0 .. n - 1
      /\ i = IF pool.last_used + 1 = n THEN 0 ELSE pool.last_used + 1
      /\ i \in 0 .. n - 1
      /\ b \in DOMAIN pool.cell /\ b \in Handles(pool) /\ b # 0
      /\ pool'.cell = pool.cell
      /\ pool'.backends = pool.backends
      /\ pool'.last_used = i
      /\ pool' \in PoolType(Server)
      /\ \A q \in Request : q # r => phase[q] # "choosing" /\ phase'[q] = phase[q]
  BY GetStepFacts
<1>2. TypeOK /\ VisitedDown /\ CursorInRange /\ SentHasTarget /\ OrderedAreDown
  BY DEF PoolInv
<1>3. /\ start' = start /\ ordered_down' = ordered_down
      /\ phase[r] = "choosing" /\ Borrowed
      /\ \/ /\ IsDown(pool, b)
            /\ phase' = [phase EXCEPT ![r] = IF start = i THEN "exhausted" ELSE @]
            /\ target' = target /\ turn' = turn
         \/ /\ ~IsDown(pool, b)
            /\ phase' = [phase EXCEPT ![r] = "sent"]
            /\ target' = [target EXCEPT ![r] = b]
            /\ turn' = IF b \in turn THEN {b} ELSE turn \cup {b}
  BY DEF GetStep, Borrowed
<1> HIDE DEF i, b
<1>4. TypeOK'
  <2>1. phase' \in [Request -> Phase]
    BY <1>2, <1>3 DEF TypeOK, Phase
  <2>2. target' \in [Request -> {0} \cup DOMAIN pool'.cell] /\ turn' \subseteq DOMAIN pool'.cell
    BY <1>1, <1>2, <1>3 DEF TypeOK
  <2>3. Handles(pool') \subseteq DOMAIN pool'.cell
    BY <1>1, <1>2 DEF TypeOK, Handles
  <2> QED
    BY <1>1, <1>2, <1>3, <2>1, <2>2, <2>3 DEF TypeOK
<1>5. CursorInRange'
  BY <1>1, <1>3 DEF CursorInRange
<1>6. VisitedDown'
  <2>1. SUFFICES ASSUME Borrowed', NEW k \in Visited'
                 PROVE  IsDown(pool, BackendAt(pool, k))
    BY <1>1 DEF VisitedDown, IsDown, BackendAt
  <2>2. phase'[r] = "choosing"
    BY <1>1, <2>1 DEF Borrowed
  <2>3. IsDown(pool, b) /\ start # i
    BY <1>2, <1>3, <2>2 DEF TypeOK
  <2>4. k \in 0 .. n - 1 /\ (k = i \/ k \in Visited)
    BY <1>1, <1>3, <2>1, <2>3 DEF Visited
  <2> QED
    BY <1>2, <1>3, <2>3, <2>4 DEF VisitedDown, b
<1>7. OneBorrower'
  BY <1>1 DEF OneBorrower
<1>8. SentHasTarget'
  BY <1>1, <1>2, <1>3 DEF SentHasTarget, TypeOK
<1>9. OrderedAreDown'
  BY <1>1, <1>2, <1>3 DEF OrderedAreDown, HasDuplicate, Handles, ServerOf, IsDown
<1> QED
  BY <1>4, <1>5, <1>6, <1>7, <1>8, <1>9 DEF PoolInv

(* The steps taken while no loop runs leave none running.                  *)
LEMMA Idle ==
    ASSUME TypeOK, ~Borrowed, phase' = phase
    PROVE  ~Borrowed' /\ OneBorrower'
BY DEF Borrowed, OneBorrower

(* A write to one cell that keeps its server keeps the shape of the pool.  *)
LEMMA WriteKeepsShape ==
    ASSUME TypeOK, NEW b \in DOMAIN pool.cell, NEW c \in InnerBackend(Server),
           c.server = pool.cell[b].server, pool' = WithCell(pool, b, c)
    PROVE  /\ pool' \in PoolType(Server)
           /\ DOMAIN pool'.cell = DOMAIN pool.cell
           /\ pool'.backends = pool.backends
           /\ pool'.last_used = pool.last_used
           /\ Handles(pool') = Handles(pool)
           /\ Handles(pool') \subseteq DOMAIN pool'.cell
           /\ \A d \in DOMAIN pool.cell : 
                 /\ ServerOf(pool', d) = ServerOf(pool, d)
                 /\ pool'.cell[d] = IF d = b THEN c ELSE pool.cell[d]
           /\ HasDuplicate(pool') = HasDuplicate(pool)
<1>1. /\ pool' \in PoolType(Server)
      /\ DOMAIN pool'.cell = DOMAIN pool.cell
      /\ pool'.backends = pool.backends
      /\ pool'.last_used = pool.last_used
      /\ \A d \in DOMAIN pool.cell : 
            /\ ServerOf(pool', d) = ServerOf(pool, d)
            /\ pool'.cell[d] = IF d = b THEN c ELSE pool.cell[d]
  BY TypeFacts, WithCellFacts
<1>2. /\ Handles(pool') = Handles(pool)
      /\ Handles(pool') \subseteq DOMAIN pool'.cell
  BY <1>1 DEF Handles, TypeOK
<1>3. HasDuplicate(pool') = HasDuplicate(pool)
  BY <1>1, TypeFacts DEF HasDuplicate
<1> QED
  BY <1>1, <1>2, <1>3

(* The answer of a request preserves the invariant.                        *)
LEMMA RespondInv ==
    ASSUME PoolInv, NEW r \in Request, NEW o \in Outcome, Respond(r, o)
    PROVE  PoolInv'
<1>1. TypeOK /\ CursorInRange /\ SentHasTarget /\ OrderedAreDown
  BY DEF PoolInv
<1>2. /\ ~Borrowed /\ phase[r] = "sent"
      /\ phase' = [phase EXCEPT ![r] = o]
      /\ target' = target /\ start' = start /\ turn' = turn
      /\ ordered_down' = ordered_down
  BY DEF Respond
<1> DEFINE b == target[r]
<1>3. b \in DOMAIN pool.cell
  BY <1>1, <1>2 DEF SentHasTarget, TypeOK
<1>4. pool.cell[b] \in InnerBackend(Server)
  BY <1>1, <1>3, TypeFacts
<1> HIDE DEF b
<1>5. PICK c \in InnerBackend(Server) :
        /\ c.server = pool.cell[b].server /\ c.state = pool.cell[b].state
        /\ pool' = WithCell(pool, b, c)
  <2>1. CASE o = "ok"
    <3>1. [pool.cell[b] EXCEPT !.success = @ + 1] \in InnerBackend(Server)
      BY <1>4 DEF InnerBackend
    <3> QED
      BY <1>4, <2>1, <3>1 DEF Respond, IncSuccess, InnerBackend, b
  <2>2. CASE o # "ok"
    <3>1. [pool.cell[b] EXCEPT !.failure = @ + 1] \in InnerBackend(Server)
      BY <1>4 DEF InnerBackend
    <3> QED
      BY <1>4, <2>2, <3>1 DEF Respond, IncFailure, InnerBackend, b
  <2> QED
    BY <2>1, <2>2
<1>6. /\ pool' \in PoolType(Server)
      /\ DOMAIN pool'.cell = DOMAIN pool.cell
      /\ pool'.backends = pool.backends
      /\ pool'.last_used = pool.last_used
      /\ Handles(pool') = Handles(pool)
      /\ Handles(pool') \subseteq DOMAIN pool'.cell
      /\ \A d \in DOMAIN pool.cell : 
            /\ ServerOf(pool', d) = ServerOf(pool, d)
            /\ pool'.cell[d] = IF d = b THEN c ELSE pool.cell[d]
      /\ HasDuplicate(pool') = HasDuplicate(pool)
  BY <1>1, <1>3, <1>5, WriteKeepsShape
<1>7. ~Borrowed' /\ OneBorrower'
  BY <1>1, <1>2 DEF Borrowed, OneBorrower, Outcome, TypeOK
<1>8. phase' \in [Request -> Phase] /\ SentHasTarget'
  BY <1>1, <1>2 DEF SentHasTarget, Outcome, Phase, TypeOK
<1>9. TypeOK'
  BY <1>1, <1>2, <1>6, <1>8 DEF TypeOK
<1>10. CursorInRange' /\ VisitedDown'
  BY <1>1, <1>6, <1>7 DEF CursorInRange, VisitedDown
<1>11. OrderedAreDown'
  <2>1. \A d \in DOMAIN pool.cell : IsDown(pool', d) <=> IsDown(pool, d)
    BY <1>5, <1>6 DEF IsDown
  <2> QED
    BY <1>1, <1>2, <1>6, <2>1 DEF OrderedAreDown, TypeOK
<1> QED
  BY <1>7, <1>8, <1>9, <1>10, <1>11 DEF PoolInv

(* A handle the manager marks: the two handlers of worker.rs that find a   *)
(* backend and mark it preserve everything but what is said of states.     *)
LEMMA MarkServerFacts ==
    ASSUME PoolInv, NEW s \in Server, NEW st \in ServerState, MarkServer(s, st)
    PROVE  LET b == PoolFind(pool, s)
           IN  /\ TypeOK' \/ ordered_down' \notin SUBSET Server
               /\ CursorInRange' /\ VisitedDown' /\ OneBorrower' /\ SentHasTarget'
               /\ b \in Handles(pool) /\ ServerOf(pool, b) = s
               /\ Handles(pool') = Handles(pool)
               /\ HasDuplicate(pool') = HasDuplicate(pool)
               /\ \A d \in Handles(pool) :
                    /\ ServerOf(pool', d) = ServerOf(pool, d)
                    /\ pool'.cell[d].state = IF d = b THEN st ELSE pool.cell[d].state
<1> DEFINE b == PoolFind(pool, s)
           c == [pool.cell[b] EXCEPT !.state = st]
<1>1. TypeOK /\ CursorInRange /\ SentHasTarget /\ Handles(pool) \subseteq DOMAIN pool.cell
  BY DEF PoolInv, TypeOK
<1>2. /\ ~Borrowed /\ Positions(pool, s) # {}
      /\ pool' = WithCell(pool, b, c)
      /\ phase' = phase /\ target' = target /\ start' = start /\ turn' = {}
  BY DEF MarkServer, MarkBackend
<1>3. b \in Handles(pool) /\ b \in DOMAIN pool.cell /\ ServerOf(pool, b) = s
  BY <1>1, <1>2, TypeFacts, FindFacts
<1> HIDE DEF b
<1>4. pool.cell[b] \in InnerBackend(Server)
  BY <1>1, <1>3, TypeFacts
<1>5. c \in InnerBackend(Server) /\ c.server = pool.cell[b].server /\ c.state = st
  BY <1>4 DEF InnerBackend
<1> HIDE DEF c
<1>6. /\ pool' \in PoolType(Server)
      /\ DOMAIN pool'.cell = DOMAIN pool.cell
      /\ pool'.backends = pool.backends
      /\ pool'.last_used = pool.last_used
      /\ Handles(pool') = Handles(pool)
      /\ Handles(pool') \subseteq DOMAIN pool'.cell
      /\ \A d \in DOMAIN pool.cell :
            /\ ServerOf(pool', d) = ServerOf(pool, d)
            /\ pool'.cell[d] = IF d = b THEN c ELSE pool.cell[d]
      /\ HasDuplicate(pool') = HasDuplicate(pool)
  BY <1>1, <1>2, <1>3, <1>5, WriteKeepsShape
<1>7. ~Borrowed' /\ OneBorrower'
  BY <1>1, <1>2, Idle
<1>8. TypeOK' \/ ordered_down' \notin SUBSET Server
  BY <1>1, <1>2, <1>6 DEF TypeOK
<1>9. CursorInRange' /\ VisitedDown' /\ SentHasTarget'
  BY <1>1, <1>2, <1>6, <1>7 DEF CursorInRange, VisitedDown, SentHasTarget
<1> QED
  BY <1>1, <1>3, <1>5, <1>6, <1>7, <1>8, <1>9 DEF b

(* mark_server_down preserves the invariant: with one backend per server,  *)
(* the backend find() returns is the only one of that server.              *)
LEMMA MarkServerDownInv ==
    ASSUME PoolInv, NEW s \in Server, MarkServerDown(s)
    PROVE  PoolInv'
<1> DEFINE b == PoolFind(pool, s)
<1>1. /\ MarkServer(s, "Down") /\ ordered_down' = ordered_down \cup {s}
      /\ OrderedAreDown /\ TypeOK
  BY DEF MarkServerDown, PoolInv
<1>2. /\ TypeOK' \/ ordered_down' \notin SUBSET Server
      /\ CursorInRange' /\ VisitedDown' /\ OneBorrower' /\ SentHasTarget'
      /\ b \in Handles(pool) /\ ServerOf(pool, b) = s
      /\ Handles(pool') = Handles(pool)
      /\ HasDuplicate(pool') = HasDuplicate(pool)
      /\ \A d \in Handles(pool) :
            /\ ServerOf(pool', d) = ServerOf(pool, d)
            /\ pool'.cell[d].state = IF d = b THEN "Down" ELSE pool.cell[d].state
  BY <1>1, MarkServerFacts DEF ServerState
<1> HIDE DEF b
<1>3. ordered_down' \subseteq Server
  BY <1>1 DEF TypeOK
<1>4. OrderedAreDown'
  <2>1. SUFFICES ASSUME ~HasDuplicate(pool), NEW d \in Handles(pool),
                        ServerOf(pool, d) \in ordered_down'
                 PROVE  pool'.cell[d].state = "Down"
    BY <1>2 DEF OrderedAreDown, IsDown
  <2>2. CASE ServerOf(pool, d) = s
    <3>1. d = b
      BY <1>2, <2>1, <2>2 DEF HasDuplicate, Handles
    <3> QED
      BY <1>2, <3>1
  <2>3. CASE ServerOf(pool, d) # s
    BY <1>1, <1>2, <2>1, <2>3 DEF OrderedAreDown, IsDown
  <2> QED
    BY <2>2, <2>3
<1> QED
  BY <1>2, <1>3, <1>4 DEF PoolInv

(* mark_server_active preserves the invariant.                             *)
LEMMA MarkServerActiveInv ==
    ASSUME PoolInv, NEW s \in Server, MarkServerActive(s)
    PROVE  PoolInv'
<1> DEFINE b == PoolFind(pool, s)
<1>1. /\ MarkServer(s, "Active") /\ ordered_down' = ordered_down \ {s}
      /\ OrderedAreDown /\ TypeOK
  BY DEF MarkServerActive, PoolInv
<1>2. /\ TypeOK' \/ ordered_down' \notin SUBSET Server
      /\ CursorInRange' /\ VisitedDown' /\ OneBorrower' /\ SentHasTarget'
      /\ b \in Handles(pool) /\ ServerOf(pool, b) = s
      /\ Handles(pool') = Handles(pool)
      /\ HasDuplicate(pool') = HasDuplicate(pool)
      /\ \A d \in Handles(pool) :
            /\ ServerOf(pool', d) = ServerOf(pool, d)
            /\ pool'.cell[d].state = IF d = b THEN "Active" ELSE pool.cell[d].state
  BY <1>1, MarkServerFacts DEF ServerState
<1> HIDE DEF b
<1>3. ordered_down' \subseteq Server
  BY <1>1 DEF TypeOK
<1>4. OrderedAreDown'
  BY <1>1, <1>2 DEF OrderedAreDown, IsDown
<1> QED
  BY <1>2, <1>3, <1>4 DEF PoolInv

(* add_server preserves the invariant: a second backend of a server makes  *)
(* the pool one with a duplicate, a first one is not among those ordered   *)
(* down any more.                                                          *)
LEMMA AddServerInv ==
    ASSUME PoolInv, NEW s \in Server, AddServer(s)
    PROVE  PoolInv'
<1>1. /\ TypeOK /\ CursorInRange /\ SentHasTarget /\ OrderedAreDown
      /\ Handles(pool) \subseteq DOMAIN pool.cell
  BY DEF PoolInv, TypeOK
<1>2. /\ ~Borrowed /\ pool' = PoolAdd(pool, s) /\ turn' = {}
      /\ ordered_down' = ordered_down \ {s}
      /\ phase' = phase /\ target' = target /\ start' = start
  BY DEF AddServer
<1>3. ~Borrowed' /\ OneBorrower'
  BY <1>1, <1>2, Idle
<1>4. VisitedDown' /\ SentHasTarget'
  BY <1>1, <1>2, <1>3 DEF VisitedDown, SentHasTarget
<1>5. CASE pool' = pool
  <2>1. TypeOK' /\ CursorInRange'
    BY <1>1, <1>2, <1>3, <1>5 DEF TypeOK, CursorInRange
  <2>2. OrderedAreDown'
    BY <1>1, <1>2, <1>5 DEF OrderedAreDown
  <2> QED
    BY <1>3, <1>4, <2>1, <2>2 DEF PoolInv
<1>6. CASE pool' = PushBackend(pool, s)
  <2> DEFINE n == Len(pool.backends)
  <2>0. pool \in PoolType(Server)
    BY <1>1, TypeFacts
  <2>1. /\ pool' \in PoolType(Server)
        /\ Handles(pool') \subseteq DOMAIN pool'.cell
        /\ DOMAIN pool.cell \subseteq DOMAIN pool'.cell
        /\ \A b \in DOMAIN pool.cell : pool'.cell[b] = pool.cell[b]
        /\ Len(pool'.backends) = n + 1
        /\ \A i \in 1 .. n : pool'.backends[i] = pool.backends[i]
        /\ ServerOf(pool', pool'.backends[n + 1]) = s
        /\ pool'.last_used = pool.last_used
    BY ONLY <1>1, <1>6, <2>0, s \in Server, PushFacts
  <2>2. TypeOK'
    BY <1>1, <1>2, <2>1 DEF TypeOK
  <2>3. CursorInRange'
    BY <1>1, <1>3, <2>1, TypeFacts DEF CursorInRange
  <2>4. /\ n \in Nat /\ DOMAIN pool.backends = 1 .. n
        /\ DOMAIN pool'.backends = 1 .. n + 1
    BY <1>1, <2>1, TypeFacts DEF PoolType
  <2>5. OrderedAreDown'
    <3>1. SUFFICES ASSUME ~HasDuplicate(pool'), NEW i \in 1 .. n + 1,
                          ServerOf(pool', pool'.backends[i]) \in ordered_down \ {s}
                   PROVE  IsDown(pool', pool'.backends[i])
      BY <1>2, <2>4 DEF OrderedAreDown, Handles
    <3>2. i \in 1 .. n
      BY <2>1, <2>4, <3>1
    <3>3. \A j \in 1 .. n :
            /\ pool.backends[j] \in DOMAIN pool.cell
            /\ ServerOf(pool', pool'.backends[j]) = ServerOf(pool, pool.backends[j])
      BY <1>1, <2>1, <2>4, TypeFacts DEF ServerOf
    <3>4. ~HasDuplicate(pool)
      BY <2>4, <3>1, <3>3 DEF HasDuplicate
    <3>5. pool.backends[i] \in Handles(pool)
      BY <2>4, <3>2 DEF Handles
    <3>6. IsDown(pool, pool.backends[i])
      BY <1>1, <3>1, <3>2, <3>3, <3>4, <3>5 DEF OrderedAreDown
    <3> QED
      BY <2>1, <3>2, <3>3, <3>6 DEF IsDown
  <2> QED
    BY <1>3, <1>4, <2>2, <2>3, <2>5 DEF PoolInv
<1> QED
  BY <1>2, <1>5, <1>6 DEF PoolAdd

-----------------------------------------------------------------------------
(* The theorems *)

(* Every step of the worker's pool preserves the inductive invariant.      *)
LEMMA StepInv ==
    ASSUME PoolInv, [Next]_vars
    PROVE  PoolInv'
<1>1. CASE UNCHANGED vars
  BY <1>1 DEF vars, PoolInv, TypeOK, CursorInRange, VisitedDown, Visited, OneBorrower,
              SentHasTarget, OrderedAreDown, Borrowed
<1>2. ASSUME NEW r \in Request, SendRequest(r) PROVE PoolInv'
  BY <1>2, SendRequestInv
<1>3. ASSUME NEW r \in Request, GetStep(r) PROVE PoolInv'
  BY <1>3, GetStepInv
<1>4. ASSUME NEW r \in Request, NEW o \in Outcome, Respond(r, o) PROVE PoolInv'
  BY <1>4, RespondInv
<1>5. ASSUME NEW s \in Server, AddServer(s) PROVE PoolInv'
  BY <1>5, AddServerInv
<1>6. ASSUME NEW s \in Server, MarkServerDown(s) PROVE PoolInv'
  BY <1>6, MarkServerDownInv
<1>7. ASSUME NEW s \in Server, MarkServerActive(s) PROVE PoolInv'
  BY <1>7, MarkServerActiveInv
<1> QED
  BY <1>1, <1>2, <1>3, <1>4, <1>5, <1>6, <1>7 DEF Next

(* The invariant holds of every behaviour of the worker's pool.            *)
THEOREM PoolInvariance == Spec => []PoolInv
<1>1. Init => PoolInv
  <2>1. SUFFICES ASSUME Init PROVE PoolInv
    OBVIOUS
  <2>2. EmptyPool \in PoolType(Server) /\ Handles(EmptyPool) = {}
    BY DEF EmptyPool, PoolType, Handles
  <2>3. TypeOK
    BY <2>1, <2>2 DEF Init, TypeOK, Phase
  <2>4. ~Borrowed
    BY <2>1 DEF Init, Borrowed
  <2>5. CursorInRange /\ VisitedDown
    BY <2>1, <2>4 DEF Init, EmptyPool, CursorInRange, VisitedDown
  <2>6. OneBorrower /\ SentHasTarget
    BY <2>1 DEF Init, OneBorrower, SentHasTarget
  <2>7. OrderedAreDown
    BY <2>1, <2>2 DEF Init, OrderedAreDown
  <2> QED
    BY <2>3, <2>5, <2>6, <2>7 DEF PoolInv
<1>2. PoolInv /\ [Next]_vars => PoolInv'
  BY StepInv
<1> QED
  BY <1>1, <1>2, PTL DEF Spec

(* The cursor of get and its `start` are always indices of the Vec, so the *)
(* `None` arm of backends.get() is dead code.                              *)
THEOREM CursorSafe == Spec => []CursorInRange
<1>1. PoolInv => CursorInRange
  BY DEF PoolInv
<1> QED
  BY <1>1, PoolInvariance, PTL

(* Each iteration of get that does not return is one of at most len: the   *)
(* distance to start is positive and decreases.                            *)
THEOREM GetMakesProgress == Spec => GetProgress
<1> DEFINE A == \A r \in Request :
                  phase[r] = "choosing" /\ phase'[r] = "choosing" =>
                      Remaining' < Remaining /\ Remaining' > 0
<1>1. PoolInv /\ [Next]_vars => [A]_vars
  <2>1. SUFFICES ASSUME PoolInv, Next, NEW r \in Request,
                        phase[r] = "choosing", phase'[r] = "choosing"
                 PROVE  Remaining' < Remaining /\ Remaining' > 0
    BY DEF A
  <2>2. Borrowed /\ TypeOK
    BY <2>1 DEF Borrowed, PoolInv
  <2>3. PICK q \in Request : GetStep(q)
    BY <2>1, <2>2 DEF Next, SendRequest, Respond, AddServer, MarkServerDown,
                      MarkServerActive, MarkServer
  <2>4. q = r
    BY <2>1, <2>3 DEF PoolInv, OneBorrower, GetStep
  <2>5. start' = start /\ start # NextIndex(pool)
    BY <2>1, <2>2, <2>3, <2>4 DEF GetStep, TypeOK
  <2>6. /\ Len(pool.backends) \in Nat \ {0} /\ start \in 0 .. Len(pool.backends) - 1
        /\ pool.last_used \in 0 .. Len(pool.backends) - 1
        /\ NextIndex(pool) = IF pool.last_used + 1 = Len(pool.backends)
                             THEN 0 ELSE pool.last_used + 1
        /\ pool'.backends = pool.backends
        /\ pool'.last_used = NextIndex(pool)
    BY <2>1, <2>3, GetStepFacts
  <2> QED
    BY <2>5, <2>6 DEF Remaining
<1> QED
  BY <1>1, PoolInvariance, PTL DEF Spec, GetProgress

(* get gives up only after it has seen every backend, and all were down.   *)
THEOREM ExhaustedMeansDown == Spec => ExhaustedOnlyWhenAllDown
<1> DEFINE A == \A r \in Request :
                  phase[r] # "exhausted" /\ phase'[r] = "exhausted" =>
                      \A b \in Handles(pool) : IsDown(pool, b)
<1>1. PoolInv /\ [Next]_vars => [A]_vars
  <2>1. SUFFICES ASSUME PoolInv, Next, NEW r \in Request,
                        phase[r] # "exhausted", phase'[r] = "exhausted",
                        NEW b \in Handles(pool)
                 PROVE  IsDown(pool, b)
    BY DEF A
  <2>2. TypeOK /\ VisitedDown
    BY <2>1 DEF PoolInv
  <2>3. PICK q \in Request : GetStep(q)
    <3>1. ~\E q \in Request : SendRequest(q)
      BY <2>1, <2>2 DEF SendRequest, TypeOK, Handles
    <3> QED
      BY <2>1, <2>2, <3>1 DEF Next, Respond, Outcome, AddServer, MarkServerDown,
                              MarkServerActive, MarkServer, TypeOK
  <2>4. Borrowed /\ IsDown(pool, BackendAt(pool, start)) /\ start = NextIndex(pool)
    BY <2>1, <2>2, <2>3 DEF GetStep, Borrowed, TypeOK
  <2>5. /\ Len(pool.backends) \in Nat \ {0} /\ start \in 0 .. Len(pool.backends) - 1
        /\ pool.last_used \in 0 .. Len(pool.backends) - 1
        /\ NextIndex(pool) = IF pool.last_used + 1 = Len(pool.backends)
                             THEN 0 ELSE pool.last_used + 1
    BY <2>1, <2>3, GetStepFacts
  <2>6. PICK k \in 0 .. Len(pool.backends) - 1 : b = BackendAt(pool, k)
    <3>1. PICK i \in 1 .. Len(pool.backends) : b = pool.backends[i]
      BY <2>1, <2>2, TypeFacts DEF Handles
    <3>2. i - 1 \in 0 .. Len(pool.backends) - 1 /\ (i - 1) + 1 = i
      BY <2>5
    <3> QED
      BY <3>1, <3>2 DEF BackendAt
  <2>7. k = start \/ k \in Visited
    BY <2>4, <2>5 DEF Visited
  <2> QED
    BY <2>2, <2>4, <2>6, <2>7 DEF VisitedDown
<1> QED
  BY <1>1, PoolInvariance, PTL DEF Spec, ExhaustedOnlyWhenAllDown

(* With one backend per server, no request goes to a server the manager's  *)
(* last message marked down.                                               *)
THEOREM DownServersRest == Spec => DownNotServed
<1> DEFINE A == ~HasDuplicate(pool) => \A r \in Request : ChoosesUnlessOrderedDown(r)
<1>1. PoolInv /\ [Next]_vars => [A]_vars
  <2>1. SUFFICES ASSUME PoolInv, Next, ~HasDuplicate(pool), NEW r \in Request,
                        phase[r] = "choosing", phase'[r] = "sent"
                 PROVE  ServerOf(pool, target'[r]) \notin ordered_down
    BY DEF A, ChoosesUnlessOrderedDown
  <2>2. TypeOK /\ OrderedAreDown /\ Borrowed
    BY <2>1 DEF PoolInv, Borrowed
  <2>3. PICK q \in Request : GetStep(q)
    BY <2>1, <2>2 DEF Next, SendRequest, Respond, AddServer, MarkServerDown,
                      MarkServerActive, MarkServer
  <2>4. q = r
    BY <2>1, <2>3 DEF PoolInv, OneBorrower, GetStep
  <2>5. BackendAt(pool, NextIndex(pool)) \in Handles(pool)
    BY <2>1, <2>3, GetStepFacts
  <2>6. /\ ~IsDown(pool, BackendAt(pool, NextIndex(pool)))
        /\ target'[r] = BackendAt(pool, NextIndex(pool))
    BY <2>1, <2>2, <2>3, <2>4 DEF GetStep, TypeOK
  <2> QED
    BY <2>1, <2>2, <2>5, <2>6 DEF OrderedAreDown
<1> QED
  BY <1>1, PoolInvariance, PTL DEF Spec, DownNotServed

-----------------------------------------------------------------------------
(* Stats *)

(* The requests b has answered with an outcome in P *)
Served(b, P) == {r \in Request : target[r] = b /\ phase[r] \in P}

LEMMA StatsAreServed ==
    StatsExact <=>
        \A b \in DOMAIN pool.cell :
            /\ pool.cell[b].success = Cardinality(Served(b, {"ok"}))
            /\ pool.cell[b].failure = Cardinality(Served(b, {"server_error", "error"}))
BY DEF StatsExact, Served

(* Steps that give no request its outcome and write no counter keep them.  *)
LEMMA StatsKept ==
    ASSUME TypeOK, StatsInv, DOMAIN pool'.cell = DOMAIN pool.cell,
           \A b \in DOMAIN pool.cell :
                /\ pool'.cell[b].success = pool.cell[b].success
                /\ pool'.cell[b].failure = pool.cell[b].failure,
           \A r \in Request :
                \/ phase'[r] = phase[r] /\ target'[r] = target[r]
                \/ phase[r] \notin Outcome /\ phase'[r] \notin Outcome
    PROVE  StatsInv'
<1>1. {r \in Request : phase[r] \in Outcome}' = {r \in Request : phase[r] \in Outcome}
  OBVIOUS
<1>2. ASSUME NEW b, NEW P \in SUBSET Outcome PROVE Served(b, P)' = Served(b, P)
  BY DEF Served
<1>3. {"ok"} \in SUBSET Outcome /\ {"server_error", "error"} \in SUBSET Outcome
  BY DEF Outcome
<1>4. \A b : /\ Served(b, {"ok"})' = Served(b, {"ok"})
             /\ Served(b, {"server_error", "error"})' = Served(b, {"server_error", "error"})
  BY <1>2, <1>3
<1>5. \A b \in DOMAIN pool.cell :
        /\ pool.cell[b].success = Cardinality(Served(b, {"ok"}))
        /\ pool.cell[b].failure = Cardinality(Served(b, {"server_error", "error"}))
  BY StatsAreServed DEF StatsInv
<1>6. \A b \in DOMAIN pool'.cell :
        /\ pool'.cell[b].success = Cardinality(Served(b, {"ok"})')
        /\ pool'.cell[b].failure = Cardinality(Served(b, {"server_error", "error"})')
  BY <1>4, <1>5
<1>7. StatsExact'
  BY <1>6 DEF StatsExact, Served
<1> QED
  BY <1>1, <1>7 DEF StatsInv

(* A new backend has served nothing.                                       *)
LEMMA AddStats ==
    ASSUME PoolInv, StatsInv, NEW s \in Server, AddServer(s)
    PROVE  StatsInv'
<1>1. TypeOK /\ pool' = PoolAdd(pool, s) /\ phase' = phase /\ target' = target
  BY DEF PoolInv, AddServer
<1>2. CASE pool' = pool
  BY <1>1, <1>2, StatsKept
<1>3. CASE pool' = PushBackend(pool, s)
  <2> DEFINE n == Len(pool.cell)
  <2>1. /\ n \in Nat /\ DOMAIN pool.cell = 1 .. n /\ pool.cell \in Seq(InnerBackend(Server))
        /\ target \in [Request -> {0} \cup 1 .. n]
    BY <1>1, TypeFacts DEF TypeOK
  <2>2. pool'.cell = Append(pool.cell, NewBackend(s))
    BY <1>3 DEF PushBackend
  <2>3. /\ DOMAIN pool'.cell = 1 .. n + 1
        /\ \A b \in 1 .. n : pool'.cell[b] = pool.cell[b]
        /\ pool'.cell[n + 1] = NewBackend(s)
    BY <2>1, <2>2
  <2>4. \A P : Served(n + 1, P) = {}
    BY <2>1 DEF Served
  <2>5. Cardinality({}) = 0
    BY FS_EmptySet
  <2>6. pool'.cell[n + 1].success = 0 /\ pool'.cell[n + 1].failure = 0
    BY <2>3 DEF NewBackend
  <2>7. \A b \in 1 .. n + 1 :
          /\ pool'.cell[b].success = Cardinality(Served(b, {"ok"}))
          /\ pool'.cell[b].failure = Cardinality(Served(b, {"server_error", "error"}))
    <3>1. \A b \in 1 .. n + 1 : b \in 1 .. n \/ b = n + 1
      BY <2>1
    <3>2. \A b \in 1 .. n :
            /\ pool.cell[b].success = Cardinality(Served(b, {"ok"}))
            /\ pool.cell[b].failure = Cardinality(Served(b, {"server_error", "error"}))
      BY <2>1, StatsAreServed DEF StatsInv
    <3> QED
      BY <2>3, <2>4, <2>5, <2>6, <3>1, <3>2
  <2>8. \A b, P : Served(b, P)' = Served(b, P)
    BY <1>1 DEF Served
  <2>9. \A b \in DOMAIN pool'.cell :
          /\ pool'.cell[b].success = Cardinality(Served(b, {"ok"})')
          /\ pool'.cell[b].failure = Cardinality(Served(b, {"server_error", "error"})')
    BY <2>3, <2>7, <2>8
  <2>10. StatsExact'
    BY <2>9 DEF StatsExact, Served
  <2> QED
    BY <1>1, <2>10 DEF StatsInv
<1> QED
  BY <1>1, <1>2, <1>3 DEF PoolAdd

(* An answer is one more for the backend the request holds.                *)
LEMMA RespondStats ==
    ASSUME PoolInv, StatsInv, NEW r \in Request, NEW o \in Outcome, Respond(r, o)
    PROVE  StatsInv'
<1>1. TypeOK /\ SentHasTarget
  BY DEF PoolInv
<1>2. /\ phase[r] = "sent" /\ phase' = [phase EXCEPT ![r] = o] /\ target' = target
      /\ phase \in [Request -> Phase]
  BY <1>1 DEF Respond, TypeOK
<1>3. PICK d \in DOMAIN pool.cell : d = target[r]
  BY <1>1, <1>2 DEF SentHasTarget, TypeOK
<1>4. pool.cell[d] \in InnerBackend(Server) /\ pool.cell \in Seq(InnerBackend(Server))
  BY <1>1, TypeFacts
<1>5. /\ DOMAIN pool'.cell = DOMAIN pool.cell
      /\ \A b \in DOMAIN pool.cell :
            /\ pool'.cell[b].success = IF b = d /\ o = "ok" THEN pool.cell[b].success + 1
                                                            ELSE pool.cell[b].success
            /\ pool'.cell[b].failure = IF b = d /\ o # "ok" THEN pool.cell[b].failure + 1
                                                            ELSE pool.cell[b].failure
  <2>1. CASE o = "ok"
    <3>1. pool'.cell = [pool.cell EXCEPT ![d] = [pool.cell[d] EXCEPT !.success = @ + 1]]
      BY <1>3, <2>1 DEF Respond, IncSuccess, WithCell
    <3> QED
      BY <1>4, <2>1, <3>1 DEF InnerBackend
  <2>2. CASE o # "ok"
    <3>1. pool'.cell = [pool.cell EXCEPT ![d] = [pool.cell[d] EXCEPT !.failure = @ + 1]]
      BY <1>3, <2>2 DEF Respond, IncFailure, WithCell
    <3> QED
      BY <1>4, <2>2, <3>1 DEF InnerBackend
  <2> QED
    BY <2>1, <2>2
<1> DEFINE D == {q \in Request : phase[q] \in Outcome}
<1>6. IsFiniteSet(D) /\ D' = D \cup {r} /\ r \notin D
  BY <1>2 DEF StatsInv, Outcome
<1>7. IsFiniteSet(D')
  BY <1>6, FS_AddElement
<1>8. ASSUME NEW b, NEW P \in SUBSET Outcome
      PROVE  Cardinality(Served(b, P)') =
                IF b = d /\ o \in P THEN Cardinality(Served(b, P)) + 1
                                    ELSE Cardinality(Served(b, P))
  <2>1. Served(b, P) \subseteq D /\ r \notin Served(b, P)
    BY <1>2 DEF Served, Outcome
  <2>2. IsFiniteSet(Served(b, P))
    BY <1>6, <2>1, FS_Subset
  <2>3. Served(b, P)' = IF b = d /\ o \in P THEN Served(b, P) \cup {r} ELSE Served(b, P)
    <3>1. \A q \in Request : q # r => phase'[q] = phase[q]
      BY <1>2
    <3>2. phase'[r] = o
      BY <1>2
    <3> QED
      BY <1>2, <1>3, <2>1, <3>1, <3>2 DEF Served
  <2> HIDE DEF D
  <2> QED
    BY <2>1, <2>2, <2>3, FS_AddElement
<1>9. {"ok"} \in SUBSET Outcome /\ {"server_error", "error"} \in SUBSET Outcome
  BY DEF Outcome
<1>10. o \in {"ok"} <=> o = "ok"
  OBVIOUS
<1>11. o \in {"server_error", "error"} <=> o # "ok"
  BY DEF Outcome
<1>12. \A b \in DOMAIN pool.cell :
          /\ pool.cell[b].success = Cardinality(Served(b, {"ok"}))
          /\ pool.cell[b].failure = Cardinality(Served(b, {"server_error", "error"}))
  BY StatsAreServed DEF StatsInv
<1>13. \A b \in DOMAIN pool'.cell :
          /\ pool'.cell[b].success = Cardinality(Served(b, {"ok"})')
          /\ pool'.cell[b].failure = Cardinality(Served(b, {"server_error", "error"})')
  BY <1>5, <1>8, <1>9, <1>10, <1>11, <1>12
<1>14. StatsExact'
  BY <1>13 DEF StatsExact, Served
<1> QED
  BY <1>7, <1>14 DEF StatsInv

LEMMA StepStats ==
    ASSUME PoolInv, StatsInv, [Next]_vars
    PROVE  StatsInv'
<1>1. TypeOK
  BY DEF PoolInv
<1>2. CASE UNCHANGED vars
  BY <1>1, <1>2, StatsKept DEF vars
<1>3. ASSUME NEW r \in Request, SendRequest(r) PROVE StatsInv'
  <2>1. pool' = pool /\ target' = target
    BY <1>3 DEF SendRequest
  <2>2. /\ phase[r] = "new" /\ phase'[r] \in {"exhausted", "choosing"}
        /\ \A q \in Request : q # r => phase'[q] = phase[q]
    BY <1>1, <1>3 DEF SendRequest, TypeOK
  <2>3. phase[r] \notin Outcome /\ phase'[r] \notin Outcome
    BY <2>2 DEF Outcome
  <2> QED
    BY <1>1, <2>1, <2>2, <2>3, StatsKept
<1>4. ASSUME NEW r \in Request, GetStep(r) PROVE StatsInv'
  <2>1. pool'.cell = pool.cell
    BY <1>4, GetStepFacts
  <2>2. phase[r] = "choosing" /\ phase'[r] \in {"choosing", "exhausted", "sent"}
    BY <1>1, <1>4 DEF GetStep, TypeOK
  <2>3. \A q \in Request : q # r => phase'[q] = phase[q] /\ target'[q] = target[q]
    BY <1>1, <1>4 DEF GetStep, TypeOK
  <2>4. phase[r] \notin Outcome /\ phase'[r] \notin Outcome
    BY <2>2 DEF Outcome
  <2> QED
    BY <1>1, <2>1, <2>3, <2>4, StatsKept
<1>5. ASSUME NEW r \in Request, NEW o \in Outcome, Respond(r, o) PROVE StatsInv'
  BY <1>5, RespondStats
<1>6. ASSUME NEW s \in Server, AddServer(s) PROVE StatsInv'
  BY <1>6, AddStats
<1>7. ASSUME NEW s \in Server, NEW st \in ServerState, MarkServer(s, st) PROVE StatsInv'
  <2>1. PICK b \in DOMAIN pool.cell : b = PoolFind(pool, s)
    BY <1>1, <1>7, TypeFacts, FindFacts DEF MarkServer, TypeOK
  <2>2. pool.cell \in Seq(InnerBackend(Server)) /\ pool.cell[b] \in InnerBackend(Server)
    BY <1>1, TypeFacts
  <2>3. pool'.cell = [pool.cell EXCEPT ![b] = [pool.cell[b] EXCEPT !.state = st]]
    BY <1>7, <2>1 DEF MarkServer, MarkBackend, WithCell
  <2>4. /\ DOMAIN pool'.cell = DOMAIN pool.cell
        /\ \A d \in DOMAIN pool.cell :
              /\ pool'.cell[d].success = pool.cell[d].success
              /\ pool'.cell[d].failure = pool.cell[d].failure
    BY <2>2, <2>3 DEF InnerBackend
  <2>5. phase' = phase /\ target' = target
    BY <1>7 DEF MarkServer
  <2> QED
    BY <1>1, <2>4, <2>5, StatsKept
<1>8. "Active" \in ServerState /\ "Down" \in ServerState
  BY DEF ServerState
<1> QED
  BY <1>2, <1>3, <1>4, <1>5, <1>6, <1>7, <1>8 DEF Next, MarkServerDown, MarkServerActive

(* The counters of Stats: every answer is counted once, as what it was, on *)
(* the backend that gave it, for any number of requests.                   *)
THEOREM StatsCounted == Spec => []StatsExact
<1>1. Init => StatsInv
  <2>1. SUFFICES ASSUME Init PROVE StatsInv
    OBVIOUS
  <2>2. {r \in Request : phase[r] \in Outcome} = {}
    BY <2>1 DEF Init, Outcome
  <2>3. DOMAIN pool.cell = {}
    BY <2>1 DEF Init, EmptyPool
  <2> QED
    BY <2>2, <2>3, FS_EmptySet DEF StatsInv, StatsExact
<1>2. PoolInv /\ StatsInv /\ [Next]_vars => StatsInv'
  BY StepStats
<1>3. StatsInv => StatsExact
  BY DEF StatsInv
<1> QED
  BY <1>1, <1>2, <1>3, PoolInvariance, PTL DEF Spec

-----------------------------------------------------------------------------
(* The rotation *)

(* k comes after c and before i, going round *)
Between(c, k, i) == IF c < i THEN c < k /\ k < i ELSE c < k \/ k < i

(* What the loop has passed when it comes to an index is down.             *)
LEMMA PassedDown ==
    ASSUME PoolInv, NEW r \in Request, GetStep(r), NEW k \in 0 .. Len(pool.backends) - 1,
           Between(start, k, NextIndex(pool))
    PROVE  IsDown(pool, BackendAt(pool, k))
<1>1. /\ Len(pool.backends) \in Nat \ {0} /\ start \in 0 .. Len(pool.backends) - 1
      /\ pool.last_used \in 0 .. Len(pool.backends) - 1
      /\ NextIndex(pool) = IF pool.last_used + 1 = Len(pool.backends)
                           THEN 0 ELSE pool.last_used + 1
  BY GetStepFacts
<1>2. k \in Visited
  BY <1>1 DEF Visited, Between
<1>3. Borrowed /\ VisitedDown
  BY DEF Borrowed, GetStep, PoolInv
<1> QED
  BY <1>2, <1>3 DEF VisitedDown

(* A request given a backend: what the step of the loop that chooses does. *)
LEMMA ChoiceFacts ==
    ASSUME PoolInv, NEW r \in Request, GetStep(r), phase'[r] = "sent"
    PROVE  LET i == NextIndex(pool)
               b == BackendAt(pool, i)
           IN  /\ ~IsDown(pool, b) /\ phase' = [phase EXCEPT ![r] = "sent"]
               /\ target' = [target EXCEPT ![r] = b]
               /\ turn' = IF b \in turn THEN {b} ELSE turn \cup {b}
               /\ Borrowed /\ ~Borrowed'
<1>1. TypeOK /\ phase[r] = "choosing" /\ Borrowed
  BY DEF PoolInv, GetStep, Borrowed
<1>2. /\ ~IsDown(pool, BackendAt(pool, NextIndex(pool)))
      /\ phase' = [phase EXCEPT ![r] = "sent"]
      /\ target' = [target EXCEPT ![r] = BackendAt(pool, NextIndex(pool))]
      /\ turn' = IF BackendAt(pool, NextIndex(pool)) \in turn
                 THEN {BackendAt(pool, NextIndex(pool))}
                 ELSE turn \cup {BackendAt(pool, NextIndex(pool))}
  BY <1>1 DEF GetStep, TypeOK
<1>3. \A q \in Request : q # r => phase[q] # "choosing" /\ phase'[q] = phase[q]
  BY GetStepFacts
<1>4. ~Borrowed'
  BY <1>3 DEF Borrowed
<1> QED
  BY <1>1, <1>2, <1>4

(* An arc that ends at c, with the next active index i: if i is not on it, *)
(* it is extended to i; if it is, it holds every active index.             *)
LEMMA ArcExtends ==
    ASSUME NEW n \in Nat \ {0},
           NEW a \in 0 .. n - 1, NEW c \in 0 .. n - 1, NEW i \in 0 .. n - 1, NEW k \in 0 .. n - 1
    PROVE  /\ i \notin Arc(n, a, c) =>
                (k \in Arc(n, a, i) => k \in Arc(n, a, c) \/ k = i \/ Between(c, k, i))
           /\ i \notin Arc(n, a, c) => (k \in Arc(n, a, c) \/ k = i => k \in Arc(n, a, i))
           /\ i \in Arc(n, a, c) => k \in Arc(n, a, c) \/ Between(c, k, i)
           /\ i \in Arc(n, i, i) /\ (k \in Arc(n, i, i) => k = i)
<1>1. i \notin Arc(n, a, c) =>
        (k \in Arc(n, a, i) => k \in Arc(n, a, c) \/ k = i \/ Between(c, k, i))
  BY DEF Arc, Between
<1>2. i \notin Arc(n, a, c) => (k \in Arc(n, a, c) \/ k = i => k \in Arc(n, a, i))
  BY DEF Arc
<1>3. i \in Arc(n, a, c) => k \in Arc(n, a, c) \/ Between(c, k, i)
  BY DEF Arc, Between
<1>4. i \in Arc(n, i, i) /\ (k \in Arc(n, i, i) => k = i)
  BY DEF Arc
<1> QED
  BY <1>1, <1>2, <1>3, <1>4

(* The choice of a backend that had its turn completes the turn.           *)
LEMMA TurnComplete ==
    ASSUME PoolInv, RotationInv, NEW r \in Request, GetStep(r), phase'[r] = "sent",
           BackendAt(pool, NextIndex(pool)) \in turn
    PROVE  {d \in Handles(pool) : ~IsDown(pool, d)} \subseteq turn
<1> DEFINE n == Len(pool.backends)
           i == NextIndex(pool)
<1>1. /\ n \in Nat \ {0} /\ start \in 0 .. n - 1 /\ i \in 0 .. n - 1
      /\ TypeOK /\ Borrowed /\ DOMAIN pool.backends = 1 .. n
  BY GetStepFacts, ChoiceFacts, TypeFacts DEF PoolInv
<1> HIDE DEF i
<1>2. PICK a \in 0 .. n - 1 : turn = ActiveIn(pool, Arc(n, a, start))
  BY <1>1 DEF RotationInv, TurnIsArc, LastChoice
<1>3. i \in Arc(n, a, start)
  <2>1. PICK k \in Arc(n, a, start) : BackendAt(pool, i) = BackendAt(pool, k)
    BY <1>2 DEF ActiveIn, i
  <2>2. k \in 0 .. n - 1
    BY DEF Arc
  <2>3. i + 1 \in 1 .. n /\ k + 1 \in 1 .. n
    BY <1>1, <2>2
  <2>4. i + 1 = k + 1
    BY <1>1, <2>1, <2>3 DEF RotationInv, HandlesDistinct, BackendAt
  <2>5. i = k
    BY <1>1, <2>2, <2>4
  <2> QED
    BY <2>1, <2>5
<1>4. SUFFICES ASSUME NEW d \in Handles(pool), ~IsDown(pool, d) PROVE d \in turn
  OBVIOUS
<1>5. PICK k \in 0 .. n - 1 : d = BackendAt(pool, k)
  <2>1. PICK j \in 1 .. n : d = pool.backends[j]
    BY <1>1, <1>4 DEF Handles
  <2>2. j - 1 \in 0 .. n - 1 /\ (j - 1) + 1 = j
    BY <1>1
  <2> QED
    BY <2>1, <2>2 DEF BackendAt
<1>6. ~Between(start, k, i)
  BY <1>4, <1>5, PassedDown DEF i
<1>7. k \in Arc(n, a, start)
  BY <1>1, <1>3, <1>6, ArcExtends
<1> QED
  BY <1>2, <1>4, <1>5, <1>7 DEF ActiveIn

(* The step of the loop that chooses ends or extends the arc.              *)
LEMMA ChoiceRotates ==
    ASSUME PoolInv, RotationInv, NEW r \in Request, GetStep(r), phase'[r] = "sent"
    PROVE  TurnIsArc'
<1> DEFINE n == Len(pool.backends)
<1>1. PICK i \in 0 .. n - 1 : i = NextIndex(pool)
  BY GetStepFacts
<1>2. PICK b \in Handles(pool) : b = BackendAt(pool, i)
  BY <1>1, GetStepFacts
<1>3. /\ n \in Nat \ {0} /\ start \in 0 .. n - 1
      /\ pool'.cell = pool.cell /\ pool'.backends = pool.backends /\ pool'.last_used = i
  BY <1>1, GetStepFacts
<1>4. /\ ~IsDown(pool, b) /\ Borrowed /\ ~Borrowed'
      /\ turn' = IF b \in turn THEN {b} ELSE turn \cup {b}
  BY <1>1, <1>2, ChoiceFacts
<1>5. LastChoice = start /\ LastChoice' = i
  BY <1>3, <1>4 DEF LastChoice
<1>6. \A K : ActiveIn(pool', K) = ActiveIn(pool, K)
  BY <1>3 DEF ActiveIn, IsDown, BackendAt
<1>7. \A a, c : Arc(n, a, c) \subseteq 0 .. n - 1
  BY DEF Arc
<1>8. CASE b \in turn \/ turn = {}
  <2>1. turn' = {b}
    BY <1>4, <1>8
  <2>2. Arc(n, i, i) = {i}
    BY <1>3, <1>7, ArcExtends
  <2>3. ActiveIn(pool, Arc(n, i, i)) = {b}
    BY <1>2, <1>4, <2>2 DEF ActiveIn
  <2>4. turn' = ActiveIn(pool', Arc(n, i, i))
    BY <1>6, <2>1, <2>3
  <2> QED
    BY <1>3, <1>5, <2>4 DEF TurnIsArc
<1>9. CASE b \notin turn /\ turn # {}
  <2>1. turn' = turn \cup {b}
    BY <1>4, <1>9
  <2>2. PICK a \in 0 .. n - 1 : turn = ActiveIn(pool, Arc(n, a, start))
    BY <1>5, <1>9 DEF RotationInv, TurnIsArc
  <2>3. i \notin Arc(n, a, start)
    BY <1>2, <1>4, <1>9, <2>2 DEF ActiveIn
  <2>4. \A k \in Arc(n, a, i) : ~IsDown(pool, BackendAt(pool, k)) => k \in Arc(n, a, start) \/ k = i
    <3>1. SUFFICES ASSUME NEW k \in Arc(n, a, i), ~IsDown(pool, BackendAt(pool, k))
                   PROVE  k \in Arc(n, a, start) \/ k = i
      OBVIOUS
    <3>2. k \in 0 .. n - 1
      BY <1>7
    <3>3. ~Between(start, k, i)
      BY <1>1, <3>1, <3>2, PassedDown
    <3> QED
      BY <1>3, <2>3, <3>1, <3>2, <3>3, ArcExtends
  <2>5. Arc(n, a, start) \cup {i} \subseteq Arc(n, a, i)
    <3>1. ASSUME NEW k \in 0 .. n - 1, k \in Arc(n, a, start) \/ k = i
          PROVE  k \in Arc(n, a, i)
      BY <1>3, <2>3, <3>1, ArcExtends
    <3> QED
      BY <1>3, <1>7, <3>1
  <2>6. ActiveIn(pool, Arc(n, a, i)) = turn \cup {b}
    <3>1. ActiveIn(pool, Arc(n, a, i)) \subseteq turn \cup {b}
      BY <1>2, <2>2, <2>4 DEF ActiveIn
    <3>2. turn \cup {b} \subseteq ActiveIn(pool, Arc(n, a, i))
      BY <1>2, <1>4, <2>2, <2>5 DEF ActiveIn
    <3> QED
      BY <3>1, <3>2
  <2>7. turn' = ActiveIn(pool', Arc(n, a, i))
    BY <1>6, <2>1, <2>6
  <2> QED
    BY <1>3, <1>5, <2>7 DEF TurnIsArc
<1> QED
  BY <1>8, <1>9

(* Every step keeps the rotation; a change of the pool begins a new turn.  *)
LEMMA StepRotation ==
    ASSUME PoolInv, PoolInv', RotationInv, [Next]_vars
    PROVE  RotationInv'
<1>1. TypeOK /\ CursorInRange
  BY DEF PoolInv
<1>2. CASE UNCHANGED vars
  BY <1>2 DEF vars, RotationInv, HandlesDistinct, TurnIsArc, LastChoice, Borrowed
<1>3. ASSUME NEW r \in Request, SendRequest(r) PROVE RotationInv'
  <2>1. pool' = pool /\ turn' = turn /\ ~Borrowed
    BY <1>3 DEF SendRequest
  <2>2. LastChoice' = LastChoice
    <3>1. CASE pool.backends = <<>>
      <4>1. phase' = [phase EXCEPT ![r] = "exhausted"]
        BY <1>3, <3>1 DEF SendRequest
      <4>2. ~Borrowed'
        BY <1>1, <2>1, <4>1 DEF Borrowed, TypeOK
      <4> QED
        BY <2>1, <4>2 DEF LastChoice
    <3>2. CASE pool.backends # <<>>
      BY <1>3, <2>1, <3>2 DEF SendRequest, LastChoice
    <3> QED
      BY <3>1, <3>2
  <2> QED
    BY <2>1, <2>2 DEF RotationInv, HandlesDistinct, TurnIsArc
<1>4. ASSUME NEW r \in Request, GetStep(r) PROVE RotationInv'
  <2>1. /\ pool'.cell = pool.cell /\ pool'.backends = pool.backends
        /\ pool'.last_used = NextIndex(pool)
        /\ \A q \in Request : q # r => phase[q] # "choosing" /\ phase'[q] = phase[q]
    BY <1>4, GetStepFacts
  <2>2. HandlesDistinct'
    BY <2>1 DEF RotationInv, HandlesDistinct
  <2>3. CASE phase'[r] = "sent"
    BY <1>4, <2>2, <2>3, ChoiceRotates DEF RotationInv
  <2>4. CASE phase'[r] # "sent"
    <3>1. /\ phase' = [phase EXCEPT ![r] = IF start = NextIndex(pool) THEN "exhausted" ELSE @]
          /\ turn' = turn /\ start' = start /\ phase[r] = "choosing"
      BY <1>1, <1>4, <2>4 DEF GetStep, TypeOK
    <3>2. LastChoice = start
      BY <3>1 DEF LastChoice, Borrowed
    <3>3. LastChoice' = start
      <4>1. CASE start = NextIndex(pool)
        BY <2>1, <3>1, <4>1 DEF LastChoice
      <4>2. CASE start # NextIndex(pool)
        <5>1. phase'[r] = "choosing"
          BY <1>1, <3>1, <4>2 DEF TypeOK
        <5> QED
          BY <3>1, <5>1 DEF LastChoice, Borrowed
      <4> QED
        BY <4>1, <4>2
    <3>4. \A K : ActiveIn(pool', K) = ActiveIn(pool, K)
      BY <2>1 DEF ActiveIn, IsDown, BackendAt
    <3>5. TurnIsArc'
      BY <2>1, <3>1, <3>2, <3>3, <3>4 DEF RotationInv, TurnIsArc
    <3> QED
      BY <2>2, <3>5 DEF RotationInv
  <2> QED
    BY <2>3, <2>4
<1>5. ASSUME NEW r \in Request, NEW o \in Outcome, Respond(r, o) PROVE RotationInv'
  <2>1. PICK b \in DOMAIN pool.cell : b = target[r]
    BY <1>1, <1>5 DEF PoolInv, SentHasTarget, TypeOK, Respond
  <2>2. pool.cell[b] \in InnerBackend(Server) /\ pool.cell \in Seq(InnerBackend(Server))
    BY <1>1, TypeFacts
  <2>3. /\ pool'.backends = pool.backends /\ pool'.last_used = pool.last_used
        /\ \A d \in DOMAIN pool.cell : pool'.cell[d].state = pool.cell[d].state
    <3>1. CASE o = "ok"
      <4>1. pool' = WithCell(pool, b, [pool.cell[b] EXCEPT !.success = @ + 1])
        BY <1>5, <2>1, <3>1 DEF Respond, IncSuccess
      <4> QED
        BY <2>2, <4>1 DEF WithCell, InnerBackend
    <3>2. CASE o # "ok"
      <4>1. pool' = WithCell(pool, b, [pool.cell[b] EXCEPT !.failure = @ + 1])
        BY <1>5, <2>1, <3>2 DEF Respond, IncFailure
      <4> QED
        BY <2>2, <4>1 DEF WithCell, InnerBackend
    <3> QED
      BY <3>1, <3>2
  <2>4. ~Borrowed /\ ~Borrowed' /\ turn' = turn
    BY <1>1, <1>5 DEF Respond, Borrowed, Outcome, TypeOK
  <2>5. LastChoice' = LastChoice
    BY <2>3, <2>4 DEF LastChoice
  <2>6. \A k \in 0 .. Len(pool.backends) - 1 :
          /\ BackendAt(pool', k) = BackendAt(pool, k)
          /\ IsDown(pool', BackendAt(pool, k)) <=> IsDown(pool, BackendAt(pool, k))
    <3>1. \A k \in 0 .. Len(pool.backends) - 1 : pool.backends[k + 1] \in DOMAIN pool.cell
      BY <1>1, TypeFacts
    <3> QED
      BY <2>3, <3>1 DEF BackendAt, IsDown
  <2>7. \A a, c : Arc(Len(pool.backends), a, c) \subseteq 0 .. Len(pool.backends) - 1
    BY DEF Arc
  <2>8. \A K \in SUBSET (0 .. Len(pool.backends) - 1) : ActiveIn(pool', K) = ActiveIn(pool, K)
    BY <2>6 DEF ActiveIn
  <2>9. TurnIsArc'
    BY <2>3, <2>4, <2>5, <2>7, <2>8 DEF RotationInv, TurnIsArc
  <2> QED
    BY <2>3, <2>9 DEF RotationInv, HandlesDistinct
<1>6. ASSUME NEW s \in Server, AddServer(s) PROVE RotationInv'
  <2>1. turn' = {} /\ (pool' = pool \/ pool' = PushBackend(pool, s))
    BY <1>6 DEF AddServer, PoolAdd
  <2>2. HandlesDistinct'
    <3>1. CASE pool' = pool
      BY <3>1 DEF RotationInv, HandlesDistinct
    <3>2. CASE pool' = PushBackend(pool, s)
      <4> DEFINE n == Len(pool.backends)
      <4>1. /\ pool'.backends = Append(pool.backends, Len(pool.cell) + 1)
            /\ pool.backends \in Seq(Nat \ {0}) /\ n \in Nat
            /\ pool.cell \in Seq(InnerBackend(Server))
        BY <1>1, <3>2, TypeFacts DEF PushBackend
      <4>2. /\ DOMAIN pool'.backends = 1 .. n + 1
            /\ \A i \in 1 .. n : pool'.backends[i] = pool.backends[i]
            /\ pool'.backends[n + 1] = Len(pool.cell) + 1
        BY <4>1
      <4>3. \A i \in 1 .. n : pool.backends[i] # Len(pool.cell) + 1
        BY <1>1, <4>1, TypeFacts
      <4>4. \A i \in 1 .. n + 1 : i \in 1 .. n \/ i = n + 1
        BY <4>1
      <4>5. \A i, j \in 1 .. n : pool.backends[i] = pool.backends[j] => i = j
        BY <1>1, TypeFacts DEF RotationInv, HandlesDistinct
      <4> QED
        BY <4>2, <4>3, <4>4, <4>5 DEF HandlesDistinct
    <3> QED
      BY <2>1, <3>1, <3>2
  <2> QED
    BY <2>1, <2>2 DEF RotationInv, TurnIsArc
<1>7. ASSUME NEW s \in Server, NEW st \in ServerState, MarkServer(s, st) PROVE RotationInv'
  <2>1. turn' = {} /\ pool'.backends = pool.backends
    BY <1>7 DEF MarkServer, MarkBackend, WithCell
  <2> QED
    BY <2>1 DEF RotationInv, HandlesDistinct, TurnIsArc
<1>8. "Active" \in ServerState /\ "Down" \in ServerState
  BY DEF ServerState
<1> QED
  BY <1>2, <1>3, <1>4, <1>5, <1>6, <1>7, <1>8 DEF Next, MarkServerDown, MarkServerActive

(* The rotation holds in every reachable state.                            *)
LEMMA RotationInvariance == Spec => []RotationInv
<1>1. Init => RotationInv
  BY DEF Init, EmptyPool, RotationInv, HandlesDistinct, TurnIsArc
<1>2. PoolInv /\ PoolInv' /\ RotationInv /\ [Next]_vars => RotationInv'
  BY StepRotation
<1> QED
  BY <1>1, <1>2, PoolInvariance, PTL DEF Spec

(* Round robin is fair between two changes of the pool: a backend is used  *)
(* a second time only when every active one has been used.                 *)
THEOREM RotationFair == Spec => FairRotation
<1> DEFINE A == \A r \in Request :
                  phase[r] = "choosing" /\ phase'[r] = "sent" /\ target'[r] \in turn =>
                      {b \in Handles(pool) : ~IsDown(pool, b)} \subseteq turn
<1>1. PoolInv /\ RotationInv /\ [Next]_vars => [A]_vars
  <2>1. SUFFICES ASSUME PoolInv, RotationInv, Next, NEW r \in Request,
                        phase[r] = "choosing", phase'[r] = "sent", target'[r] \in turn
                 PROVE  {b \in Handles(pool) : ~IsDown(pool, b)} \subseteq turn
    BY DEF A
  <2>2. TypeOK /\ Borrowed
    BY <2>1 DEF PoolInv, Borrowed
  <2>3. PICK q \in Request : GetStep(q)
    BY <2>1, <2>2 DEF Next, SendRequest, Respond, AddServer, MarkServerDown,
                      MarkServerActive, MarkServer
  <2>4. q = r
    BY <2>1, <2>3 DEF PoolInv, OneBorrower, GetStep
  <2>5. target'[r] = BackendAt(pool, NextIndex(pool))
    BY <2>1, <2>2, <2>3, <2>4, ChoiceFacts DEF TypeOK
  <2> QED
    BY <2>1, <2>3, <2>4, <2>5, TurnComplete
<1> QED
  BY <1>1, PoolInvariance, RotationInvariance, PTL DEF Spec, FairRotation

-----------------------------------------------------------------------------
(* The loop of get implements the atomic choice of RoundRobin *)

(* The index k places after x in a Vec of n *)
After(x, k, n) == IF x + k < n THEN x + k ELSE x + k - n

LEMMA AfterWraps ==
    ASSUME NEW n \in Nat \ {0}, NEW x \in 0 .. n - 1, NEW k \in 1 .. n
    PROVE  /\ (x + k) % n = After(x, k, n)
           /\ After(x, k, n) \in 0 .. n - 1
<1>1. (x + k) % n = IF x + k < n THEN x + k ELSE x + k - n
  OBVIOUS
<1>2. After(x, k, n) \in 0 .. n - 1
  BY DEF After
<1> QED
  BY <1>1, <1>2 DEF After

(* Every other index lies some way after x; up to there only the indices   *)
(* between the two are met.                                                *)
LEMMA AfterReaches ==
    ASSUME NEW n \in Nat \ {0}, NEW x \in 0 .. n - 1, NEW i \in 0 .. n - 1
    PROVE  \E d \in 1 .. n : /\ After(x, d, n) = i
                             /\ \A k \in 1 .. n : k < d => Between(x, After(x, k, n), i)
<1>1. CASE x < i
  <2>1. i - x \in 1 .. n /\ After(x, i - x, n) = i
    BY <1>1 DEF After
  <2>2. \A k \in 1 .. n : k < i - x => Between(x, After(x, k, n), i)
    BY <1>1 DEF After, Between
  <2> QED
    BY <2>1, <2>2
<1>2. CASE i <= x
  <2>1. i + n - x \in 1 .. n /\ After(x, i + n - x, n) = i
    BY <1>2 DEF After
  <2>2. \A k \in 1 .. n : k < i + n - x => Between(x, After(x, k, n), i)
    BY <1>2 DEF After, Between
  <2> QED
    BY <2>1, <2>2
<1> QED
  BY <1>1, <1>2

(* What the abstract pool sees: its offsets are the distances from the     *)
(* last choice to the backends that are not down.                          *)
LEMMA RingView ==
    ASSUME TypeOK, CursorInRange
    PROVE  /\ Len(Ring(pool)) = Len(pool.backends)
           /\ \A k \in 0 .. Len(pool.backends) - 1 :
                /\ Ring(pool)[k + 1].id = BackendAt(pool, k)
                /\ Ring(pool)[k + 1].state = pool.cell[BackendAt(pool, k)].state
           /\ \A k \in 1 .. Len(pool.backends) :
                RR!Slot(k) = After(LastChoice, k, Len(pool.backends))
           /\ RR!Offsets = {k \in 1 .. Len(pool.backends) :
                ~IsDown(pool, BackendAt(pool, After(LastChoice, k, Len(pool.backends))))}
<1>1. PICK n \in Nat : n = Len(pool.backends) /\ DOMAIN pool.backends = 1 .. n
  BY TypeFacts
<1>2. DOMAIN Ring(pool) = 1 .. n /\ Len(Ring(pool)) = n
  BY <1>1 DEF Ring
<1>3. \A k \in 0 .. n - 1 :
        /\ Ring(pool)[k + 1].id = BackendAt(pool, k)
        /\ Ring(pool)[k + 1].state = pool.cell[BackendAt(pool, k)].state
  BY <1>1 DEF Ring, BackendAt
<1>4. ASSUME NEW k \in 1 .. n
      PROVE  /\ RR!Slot(k) = After(LastChoice, k, n)
             /\ After(LastChoice, k, n) \in 0 .. n - 1
  <2>1. n \in Nat \ {0} /\ pool.backends # <<>>
    BY <1>1
  <2>2. LastChoice \in 0 .. n - 1
    BY <1>1, <2>1, TypeFacts DEF LastChoice, CursorInRange, TypeOK
  <2> QED
    BY <1>2, <2>1, <2>2, AfterWraps DEF RR!Slot
<1>5. ASSUME NEW k \in 1 .. n
      PROVE  Ring(pool)[RR!Slot(k) + 1].state # "Down"
               <=> ~IsDown(pool, BackendAt(pool, After(LastChoice, k, n)))
  <2>1. PICK j \in 0 .. n - 1 : j = RR!Slot(k) /\ j = After(LastChoice, k, n)
    BY <1>4
  <2>2. Ring(pool)[j + 1].state # "Down" <=> ~IsDown(pool, BackendAt(pool, j))
    BY <1>3 DEF IsDown
  <2> QED
    BY <2>1, <2>2
<1>6. RR!Offsets = {k \in 1 .. n : ~IsDown(pool, BackendAt(pool, After(LastChoice, k, n)))}
  BY <1>2, <1>5 DEF RR!Offsets
<1> QED
  BY <1>1, <1>2, <1>3, <1>4, <1>6

(* The iteration that chooses a backend is the abstract choice: the index  *)
(* it stops at is the nearest active one after start.                      *)
LEMMA ChoiceIsNearest ==
    ASSUME PoolInv, NEW r \in Request, GetStep(r), phase'[r] = "sent"
    PROVE  RR!Choose(r)
<1>1. PICK n \in Nat \ {0} : n = Len(pool.backends)
  BY GetStepFacts
<1>2. PICK i \in 0 .. n - 1 : i = NextIndex(pool)
  BY <1>1, GetStepFacts
<1>3. /\ TypeOK /\ CursorInRange /\ start \in 0 .. n - 1
      /\ pool'.cell = pool.cell /\ pool'.backends = pool.backends /\ pool'.last_used = i
      /\ phase[r] = "choosing"
  BY <1>1, <1>2, GetStepFacts DEF PoolInv, GetStep
<1>4. /\ ~IsDown(pool, BackendAt(pool, i)) /\ Borrowed /\ ~Borrowed'
      /\ phase' = [phase EXCEPT ![r] = "sent"]
      /\ target' = [target EXCEPT ![r] = BackendAt(pool, i)]
  BY <1>2, ChoiceFacts
<1>5. LastChoice = start /\ LastChoice' = i
  BY <1>3, <1>4 DEF LastChoice
<1>6. PICK d \in 1 .. n : /\ After(start, d, n) = i
                          /\ \A k \in 1 .. n : k < d => Between(start, After(start, k, n), i)
  BY <1>3, AfterReaches
<1>7. d \in RR!Offsets
  BY <1>1, <1>3, <1>4, <1>5, <1>6, RingView
<1>8. ASSUME NEW k \in RR!Offsets PROVE d <= k
  <2>1. k \in 1 .. n /\ ~IsDown(pool, BackendAt(pool, After(start, k, n)))
    BY <1>1, <1>3, <1>5, RingView
  <2>2. After(start, k, n) \in 0 .. n - 1
    BY <1>3, <2>1, AfterWraps
  <2>3. ~Between(start, After(start, k, n), i)
    BY <1>1, <1>2, <2>1, <2>2, PassedDown
  <2> QED
    BY <1>6, <2>1, <2>3
<1>9. RR!Min(RR!Offsets) = d
  <2>1. RR!Offsets \in SUBSET Nat
    BY <1>1, <1>3, RingView
  <2>2. Min(RR!Offsets) \in RR!Offsets /\ Min(RR!Offsets) <= d
    BY <1>7, <2>1, MinIsLeast
  <2>3. Min(RR!Offsets) = d
    <3>1. d <= Min(RR!Offsets)
      BY <1>8, <2>2
    <3>2. Min(RR!Offsets) \in Nat /\ d \in Nat
      BY <1>7, <2>1, <2>2
    <3> QED
      BY ONLY <2>2, <3>1, <3>2
  <2> QED
    BY <2>3 DEF RR!Min, Min
<1>10. RR!Slot(d) = i /\ Ring(pool)[i + 1].id = BackendAt(pool, i)
  <2>1. RR!Slot(d) = i
    BY <1>1, <1>3, <1>5, <1>6, RingView
  <2>2. Ring(pool)[i + 1].id = BackendAt(pool, i)
    BY <1>1, <1>2, <1>3, RingView
  <2> QED
    BY <2>1, <2>2
<1>11. r \in Waiting /\ Waiting' = Waiting \ {r}
  BY <1>3, <1>4 DEF Waiting, TypeOK
<1>12. Ring(pool)' = Ring(pool)
  BY <1>3 DEF Ring, IsDown
<1> QED
  BY <1>4, <1>5, <1>7, <1>9, <1>10, <1>11, <1>12 DEF RR!Choose

(* A request the loop gives up on is refused by the abstract pool too.     *)
LEMMA GivingUpIsRefusal ==
    ASSUME PoolInv, NEW r \in Request, GetStep(r), phase'[r] = "exhausted"
    PROVE  RR!Refuse(r)
<1>1. PICK n \in Nat \ {0} : n = Len(pool.backends)
  BY GetStepFacts
<1>2. /\ TypeOK /\ CursorInRange /\ Borrowed /\ start \in 0 .. n - 1
      /\ pool'.cell = pool.cell /\ pool'.backends = pool.backends
      /\ pool'.last_used = NextIndex(pool)
      /\ phase[r] = "choosing"
      /\ \A q \in Request : q # r => phase[q] # "choosing" /\ phase'[q] = phase[q]
  BY <1>1, GetStepFacts DEF PoolInv, GetStep, Borrowed
<1>3. /\ start = NextIndex(pool) /\ IsDown(pool, BackendAt(pool, NextIndex(pool)))
      /\ phase' = [phase EXCEPT ![r] = "exhausted"] /\ target' = target
  BY <1>2 DEF GetStep, TypeOK
<1>4. ~Borrowed'
  BY <1>2, <1>3 DEF Borrowed, TypeOK
<1>5. LastChoice = start /\ LastChoice' = start
  BY <1>2, <1>3, <1>4 DEF LastChoice
<1>6. ASSUME NEW k \in 0 .. n - 1 PROVE IsDown(pool, BackendAt(pool, k))
  <2>1. CASE k = start
    BY <1>3, <2>1
  <2>2. CASE k # start
    <3>1. Between(start, k, NextIndex(pool))
      BY <1>2, <1>3, <2>2 DEF Between
    <3> QED
      BY <1>1, <3>1, PassedDown
  <2> QED
    BY <2>1, <2>2
<1>7. RR!Offsets = {}
  <2>1. \A k \in 1 .. n : After(start, k, n) \in 0 .. n - 1
    BY <1>2, AfterWraps
  <2> QED
    BY <1>1, <1>2, <1>5, <1>6, <2>1, RingView
<1>8. r \in Waiting /\ Waiting' = Waiting \ {r}
  BY <1>2, <1>3 DEF Waiting, TypeOK
<1>9. Ring(pool)' = Ring(pool)
  BY <1>2 DEF Ring
<1> QED
  BY <1>3, <1>5, <1>7, <1>8, <1>9 DEF RR!Refuse

(* Every step of the pool is a step of the abstract pool, or none.         *)
LEMMA StepRefines ==
    ASSUME PoolInv, PoolInv', [Next]_vars
    PROVE  [RR!Next]_(RR!rrvars)
<1>1. TypeOK /\ CursorInRange /\ TypeOK'
  BY DEF PoolInv
<1>2. CASE UNCHANGED vars
  BY <1>2 DEF vars, RR!rrvars, Ring, LastChoice, Waiting, Borrowed
<1>r. ASSUME DOMAIN pool.backends \subseteq DOMAIN pool'.backends,
             \A i \in DOMAIN pool.backends : pool'.backends[i] = pool.backends[i],
             LastChoice' = LastChoice, Waiting' = Waiting, target' = target
      PROVE  RR!Next
  BY <1>r DEF RR!Next, RR!Reconfigure, Ring
<1>3. ASSUME NEW r \in Request, SendRequest(r) PROVE RR!Next
  <2>1. pool' = pool /\ target' = target /\ ~Borrowed /\ phase[r] = "new"
    BY <1>3 DEF SendRequest
  <2>2. CASE pool.backends = <<>>
    <3>1. phase' = [phase EXCEPT ![r] = "exhausted"]
      BY <1>3, <2>2 DEF SendRequest
    <3>2. ~Borrowed'
      BY <1>1, <2>1, <3>1 DEF Borrowed, TypeOK
    <3>3. LastChoice' = LastChoice
      BY <2>1, <3>2 DEF LastChoice
    <3>4. r \in Waiting /\ Waiting' = Waiting \ {r}
      BY <1>1, <2>1, <3>1 DEF Waiting, TypeOK
    <3>5. RR!Offsets = {}
      BY <1>1, <2>2, RingView
    <3>6. RR!Refuse(r)
      BY <2>1, <3>3, <3>4, <3>5 DEF RR!Refuse, Ring
    <3> QED
      BY <3>6 DEF RR!Next
  <2>3. CASE pool.backends # <<>>
    <3>1. phase' = [phase EXCEPT ![r] = "choosing"] /\ start' = pool.last_used
      BY <1>3, <2>3 DEF SendRequest
    <3>2. Borrowed'
      BY <1>1, <3>1 DEF Borrowed, TypeOK
    <3>3. LastChoice' = LastChoice
      BY <2>1, <3>1, <3>2 DEF LastChoice
    <3>4. Waiting' = Waiting
      BY <1>1, <2>1, <3>1 DEF Waiting, TypeOK
    <3> QED
      BY <1>r, <2>1, <3>3, <3>4
  <2> QED
    BY <2>2, <2>3
<1>4. ASSUME NEW r \in Request, GetStep(r) PROVE RR!Next
  <2>1. phase'[r] \in {"sent", "exhausted", "choosing"} /\ phase[r] = "choosing"
    BY <1>1, <1>4 DEF GetStep, TypeOK
  <2>2. CASE phase'[r] = "sent"
    BY <1>4, <2>2, ChoiceIsNearest DEF RR!Next
  <2>3. CASE phase'[r] = "exhausted"
    BY <1>4, <2>3, GivingUpIsRefusal DEF RR!Next
  <2>4. CASE phase'[r] = "choosing"
    <3>1. phase' = phase /\ start' = start /\ target' = target
      BY <1>1, <1>4, <2>1, <2>4 DEF GetStep, TypeOK
    <3>2. Borrowed /\ Borrowed'
      BY <2>1, <3>1 DEF Borrowed
    <3>3. pool'.backends = pool.backends
      BY <1>4 DEF GetStep, MoveCursor
    <3>4. LastChoice' = LastChoice /\ Waiting' = Waiting
      BY <3>1, <3>2 DEF LastChoice, Waiting
    <3> QED
      BY <1>r, <3>1, <3>3, <3>4
  <2> QED
    BY <2>1, <2>2, <2>3, <2>4
<1>5. ASSUME NEW r \in Request, NEW o \in Outcome, Respond(r, o) PROVE RR!Next
  <2>1. /\ ~Borrowed /\ phase[r] = "sent" /\ phase' = [phase EXCEPT ![r] = o]
        /\ target' = target /\ pool'.last_used = pool.last_used
        /\ pool'.backends = pool.backends
    BY <1>5 DEF Respond, IncSuccess, IncFailure, WithCell
  <2>2. ~Borrowed'
    BY <1>1, <2>1 DEF Borrowed, TypeOK, Outcome
  <2>3. Waiting' = Waiting
    BY <1>1, <2>1 DEF Waiting, TypeOK, Outcome
  <2>4. LastChoice' = LastChoice
    BY <2>1, <2>2 DEF LastChoice
  <2> QED
    BY <1>r, <2>1, <2>3, <2>4
<1>6. ASSUME ~Borrowed, phase' = phase, target' = target, pool'.last_used = pool.last_used,
             DOMAIN pool.backends \subseteq DOMAIN pool'.backends,
             \A i \in DOMAIN pool.backends : pool'.backends[i] = pool.backends[i]
      PROVE  RR!Next
  <2>1. ~Borrowed' /\ Waiting' = Waiting
    BY <1>6 DEF Borrowed, Waiting
  <2>2. LastChoice' = LastChoice
    BY <1>6, <2>1 DEF LastChoice
  <2> QED
    BY <1>r, <1>6, <2>1, <2>2
<1>7. ASSUME NEW s \in Server, AddServer(s) PROVE RR!Next
  <2>1. /\ ~Borrowed /\ phase' = phase /\ target' = target
        /\ pool' = pool \/ pool' = PushBackend(pool, s)
    BY <1>7 DEF AddServer, PoolAdd
  <2>2. /\ DOMAIN pool.backends = 1 .. Len(pool.backends) /\ Len(pool.backends) \in Nat
        /\ DOMAIN pool'.backends = 1 .. Len(pool'.backends)
    BY <1>1 DEF TypeOK, PoolType
  <2>3. /\ pool'.last_used = pool.last_used
        /\ DOMAIN pool.backends \subseteq DOMAIN pool'.backends
        /\ \A i \in DOMAIN pool.backends : pool'.backends[i] = pool.backends[i]
    BY <1>1, <2>1, <2>2, PushFacts DEF TypeOK
  <2> QED
    BY <1>6, <2>1, <2>3
<1>8. ASSUME NEW s \in Server, MarkServerDown(s) \/ MarkServerActive(s) PROVE RR!Next
  BY <1>6, <1>8 DEF MarkServerDown, MarkServerActive, MarkServer, MarkBackend, WithCell
<1> QED
  BY <1>2, <1>3, <1>4, <1>5, <1>7, <1>8 DEF Next

(* The loop of get implements the atomic round-robin choice: whatever the  *)
(* manager does to the pool, a request is given the nearest backend after  *)
(* the one used last that is not down, and is refused only if none is.     *)
THEOREM RoundRobinImplemented == Spec => ImplementsRoundRobin
<1>1. Init => RR!Init
  BY DEF Init, EmptyPool, RR!Init, Ring, LastChoice, Waiting, Borrowed
<1>2. PoolInv /\ PoolInv' /\ [Next]_vars => [RR!Next]_(RR!rrvars)
  BY StepRefines
<1> QED
  BY <1>1, <1>2, PoolInvariance, PTL DEF Spec, ImplementsRoundRobin, RR!Spec
=============================================================================
