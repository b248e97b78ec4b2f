------------------------- MODULE BackendHealthProofs ------------------------
(***************************************************************************)
(* Proofs about BackendHealth, for every set of servers, any number of     *)
(* backends and of overlapping checks, and all thresholds.                 *)
(***************************************************************************)
EXTENDS BackendHealth, PoolOpsProofs, SequenceTheorems

-----------------------------------------------------------------------------
(* The pool *)

(* In a pool that nothing leaves, the handles are the cells.               *)
LEMMA GrownHandles ==
    ASSUME NEW S, NEW p \in PoolType(S), Len(p.backends) = Len(p.cell),
           \A i \in DOMAIN p.backends : p.backends[i] = i
    PROVE  Handles(p) = DOMAIN p.cell /\ DOMAIN p.backends = DOMAIN p.cell
<1>1. DOMAIN p.backends = DOMAIN p.cell
  BY DEF PoolType
<1> QED
  BY <1>1 DEF Handles

-----------------------------------------------------------------------------
(* The rules of should_mark_active and should_mark_down *)

Below(h) ==
    h.consec < IF h.kind = "Failing" THEN Effective(Failures) ELSE Effective(Passes)

LEMMA PassRules ==
    ASSUME NEW b, NEW h \in HealthState, Below(h)
    PROVE  LET r == should_mark_active(b, h)
           IN  /\ r.entry \in HealthState /\ Below(r.entry) /\ r.mark \in BOOLEAN
               /\ r.mark => StateOf(b) # "Active" /\ r.entry.consec = 0
<1> USE HealthAssumption DEF HealthState, Below, Effective, should_mark_active, Passing, Failing
<1>1. CASE StateOf(b) = "Active" /\ h.kind = "Failing"
  BY <1>1
<1>2. CASE StateOf(b) = "Active" /\ h.kind # "Failing"
  BY <1>2
<1>3. CASE StateOf(b) # "Active" /\ h.kind = "Failing"
  BY <1>3
<1>4. CASE StateOf(b) # "Active" /\ h.kind # "Failing" /\ h.consec + 1 >= Passes
  BY <1>4
<1>5. CASE StateOf(b) # "Active" /\ h.kind # "Failing" /\ ~(h.consec + 1 >= Passes)
  BY <1>5
<1> QED
  BY <1>1, <1>2, <1>3, <1>4, <1>5

LEMMA FailRules ==
    ASSUME NEW b, NEW h \in HealthState, Below(h)
    PROVE  LET r == should_mark_down(b, h)
           IN  /\ r.entry \in HealthState /\ Below(r.entry) /\ r.mark \in BOOLEAN
               /\ r.mark => StateOf(b) # "Down" /\ r.entry.consec = 0
<1> USE HealthAssumption DEF HealthState, Below, Effective, should_mark_down, Passing, Failing
<1>1. CASE StateOf(b) = "Down" /\ h.kind = "Passing"
  BY <1>1
<1>2. CASE StateOf(b) = "Down" /\ h.kind # "Passing"
  BY <1>2
<1>3. CASE StateOf(b) # "Down" /\ h.kind = "Passing"
  BY <1>3
<1>4. CASE StateOf(b) # "Down" /\ h.kind # "Passing" /\ h.consec + 1 >= Failures
  BY <1>4
<1>5. CASE StateOf(b) # "Down" /\ h.kind # "Passing" /\ ~(h.consec + 1 >= Failures)
  BY <1>5
<1> QED
  BY <1>1, <1>2, <1>3, <1>4, <1>5

-----------------------------------------------------------------------------
(* The map *)

(* The inductive invariant                                                 *)
CheckerInv == HealthInv /\ BelowThreshold

(* The entry a backend finds is one of a backend of its server in the same *)
(* state; its own, if it is alone for its server.                          *)
LEMMA EntryFacts ==
    ASSUME CheckerInv, NEW b \in DOMAIN pool.cell, NEW k \in Entry(b)
    PROVE  /\ k \in Handles(pool) \X ServerState
           /\ k[1] \in DOMAIN pool.cell /\ k[2] = StateOf(b)
           /\ ServerOf(pool, k[1]) = ServerOf(pool, b)
           /\ Stored(k) \in HealthState /\ Below(Stored(k))
           /\ ~HasDuplicate(pool) => k = <<b, StateOf(b)>>
<1>1. /\ pool \in PoolType(Server) /\ Handles(pool) = DOMAIN pool.cell
      /\ DOMAIN health_state \subseteq Handles(pool) \X ServerState
      /\ health_state \in [DOMAIN health_state -> HealthState]
      /\ \A j \in DOMAIN health_state : Below(health_state[j])
      /\ Len(pool.backends) = Len(pool.cell)
      /\ \A i \in DOMAIN pool.backends : pool.backends[i] = i
  BY DEF CheckerInv, HealthInv, TypeOK, BelowThreshold, Grown, Below
<1>2. pool.cell[b] \in InnerBackend(Server) /\ StateOf(b) \in ServerState
  <2>1. pool.cell \in Seq(InnerBackend(Server))
    BY <1>1 DEF PoolType
  <2>2. pool.cell[b] \in InnerBackend(Server)
    BY <2>1
  <2> QED
    BY <2>2 DEF InnerBackend, StateOf
<1>3. Passing(0) \in HealthState /\ Below(Passing(0))
  BY HealthAssumption DEF Passing, HealthState, Below, Effective
<1>4. Stored(k) \in HealthState /\ Below(Stored(k))
  BY <1>1, <1>3 DEF Stored
<1>5. CASE Matches(b) = {}
  <2>1. k = <<b, StateOf(b)>>
    BY <1>5 DEF Entry
  <2> QED
    BY <1>1, <1>2, <1>4, <2>1
<1>6. CASE Matches(b) # {}
  <2>1. k \in DOMAIN health_state /\ k[2] = StateOf(b) /\ pool.cell[k[1]] = pool.cell[b]
    BY <1>6 DEF Entry, Matches
  <2>2. k \in Handles(pool) \X ServerState /\ k[1] \in DOMAIN pool.cell /\ k = <<k[1], k[2]>>
    BY <1>1, <2>1
  <2>3. ServerOf(pool, k[1]) = ServerOf(pool, b)
    BY <2>1 DEF ServerOf
  <2>4. ASSUME ~HasDuplicate(pool) PROVE k[1] = b
    <3>1. DOMAIN pool.backends = DOMAIN pool.cell
      BY <1>1, GrownHandles
    <3>2. pool.backends[b] = b /\ pool.backends[k[1]] = k[1]
      BY <1>1, <2>2, <3>1
    <3> QED
      BY <2>2, <2>3, <2>4, <3>1, <3>2 DEF HasDuplicate
  <2> QED
    BY <1>4, <2>1, <2>2, <2>3, <2>4
<1> QED
  BY <1>5, <1>6

-----------------------------------------------------------------------------
(* The invariant *)

LEMMA InitInv == Init => CheckerInv
<1> SUFFICES ASSUME Init PROVE CheckerInv
  OBVIOUS
<1>1. pool = [cell |-> <<>>, backends |-> <<>>, last_used |-> 0]
  BY DEF Init, EmptyPool
<1>2. pool.cell = <<>> /\ pool.backends = <<>> /\ pool.last_used = 0
  BY <1>1
<1>3. pool \in PoolType(Server)
  BY <1>1 DEF PoolType
<1>4. DOMAIN pool.cell = {} /\ Handles(pool) = {}
  BY <1>2 DEF Handles
<1>5. DOMAIN health_state = {} /\ health_state \in [DOMAIN health_state -> HealthState]
  BY DEF Init
<1>6. checks \in [Backend -> 0 .. MaxChecks] /\ \A b \in Backend : ~(checks[b] > 0)
  BY HealthAssumption DEF Init, Backend
<1>7. todo \in Seq(Handles(pool))
  BY DEF Init
<1>8. TypeOK
  BY <1>3, <1>4, <1>5, <1>6, <1>7 DEF TypeOK
<1>9. Grown
  BY <1>2 DEF Grown
<1> QED
  BY <1>5, <1>6, <1>8, <1>9 DEF CheckerInv, HealthInv, OnlyChecked, BelowThreshold, LeftBehindReset

(* A new server has a fresh cell at the end of the Vec, and no entry.      *)
LEMMA AddInv ==
    ASSUME CheckerInv, NEW s \in Server, AddServer(s)
    PROVE  CheckerInv'
<1> DEFINE n == Len(pool.cell)
<1>1. /\ pool \in PoolType(Server) /\ Handles(pool) = DOMAIN pool.cell
      /\ pool.cell \in Seq(InnerBackend(Server)) /\ pool.backends \in Seq(Nat \ {0})
      /\ n \in Nat /\ DOMAIN pool.cell = 1 .. n /\ DOMAIN pool.cell \subseteq Backend
      /\ UNCHANGED <<health_state, checks, todo>> /\ todo = <<>>
  BY DEF CheckerInv, HealthInv, TypeOK, PoolType, AddServer, Idle
<1>2. CASE PoolContains(pool, s)
  <2>1. pool' = pool
    BY <1>2 DEF AddServer, PoolAdd
  <2> QED
    BY <1>1, <2>1 DEF CheckerInv, HealthInv, TypeOK, Grown, OnlyChecked, BelowThreshold, LeftBehindReset, StateOf
<1>3. CASE ~PoolContains(pool, s)
  <2>1. pool' = PushBackend(pool, s) /\ n < MaxBackends
    BY <1>3 DEF AddServer, PoolAdd
  <2>2. /\ pool' \in PoolType(Server)
        /\ \A b \in 1 .. n : pool'.cell[b] = pool.cell[b]
        /\ Len(pool'.backends) = Len(pool.backends) + 1
        /\ \A i \in 1 .. Len(pool.backends) : pool'.backends[i] = pool.backends[i]
    BY <1>1, <2>1, PushFacts
  <2>3. pool'.cell = Append(pool.cell, NewBackend(s)) /\ pool'.backends = Append(pool.backends, n + 1)
    BY <2>1 DEF PushBackend
  <2>4. Len(pool'.cell) = n + 1 /\ DOMAIN pool'.cell = 1 .. n + 1
    BY <1>1, <2>3
  <2>5. Len(pool.backends) = n /\ \A i \in 1 .. n : pool.backends[i] = i
    BY <1>1 DEF CheckerInv, HealthInv, Grown
  <2>6. Grown'
    <3>1. DOMAIN pool'.backends = 1 .. n + 1 /\ pool'.backends[n + 1] = n + 1
      BY <1>1, <2>2, <2>3, <2>5
    <3>2. \A i \in 1 .. n : pool'.backends[i] = i
      BY <2>2, <2>5
    <3>3. \A i \in 1 .. n + 1 : i \in 1 .. n \/ i = n + 1
      BY <1>1
    <3>4. \A i \in 1 .. n + 1 : pool'.backends[i] = i
      BY <3>1, <3>2, <3>3
    <3>5. Len(pool'.backends) = Len(pool'.cell)
      BY <2>2, <2>4, <2>5
    <3> QED
      BY <3>1, <3>4, <3>5, <2>4 DEF Grown
  <2>7. Handles(pool') = 1 .. n + 1
    BY <2>2, <2>4, <2>6, GrownHandles DEF Grown
  <2>8. \A k \in DOMAIN health_state : k[1] \in 1 .. n
    BY <1>1 DEF CheckerInv, HealthInv, TypeOK
  <2>9. TypeOK'
    <3>1. 1 .. n + 1 \subseteq Backend
      BY <1>1, <2>1, HealthAssumption DEF Backend
    <3>2. DOMAIN health_state \subseteq Handles(pool') \X ServerState
      <4>1. 1 .. n \subseteq 1 .. n + 1
        BY <1>1
      <4>2. DOMAIN health_state \subseteq (1 .. n) \X ServerState
        BY <1>1 DEF CheckerInv, HealthInv, TypeOK
      <4> QED
        BY <2>7, <4>1, <4>2
    <3>3. todo' \in Seq(Handles(pool'))
      BY <1>1
    <3>4. /\ health_state \in [DOMAIN health_state -> HealthState]
          /\ checks \in [Backend -> 0 .. MaxChecks]
      BY DEF CheckerInv, HealthInv, TypeOK
    <3> QED
      BY <1>1, <2>2, <2>4, <2>7, <3>1, <3>2, <3>3, <3>4 DEF TypeOK
  <2>10. OnlyChecked'
    <3>1. \A b \in 1 .. n : ServerOf(pool', b) = ServerOf(pool, b) /\ b \in DOMAIN pool'.cell
      BY <1>1, <2>2, <2>4 DEF ServerOf
    <3> QED
      BY <1>1, <2>8, <3>1 DEF CheckerInv, HealthInv, OnlyChecked
  <2>11. LeftBehindReset'
    <3>1. \A b \in 1 .. n : StateOf(b)' = StateOf(b)
      BY <2>2 DEF StateOf
    <3>2. HasDuplicate(pool) => HasDuplicate(pool')
      <4>1. \A i \in 1 .. n : ServerOf(pool', pool'.backends[i]) = ServerOf(pool, pool.backends[i])
        BY <2>2, <2>5 DEF ServerOf
      <4>2. DOMAIN pool.backends = 1 .. n /\ 1 .. n \subseteq DOMAIN pool'.backends
        BY <1>1, <2>2, <2>5 DEF PoolType
      <4> QED
        BY <4>1, <4>2 DEF HasDuplicate
    <3>3. \A k \in DOMAIN health_state : StateOf(k[1])' = StateOf(k[1])
      BY <2>8, <3>1
    <3> QED
      BY <1>1, <3>2, <3>3 DEF CheckerInv, HealthInv, LeftBehindReset
  <2> QED
    BY <1>1, <2>6, <2>9, <2>10, <2>11 DEF CheckerInv, HealthInv, BelowThreshold
<1> QED
  BY <1>2, <1>3

LEMMA TickInv ==
    ASSUME CheckerInv, Tick
    PROVE  CheckerInv'
<1>1. todo' = pool.backends /\ UNCHANGED <<pool, health_state, checks>>
  BY DEF Tick
<1>2. pool.backends \in Seq(Handles(pool))
  <2>1. pool.backends \in Seq(Nat \ {0})
    BY DEF CheckerInv, HealthInv, TypeOK, PoolType
  <2>2. \A i \in 1 .. Len(pool.backends) : pool.backends[i] \in Handles(pool)
    BY <2>1 DEF Handles
  <2> QED
    BY <2>1, <2>2
<1> QED
  BY <1>1, <1>2 DEF CheckerInv, HealthInv, TypeOK, Grown, OnlyChecked, BelowThreshold, LeftBehindReset, StateOf

(* One turn of the loop of health::run.                                    *)
LEMMA CheckBackendInv ==
    ASSUME CheckerInv, CheckBackend
    PROVE  CheckerInv'
<1> DEFINE b == Head(todo)
<1>1. /\ pool \in PoolType(Server) /\ Handles(pool) = DOMAIN pool.cell
      /\ DOMAIN pool.cell \subseteq Backend /\ todo \in Seq(Handles(pool))
      /\ checks \in [Backend -> 0 .. MaxChecks] /\ MaxChecks \in Nat
  BY HealthAssumption DEF CheckerInv, HealthInv, TypeOK
<1>2. todo # <<>> /\ todo' = Tail(todo) /\ health_state' = health_state
  BY DEF CheckBackend, Idle
<1>3. b \in DOMAIN pool.cell /\ todo' \in Seq(Handles(pool))
  BY <1>1, <1>2
<1>4. CASE ServerOf(pool, b) \in BadHealthUrl
  <2>1. pool' = MarkBackend(pool, b, "Down") /\ checks' = checks
    BY <1>4 DEF CheckBackend
  <2> HIDE DEF b
  <2>2. /\ pool' \in PoolType(Server) /\ DOMAIN pool'.cell = DOMAIN pool.cell
        /\ Len(pool'.cell) = Len(pool.cell) /\ pool'.backends = pool.backends
        /\ \A d \in DOMAIN pool.cell :
              /\ ServerOf(pool', d) = ServerOf(pool, d)
              /\ pool'.cell[d].state = IF d = b THEN "Down" ELSE pool.cell[d].state
    BY <1>1, <1>3, <2>1, MarkFacts DEF ServerState
  <2>3. Handles(pool') = Handles(pool)
    BY <2>2 DEF Handles
  <2>4. \A k \in DOMAIN health_state : k[1] \in DOMAIN pool.cell /\ ServerOf(pool, k[1]) \notin BadHealthUrl
    BY <1>1 DEF CheckerInv, HealthInv, TypeOK, OnlyChecked
  <2>5. \A k \in DOMAIN health_state : StateOf(k[1])' = StateOf(k[1])
    BY <1>4, <2>2, <2>4 DEF StateOf
  <2>6. HasDuplicate(pool') <=> HasDuplicate(pool)
    BY <1>1, <2>2, SameDuplicates
  <2>7. TypeOK'
    BY <1>1, <1>2, <1>3, <2>1, <2>2, <2>3 DEF CheckerInv, HealthInv, TypeOK
  <2>8. Grown' /\ BelowThreshold'
    BY <1>2, <2>2 DEF CheckerInv, HealthInv, Grown, BelowThreshold
  <2>9. OnlyChecked'
    BY <1>2, <2>1, <2>2, <2>4 DEF CheckerInv, HealthInv, OnlyChecked
  <2>10. LeftBehindReset'
    BY <1>2, <2>5, <2>6 DEF CheckerInv, HealthInv, LeftBehindReset
  <2> QED
    BY <2>7, <2>8, <2>9, <2>10 DEF CheckerInv, HealthInv
<1>5. CASE ServerOf(pool, b) \notin BadHealthUrl
  <2>1. pool' = pool /\ checks' = [checks EXCEPT ![b] = IF @ < MaxChecks THEN @ + 1 ELSE @]
    BY <1>5 DEF CheckBackend
  <2> HIDE DEF b
  <2>2. checks' \in [Backend -> 0 .. MaxChecks]
    BY <1>1, <1>3, <2>1
  <2>3. TypeOK'
    BY <1>2, <1>3, <2>1, <2>2 DEF CheckerInv, HealthInv, TypeOK
  <2>4. OnlyChecked'
    BY <1>1, <1>2, <1>3, <1>5, <2>1 DEF CheckerInv, HealthInv, OnlyChecked
  <2> QED
    BY <1>2, <2>1, <2>3, <2>4 DEF CheckerInv, HealthInv, Grown, BelowThreshold, LeftBehindReset, StateOf
<1> QED
  BY <1>4, <1>5

(* Any answer, whichever rule is applied: the entry e is left, and with    *)
(* mark the backend gets the state st.                                     *)
LEMMA AnswerInv ==
    ASSUME CheckerInv, NEW b \in Backend, Answered(b), NEW k \in Entry(b),
           NEW e \in HealthState, Below(e), NEW mark \in BOOLEAN, NEW st \in ServerState,
           mark => StateOf(b) # st /\ e.consec = 0,
           health_state' = StoreAt(k, e),
           pool' = IF mark THEN MarkBackend(pool, b, st) ELSE pool
    PROVE  /\ CheckerInv'
           /\ Handles(pool') = Handles(pool)
           /\ HasDuplicate(pool') <=> HasDuplicate(pool)
           /\ \A d \in DOMAIN pool.cell :
                StateOf(d)' = IF mark /\ d = b THEN st ELSE StateOf(d)
<1>1. /\ pool \in PoolType(Server) /\ Handles(pool) = DOMAIN pool.cell
      /\ DOMAIN pool.cell \subseteq Backend /\ checks \in [Backend -> 0 .. MaxChecks]
      /\ DOMAIN health_state \subseteq Handles(pool) \X ServerState
      /\ health_state \in [DOMAIN health_state -> HealthState]
      /\ MaxChecks \in Nat
  BY HealthAssumption DEF CheckerInv, HealthInv, TypeOK
<1>2. /\ b \in DOMAIN pool.cell /\ checks[b] > 0 /\ todo' = todo
      /\ checks' = [checks EXCEPT ![b] = @ - 1]
  BY DEF Answered
<1>3. /\ k \in Handles(pool) \X ServerState /\ k[1] \in DOMAIN pool.cell /\ k[2] = StateOf(b)
      /\ ServerOf(pool, k[1]) = ServerOf(pool, b)
      /\ ~HasDuplicate(pool) => k = <<b, StateOf(b)>>
  BY <1>2, EntryFacts
<1>4. /\ DOMAIN health_state' = DOMAIN health_state \cup {k} /\ health_state'[k] = e
      /\ \A j \in DOMAIN health_state : j # k => health_state'[j] = health_state[j]
      /\ health_state' \in [DOMAIN health_state \cup {k} -> HealthState]
  BY <1>1 DEF StoreAt
<1>5. /\ pool' \in PoolType(Server) /\ DOMAIN pool'.cell = DOMAIN pool.cell
      /\ Len(pool'.cell) = Len(pool.cell) /\ pool'.backends = pool.backends
      /\ \A d \in DOMAIN pool.cell :
            /\ ServerOf(pool', d) = ServerOf(pool, d)
            /\ pool'.cell[d].state = IF mark /\ d = b THEN st ELSE pool.cell[d].state
  <2>1. CASE mark
    BY <1>1, <1>2, <2>1, MarkFacts
  <2>2. CASE ~mark
    BY <1>1, <2>2
  <2> QED
    BY <2>1, <2>2
<1>6. Handles(pool') = Handles(pool)
  BY <1>5 DEF Handles
<1>7. HasDuplicate(pool') <=> HasDuplicate(pool)
  BY <1>1, <1>5, SameDuplicates
<1>8. \A d \in DOMAIN pool.cell : StateOf(d)' = IF mark /\ d = b THEN st ELSE StateOf(d)
  BY <1>5 DEF StateOf
<1>9. TypeOK'
  <2>1. checks' \in [Backend -> 0 .. MaxChecks]
    BY <1>1, <1>2
  <2>2. DOMAIN health_state' \subseteq Handles(pool') \X ServerState
    BY <1>1, <1>3, <1>4, <1>6
  <2>3. todo' \in Seq(Handles(pool'))
    BY <1>2, <1>6 DEF CheckerInv, HealthInv, TypeOK
  <2> QED
    BY <1>1, <1>4, <1>5, <1>6, <2>1, <2>2, <2>3 DEF TypeOK
<1>10. Grown'
  BY <1>5 DEF CheckerInv, HealthInv, Grown
<1>11. OnlyChecked'
  <2>1. ServerOf(pool, b) \notin BadHealthUrl
    BY <1>2 DEF CheckerInv, HealthInv, OnlyChecked
  <2>2. \A d \in Backend : checks'[d] > 0 => checks[d] > 0
    BY <1>1, <1>2
  <2>3. \A j \in DOMAIN health_state : j[1] \in DOMAIN pool.cell /\ ServerOf(pool, j[1]) \notin BadHealthUrl
    BY <1>1 DEF CheckerInv, HealthInv, OnlyChecked
  <2>4. \A d \in Backend :
          checks'[d] > 0 => d \in DOMAIN pool'.cell /\ ServerOf(pool', d) \notin BadHealthUrl
    BY <1>5, <2>2 DEF CheckerInv, HealthInv, OnlyChecked
  <2>5. \A j \in DOMAIN health_state' : ServerOf(pool', j[1]) \notin BadHealthUrl
    BY <1>3, <1>4, <1>5, <2>1, <2>3
  <2> QED
    BY <2>4, <2>5 DEF OnlyChecked
<1>12. BelowThreshold'
  <2>1. \A j \in DOMAIN health_state : Below(health_state[j])
    BY DEF CheckerInv, HealthInv, BelowThreshold, Below
  <2>2. \A j \in DOMAIN health_state' : Below(health_state'[j])
    BY <1>4, <2>1
  <2> QED
    BY <2>2 DEF BelowThreshold, Below
<1>13. LeftBehindReset'
  <2>1. SUFFICES ASSUME ~HasDuplicate(pool), NEW j \in DOMAIN health_state',
                        j[2] # StateOf(j[1])', health_state'[j].kind = Contrary(j[2])
                 PROVE  health_state'[j].consec = 0
    BY <1>7 DEF LeftBehindReset, Contrary
  <2>2. k = <<b, StateOf(b)>>
    BY <1>3, <2>1
  <2>3. CASE j = k
    <3>1. mark
      BY <1>2, <1>8, <2>1, <2>2, <2>3
    <3> QED
      BY <1>4, <2>3, <3>1
  <2>4. CASE j # k
    <3>1. j \in DOMAIN health_state /\ health_state'[j] = health_state[j]
      BY <1>4, <2>4
    <3>2. j[1] \in DOMAIN pool.cell /\ j[2] \in ServerState /\ j = <<j[1], j[2]>>
      BY <1>1, <3>1
    <3>3. StateOf(j[1])' = StateOf(j[1])
      <4>1. CASE mark /\ j[1] = b
        <5>1. j[2] # StateOf(b)
          BY <2>2, <2>4, <3>2, <4>1
        <5>2. StateOf(b) \in ServerState
          BY <1>2, <1>3
        <5>3. j[2] = st
          BY <3>2, <4>1, <5>1, <5>2 DEF ServerState
        <5> QED
          BY <1>2, <1>8, <2>1, <4>1, <5>3
      <4>2. CASE ~(mark /\ j[1] = b)
        BY <1>8, <3>2, <4>2
      <4> QED
        BY <4>1, <4>2
    <3> QED
      BY <2>1, <3>1, <3>3 DEF CheckerInv, HealthInv, LeftBehindReset
  <2> QED
    BY <2>3, <2>4
<1> QED
  BY <1>6, <1>7, <1>8, <1>9, <1>10, <1>11, <1>12, <1>13 DEF CheckerInv, HealthInv

LEMMA NextInv == CheckerInv /\ [Next]_vars => CheckerInv'
<1> SUFFICES ASSUME CheckerInv, [Next]_vars PROVE CheckerInv'
  OBVIOUS
<1>1. CASE \E s \in Server : AddServer(s)
  BY <1>1, AddInv
<1>2. CASE Tick
  BY <1>2, TickInv
<1>3. CASE CheckBackend
  BY <1>3, CheckBackendInv
<1>4. ASSUME NEW b \in Backend, CheckPasses(b) PROVE CheckerInv'
  <2>1. PICK k \in Entry(b) :
          LET r == should_mark_active(b, Stored(k))
          IN  /\ health_state' = StoreAt(k, r.entry)
              /\ pool' = IF r.mark THEN MarkBackend(pool, b, "Active") ELSE pool
    BY <1>4 DEF CheckPasses
  <2>2. Answered(b) /\ b \in DOMAIN pool.cell
    BY <1>4 DEF CheckPasses, Answered
  <2>3. Stored(k) \in HealthState /\ Below(Stored(k))
    BY <2>2, EntryFacts
  <2> DEFINE r == should_mark_active(b, Stored(k))
  <2>4. /\ r.entry \in HealthState /\ Below(r.entry) /\ r.mark \in BOOLEAN
        /\ r.mark => StateOf(b) # "Active" /\ r.entry.consec = 0
    BY <2>3, PassRules
  <2>5. /\ health_state' = StoreAt(k, r.entry)
        /\ pool' = IF r.mark THEN MarkBackend(pool, b, "Active") ELSE pool
    BY <2>1
  <2>6. "Active" \in ServerState
    BY DEF ServerState
  <2> HIDE DEF r
  <2> QED
    BY <2>2, <2>4, <2>5, <2>6, AnswerInv
<1>5. ASSUME NEW b \in Backend, CheckFails(b) PROVE CheckerInv'
  <2>1. PICK k \in Entry(b) :
          LET r == should_mark_down(b, Stored(k))
          IN  /\ health_state' = StoreAt(k, r.entry)
              /\ pool' = IF r.mark THEN MarkBackend(pool, b, "Down") ELSE pool
    BY <1>5 DEF CheckFails
  <2>2. Answered(b) /\ b \in DOMAIN pool.cell
    BY <1>5 DEF CheckFails, Answered
  <2>3. Stored(k) \in HealthState /\ Below(Stored(k))
    BY <2>2, EntryFacts
  <2> DEFINE r == should_mark_down(b, Stored(k))
  <2>4. /\ r.entry \in HealthState /\ Below(r.entry) /\ r.mark \in BOOLEAN
        /\ r.mark => StateOf(b) # "Down" /\ r.entry.consec = 0
    BY <2>3, FailRules
  <2>5. /\ health_state' = StoreAt(k, r.entry)
        /\ pool' = IF r.mark THEN MarkBackend(pool, b, "Down") ELSE pool
    BY <2>1
  <2>6. "Down" \in ServerState
    BY DEF ServerState
  <2> HIDE DEF r
  <2> QED
    BY <2>2, <2>4, <2>5, <2>6, AnswerInv
<1>6. CASE UNCHANGED vars
  BY <1>6 DEF vars, CheckerInv, HealthInv, TypeOK, Grown, OnlyChecked, BelowThreshold, LeftBehindReset, StateOf
<1> QED
  BY <1>1, <1>2, <1>3, <1>4, <1>5, <1>6 DEF Next

LEMMA CheckerInvariance == Spec => []CheckerInv
BY InitInv, NextInv, PTL DEF Spec

(* What the counting rests on holds in every reachable state: above all,   *)
(* an entry left behind at a change of state has nothing counted in it.    *)
THEOREM HealthInvariance == Spec => []HealthInv
<1>1. CheckerInv => HealthInv
  BY DEF CheckerInv
<1> QED
  BY <1>1, CheckerInvariance, PTL

(* No entry of the map stays at or above its threshold, whatever backends  *)
(* share it: the answer that reaches the threshold marks the backend.      *)
THEOREM NoneAtThreshold == Spec => []BelowThreshold
<1>1. CheckerInv => BelowThreshold
  BY DEF CheckerInv
<1> QED
  BY <1>1, CheckerInvariance, PTL

-----------------------------------------------------------------------------
(* HealthThreshold is implemented.  Status and Streak are the values its   *)
(* variables are mapped to.                                                *)

Status == [b \in Backend |-> IF b \in Handles(pool) THEN StateOf(b) ELSE "Active"]

Counted(b) == IF Own(b).kind = Contrary(StateOf(b)) THEN Own(b).consec ELSE 0

Streak ==
    [b \in Backend |->
        IF b \in Handles(pool) /\ Own(b).kind = Contrary(StateOf(b)) THEN Own(b).consec ELSE 0]

LEMMA StreakFacts ==
    ASSUME NEW b \in Backend, b \in Handles(pool)
    PROVE  Streak[b] = Counted(b) /\ Status[b] = StateOf(b)
BY DEF Streak, Counted, Status

(* An answer changes the status and the count of its own backend only, and *)
(* a change of the status starts a new count.                              *)
LEMMA AnswerStreak ==
    ASSUME CheckerInv, NEW b \in Backend, Answered(b), NEW k \in Entry(b),
           NEW e \in HealthState, Below(e), NEW mark \in BOOLEAN, NEW st \in ServerState,
           mark => StateOf(b) # st /\ e.consec = 0,
           health_state' = StoreAt(k, e),
           pool' = IF mark THEN MarkBackend(pool, b, st) ELSE pool,
           ~HasDuplicate(pool')
    PROVE  /\ Stored(k) = Own(b)
           /\ Handles(pool') = Handles(pool) /\ b \in Handles(pool)
           /\ Status' = [Status EXCEPT ![b] = IF mark THEN st ELSE StateOf(b)]
           /\ Streak' = [Streak EXCEPT ![b] =
                            IF ~mark /\ e.kind = Contrary(StateOf(b)) THEN e.consec ELSE 0]
<1>1. /\ Handles(pool) = DOMAIN pool.cell
      /\ DOMAIN health_state \subseteq Handles(pool) \X ServerState
      /\ b \in DOMAIN pool.cell
  BY DEF CheckerInv, HealthInv, TypeOK, Answered
<1>2. /\ Handles(pool') = Handles(pool) /\ ~HasDuplicate(pool)
      /\ \A d \in DOMAIN pool.cell : StateOf(d)' = IF mark /\ d = b THEN st ELSE StateOf(d)
  BY AnswerInv
<1>3. k = <<b, StateOf(b)>>
  BY <1>1, <1>2, EntryFacts
<1>4. /\ DOMAIN health_state' = DOMAIN health_state \cup {k} /\ health_state'[k] = e
      /\ \A j \in DOMAIN health_state : j # k => health_state'[j] = health_state[j]
  BY DEF StoreAt
<1>5. \A j : Stored(j)' = IF j = k THEN e ELSE Stored(j)
  BY <1>4 DEF Stored
<1>6. ASSUME NEW d \in DOMAIN pool.cell, d # b
      PROVE  StateOf(d)' = StateOf(d) /\ Own(d)' = Own(d)
  <2>1. StateOf(d)' = StateOf(d)
    BY <1>2, <1>6
  <2>2. <<d, StateOf(d)>> # k
    BY <1>3, <1>6
  <2> QED
    BY <1>5, <2>1, <2>2 DEF Own
<1>7. ASSUME ~mark PROVE StateOf(b)' = StateOf(b) /\ Own(b)' = e
  <2>1. StateOf(b)' = StateOf(b)
    BY <1>1, <1>2, <1>7
  <2> QED
    BY <1>3, <1>5, <2>1 DEF Own
<1>8. ASSUME mark, Own(b)'.kind = Contrary(StateOf(b)') PROVE Own(b)'.consec = 0
  <2>1. StateOf(b)' = st /\ StateOf(b) # st
    BY <1>1, <1>2, <1>8
  <2> DEFINE j == <<b, st>>
  <2>2. j # k /\ j[1] = b /\ j[2] = st
    BY <1>3, <2>1
  <2>3. Own(b)' = Stored(j)
    BY <1>5, <2>1, <2>2 DEF Own
  <2>4. CASE j \in DOMAIN health_state
    <3>1. health_state[j].kind = Contrary(st) => health_state[j].consec = 0
      BY <1>2, <2>1, <2>2, <2>4 DEF CheckerInv, HealthInv, LeftBehindReset
    <3> QED
      BY <1>8, <2>1, <2>3, <2>4, <3>1 DEF Stored
  <2>5. CASE j \notin DOMAIN health_state
    BY <2>3, <2>5 DEF Stored, Passing
  <2> QED
    BY <2>4, <2>5
<1>9. Stored(k) = Own(b)
  BY <1>3 DEF Own
<1> DEFINE x == IF mark THEN st ELSE StateOf(b)
           y == IF ~mark /\ e.kind = Contrary(StateOf(b)) THEN e.consec ELSE 0
<1>10. Status' = [Status EXCEPT ![b] = x]
  <2>1. \A d \in Handles(pool) : StateOf(d)' = IF d = b THEN x ELSE StateOf(d)
    BY <1>1, <1>2
  <2> HIDE DEF x
  <2> QED
    BY <1>1, <1>2, <2>1 DEF Status
<1>11. Streak' = [Streak EXCEPT ![b] = y]
  <2>1. \A d \in Handles(pool) : Counted(d)' = IF d = b THEN y ELSE Counted(d)
    <3>1. ASSUME NEW d \in Handles(pool), d # b PROVE Counted(d)' = Counted(d)
      BY <1>1, <1>6, <3>1 DEF Counted
    <3>2. Counted(b)' = y
      BY <1>7, <1>8 DEF Counted
    <3> QED
      BY <3>1, <3>2
  <2>2. Streak = [d \in Backend |-> IF d \in Handles(pool) THEN Counted(d) ELSE 0]
    BY DEF Streak, Counted
  <2>3. Streak' = [d \in Backend |-> IF d \in Handles(pool) THEN Counted(d)' ELSE 0]
    BY <1>2 DEF Streak, Counted
  <2> HIDE DEF y
  <2> QED
    BY <1>1, <2>1, <2>2, <2>3
<1> QED
  BY <1>1, <1>2, <1>9, <1>10, <1>11

(* Answers that agree with the status, and that contradict it.             *)
LEMMA AgreeMaps ==
    ASSUME NEW b, Handles(pool') = Handles(pool), Status' = Status,
           Streak' = [Streak EXCEPT ![b] = 0]
    PROVE  H!Agree(b)
BY DEF H!Agree, Status, Streak

LEMMA ContradictMaps ==
    ASSUME NEW b, NEW n, NEW other, Handles(pool') = Handles(pool),
           \/ /\ Streak[b] + 1 < n
              /\ Streak' = [Streak EXCEPT ![b] = Streak[b] + 1]
              /\ Status' = Status
           \/ /\ Streak[b] + 1 >= n
              /\ Streak' = [Streak EXCEPT ![b] = 0]
              /\ Status' = [Status EXCEPT ![b] = other]
    PROVE  H!Contradict(b, n, other)
BY DEF H!Contradict, Status, Streak

LEMMA PassMaps ==
    ASSUME NEW b, b \in Handles(pool),
           Status[b] = "Active" => H!Agree(b),
           Status[b] # "Active" => H!Contradict(b, Passes, "Active")
    PROVE  H!Pass(b)
BY DEF H!Pass, Status

LEMMA FailMaps ==
    ASSUME NEW b, b \in Handles(pool),
           Status[b] = "Down" => H!Agree(b),
           Status[b] # "Down" => H!Contradict(b, Failures, "Down")
    PROVE  H!Fail(b)
BY DEF H!Fail, Status

(* A passed check is a Pass of HealthThreshold.                            *)
LEMMA PassRefines ==
    ASSUME CheckerInv, Passes >= 2, NEW b \in Backend, CheckPasses(b), ~HasDuplicate(pool')
    PROVE  H!Pass(b)
<1>1. PICK k \in Entry(b) :
        LET r == should_mark_active(b, Stored(k))
        IN  /\ health_state' = StoreAt(k, r.entry)
            /\ pool' = IF r.mark THEN MarkBackend(pool, b, "Active") ELSE pool
  BY DEF CheckPasses
<1>2. Answered(b) /\ b \in DOMAIN pool.cell /\ "Active" \in ServerState
  BY DEF CheckPasses, Answered, ServerState
<1> DEFINE h == Stored(k)
           r == should_mark_active(b, h)
<1>3. h \in HealthState /\ Below(h)
  BY <1>2, EntryFacts
<1>4. /\ r.entry \in HealthState /\ Below(r.entry) /\ r.mark \in BOOLEAN
      /\ r.mark => StateOf(b) # "Active" /\ r.entry.consec = 0
  BY <1>3, PassRules
<1>5. /\ health_state' = StoreAt(k, r.entry)
      /\ pool' = IF r.mark THEN MarkBackend(pool, b, "Active") ELSE pool
  BY <1>1
<1> HIDE DEF r, h
<1>6. /\ h = Own(b) /\ Handles(pool') = Handles(pool) /\ b \in Handles(pool)
      /\ Status' = [Status EXCEPT ![b] = IF r.mark THEN "Active" ELSE StateOf(b)]
      /\ Streak' = [Streak EXCEPT ![b] =
            IF ~r.mark /\ r.entry.kind = Contrary(StateOf(b)) THEN r.entry.consec ELSE 0]
  BY <1>2, <1>4, <1>5, AnswerStreak DEF h
<1>7. Status[b] = StateOf(b) /\ Streak[b] = IF h.kind = Contrary(StateOf(b)) THEN h.consec ELSE 0
  BY <1>6, StreakFacts DEF Counted
<1>8. Status = [Status EXCEPT ![b] = StateOf(b)]
  BY <1>7 DEF Status
<1>9. ASSUME StateOf(b) = "Active" PROVE H!Agree(b)
  <2>1. ~r.mark
    BY <1>4, <1>9
  <2>2. r.entry.kind # "Failing"
    BY <1>3, <1>9 DEF r, should_mark_active, HealthState, Passing
  <2>3. Streak' = [Streak EXCEPT ![b] = 0] /\ Status' = Status
    BY <1>6, <1>8, <1>9, <2>1, <2>2 DEF Contrary
  <2> QED
    BY <1>6, <2>3, AgreeMaps
<1>10. ASSUME StateOf(b) # "Active" PROVE H!Contradict(b, Passes, "Active")
  <2>1. Contrary(StateOf(b)) = "Passing"
    BY <1>10 DEF Contrary
  <2>2. h.consec \in Nat /\ h.kind \in {"Passing", "Failing"} /\ Passes \in Nat
    BY <1>3, HealthAssumption DEF HealthState
  <2>3. CASE h.kind = "Failing"
    <3>1. ~r.mark /\ r.entry.kind = "Passing" /\ r.entry.consec = 1
      BY <1>10, <2>3 DEF r, should_mark_active, Passing
    <3>2. Streak[b] = 0
      BY <1>7, <2>1, <2>3
    <3>3. Streak' = [Streak EXCEPT ![b] = Streak[b] + 1] /\ Status' = Status
      BY <1>6, <1>8, <2>1, <3>1, <3>2
    <3>4. Streak[b] + 1 < Passes
      BY <2>2, <3>2
    <3> QED
      BY <1>6, <3>3, <3>4, ContradictMaps
  <2>4. CASE h.kind = "Passing" /\ h.consec + 1 >= Passes
    <3>1. r.mark
      BY <1>10, <2>4 DEF r, should_mark_active
    <3>2. Streak[b] = h.consec
      BY <1>7, <2>1, <2>4
    <3>3. Streak' = [Streak EXCEPT ![b] = 0] /\ Status' = [Status EXCEPT ![b] = "Active"]
      BY <1>6, <3>1
    <3> QED
      BY <1>6, <2>4, <3>2, <3>3, ContradictMaps
  <2>5. CASE h.kind = "Passing" /\ ~(h.consec + 1 >= Passes)
    <3>1. ~r.mark /\ r.entry.kind = "Passing" /\ r.entry.consec = h.consec + 1
      BY <1>10, <2>5 DEF r, should_mark_active, Passing
    <3>2. Streak[b] = h.consec
      BY <1>7, <2>1, <2>5
    <3>3. Streak' = [Streak EXCEPT ![b] = Streak[b] + 1] /\ Status' = Status
      BY <1>6, <1>8, <2>1, <3>1, <3>2
    <3>4. Streak[b] + 1 < Passes
      BY <2>2, <2>5, <3>2
    <3> QED
      BY <1>6, <3>3, <3>4, ContradictMaps
  <2> QED
    BY <2>2, <2>3, <2>4, <2>5
<1> QED
  BY <1>6, <1>7, <1>9, <1>10, PassMaps

(* A failed one is a Fail.                                                 *)
LEMMA FailRefines ==
    ASSUME CheckerInv, Failures >= 2, NEW b \in Backend, CheckFails(b), ~HasDuplicate(pool')
    PROVE  H!Fail(b)
<1>1. PICK k \in Entry(b) :
        LET r == should_mark_down(b, Stored(k))
        IN  /\ health_state' = StoreAt(k, r.entry)
            /\ pool' = IF r.mark THEN MarkBackend(pool, b, "Down") ELSE pool
  BY DEF CheckFails
<1>2. Answered(b) /\ b \in DOMAIN pool.cell /\ "Down" \in ServerState
  BY DEF CheckFails, Answered, ServerState
<1> DEFINE h == Stored(k)
           r == should_mark_down(b, h)
<1>3. h \in HealthState /\ Below(h) /\ StateOf(b) \in ServerState
  BY <1>2, EntryFacts
<1>4. /\ r.entry \in HealthState /\ Below(r.entry) /\ r.mark \in BOOLEAN
      /\ r.mark => StateOf(b) # "Down" /\ r.entry.consec = 0
  BY <1>3, FailRules
<1>5. /\ health_state' = StoreAt(k, r.entry)
      /\ pool' = IF r.mark THEN MarkBackend(pool, b, "Down") ELSE pool
  BY <1>1
<1> HIDE DEF r, h
<1>6. /\ h = Own(b) /\ Handles(pool') = Handles(pool) /\ b \in Handles(pool)
      /\ Status' = [Status EXCEPT ![b] = IF r.mark THEN "Down" ELSE StateOf(b)]
      /\ Streak' = [Streak EXCEPT ![b] =
            IF ~r.mark /\ r.entry.kind = Contrary(StateOf(b)) THEN r.entry.consec ELSE 0]
  BY <1>2, <1>4, <1>5, AnswerStreak DEF h
<1>7. Status[b] = StateOf(b) /\ Streak[b] = IF h.kind = Contrary(StateOf(b)) THEN h.consec ELSE 0
  BY <1>6, StreakFacts DEF Counted
<1>8. Status = [Status EXCEPT ![b] = StateOf(b)]
  BY <1>7 DEF Status
<1>9. ASSUME StateOf(b) = "Down" PROVE H!Agree(b)
  <2>1. ~r.mark
    BY <1>4, <1>9
  <2>2. r.entry.kind # "Passing"
    BY <1>3, <1>9 DEF r, should_mark_down, HealthState, Failing
  <2>3. Streak' = [Streak EXCEPT ![b] = 0] /\ Status' = Status
    BY <1>6, <1>8, <1>9, <2>1, <2>2 DEF Contrary
  <2> QED
    BY <1>6, <2>3, AgreeMaps
<1>10. ASSUME StateOf(b) # "Down" PROVE H!Contradict(b, Failures, "Down")
  <2>1. Contrary(StateOf(b)) = "Failing"
    BY <1>3, <1>10 DEF Contrary, ServerState
  <2>2. h.consec \in Nat /\ h.kind \in {"Passing", "Failing"} /\ Failures \in Nat
    BY <1>3, HealthAssumption DEF HealthState
  <2>3. CASE h.kind = "Passing"
    <3>1. ~r.mark /\ r.entry.kind = "Failing" /\ r.entry.consec = 1
      BY <1>10, <2>3 DEF r, should_mark_down, Failing
    <3>2. Streak[b] = 0
      BY <1>7, <2>1, <2>3
    <3>3. Streak' = [Streak EXCEPT ![b] = Streak[b] + 1] /\ Status' = Status
      BY <1>6, <1>8, <2>1, <3>1, <3>2
    <3>4. Streak[b] + 1 < Failures
      BY <2>2, <3>2
    <3> QED
      BY <1>6, <3>3, <3>4, ContradictMaps
  <2>4. CASE h.kind = "Failing" /\ h.consec + 1 >= Failures
    <3>1. r.mark
      BY <1>10, <2>4 DEF r, should_mark_down
    <3>2. Streak[b] = h.consec
      BY <1>7, <2>1, <2>4
    <3>3. Streak' = [Streak EXCEPT ![b] = 0] /\ Status' = [Status EXCEPT ![b] = "Down"]
      BY <1>6, <3>1
    <3> QED
      BY <1>6, <2>4, <3>2, <3>3, ContradictMaps
  <2>5. CASE h.kind = "Failing" /\ ~(h.consec + 1 >= Failures)
    <3>1. ~r.mark /\ r.entry.kind = "Failing" /\ r.entry.consec = h.consec + 1
      BY <1>10, <2>5 DEF r, should_mark_down, Failing
    <3>2. Streak[b] = h.consec
      BY <1>7, <2>1, <2>5
    <3>3. Streak' = [Streak EXCEPT ![b] = Streak[b] + 1] /\ Status' = Status
      BY <1>6, <1>8, <2>1, <3>1, <3>2
    <3>4. Streak[b] + 1 < Failures
      BY <2>2, <2>5, <3>2
    <3> QED
      BY <1>6, <3>3, <3>4, ContradictMaps
  <2> QED
    BY <2>2, <2>3, <2>4, <2>5
<1> QED
  BY <1>6, <1>7, <1>9, <1>10, FailMaps

(* A server the pool takes is an Add; one it has already is a stutter.     *)
LEMMA AddRefines ==
    ASSUME CheckerInv, CheckerInv', NEW s \in Server, AddServer(s)
    PROVE  [H!Next]_(H!hvars)
<1> DEFINE n == Len(pool.cell)
<1>1. /\ pool \in PoolType(Server) /\ pool.cell \in Seq(InnerBackend(Server))
      /\ Handles(pool) = DOMAIN pool.cell /\ Handles(pool') = DOMAIN pool'.cell
      /\ DOMAIN pool'.cell \subseteq Backend
      /\ n \in Nat /\ DOMAIN pool.cell = 1 .. n
      /\ DOMAIN health_state \subseteq Handles(pool) \X ServerState
      /\ health_state' = health_state
  BY DEF CheckerInv, HealthInv, TypeOK, PoolType, AddServer
<1>2. CASE PoolContains(pool, s)
  <2>1. pool' = pool
    BY <1>2 DEF AddServer, PoolAdd
  <2> QED
    BY <1>1, <2>1 DEF H!hvars, StateOf, Own, Stored
<1>3. CASE ~PoolContains(pool, s)
  <2>1. pool'.cell = Append(pool.cell, NewBackend(s))
    BY <1>3 DEF AddServer, PoolAdd, PushBackend
  <2>2. /\ DOMAIN pool'.cell = 1 .. n + 1
        /\ \A d \in 1 .. n : pool'.cell[d] = pool.cell[d]
        /\ pool'.cell[n + 1] = NewBackend(s)
    BY <1>1, <2>1
  <2>0. PICK b \in Backend : b = n + 1
    BY <1>1, <2>2
  <2>3. b \notin Handles(pool) /\ Handles(pool') = Handles(pool) \cup {b}
    BY <1>1, <2>2, <2>0
  <2>4. \A d \in Handles(pool) : StateOf(d)' = StateOf(d) /\ Own(d)' = Own(d)
    BY <1>1, <2>2 DEF StateOf, Own, Stored
  <2>5. StateOf(b)' = "Active"
    BY <2>2, <2>0 DEF StateOf, NewBackend
  <2>6. Own(b)' = Passing(0)
    <3>1. <<b, StateOf(b)'>> \notin DOMAIN health_state
      BY <1>1, <2>3
    <3> QED
      BY <1>1, <3>1 DEF Own, Stored
  <2>7. Status' = Status
    BY <2>3, <2>4, <2>5 DEF Status
  <2>8. Streak' = Streak
    <3>1. Own(b)'.kind # Contrary(StateOf(b)')
      BY <2>5, <2>6 DEF Passing, Contrary
    <3>2. \A d \in Handles(pool) : Contrary(StateOf(d)') = Contrary(StateOf(d))
      BY <2>4
    <3>3. \A d \in Backend :
            (d \in Handles(pool') /\ Own(d)'.kind = Contrary(StateOf(d)'))
              <=> (d \in Handles(pool) /\ Own(d).kind = Contrary(StateOf(d)))
      BY <2>3, <2>4, <3>1, <3>2
    <3> QED
      BY <2>4, <3>3 DEF Streak, Contrary
  <2>9. H!Add(b)
    BY <2>3, <2>7, <2>8 DEF H!Add, Status, Streak
  <2> QED
    BY <2>3, <2>9 DEF H!Next
<1> QED
  BY <1>2, <1>3

(* A backend that cannot be checked is disabled; a check that is sent      *)
(* changes nothing.                                                        *)
LEMMA CheckBackendRefines ==
    ASSUME CheckerInv, CheckBackend
    PROVE  [H!Next]_(H!hvars)
<1>1. /\ pool \in PoolType(Server) /\ Handles(pool) = DOMAIN pool.cell
      /\ DOMAIN pool.cell \subseteq Backend /\ todo \in Seq(Handles(pool))
      /\ DOMAIN health_state \subseteq Handles(pool) \X ServerState
  BY DEF CheckerInv, HealthInv, TypeOK
<1>2. todo # <<>> /\ health_state' = health_state
  BY DEF CheckBackend, Idle
<1>3. PICK b \in DOMAIN pool.cell : b = Head(todo)
  BY <1>1, <1>2
<1>4. CASE ServerOf(pool, b) \in BadHealthUrl
  <2>1. pool' = MarkBackend(pool, b, "Down")
    BY <1>3, <1>4 DEF CheckBackend
  <2>2. /\ DOMAIN pool'.cell = DOMAIN pool.cell /\ pool'.backends = pool.backends
        /\ \A d \in DOMAIN pool.cell :
              pool'.cell[d].state = IF d = b THEN "Down" ELSE pool.cell[d].state
    BY <1>1, <1>3, <2>1, MarkFacts DEF ServerState
  <2>3. Handles(pool') = Handles(pool)
    BY <2>2 DEF Handles
  <2>4. \A d \in Handles(pool) : StateOf(d)' = IF d = b THEN "Down" ELSE StateOf(d)
    BY <1>1, <2>2 DEF StateOf
  <2>5. \A d \in Handles(pool) : d # b => Own(d)' = Own(d)
    BY <1>2, <2>4 DEF Own, Stored
  <2>6. Own(b) = Passing(0) /\ Own(b)' = Passing(0)
    <3>1. \A st : <<b, st>> \notin DOMAIN health_state
      <4>1. \A k \in DOMAIN health_state : ServerOf(pool, k[1]) \notin BadHealthUrl
        BY DEF CheckerInv, HealthInv, OnlyChecked
      <4> QED
        BY <1>4, <4>1
    <3> QED
      BY <1>2, <3>1 DEF Own, Stored
  <2>7. Status' = [d \in Backend |-> IF d \in {b} THEN "Down" ELSE Status[d]]
    BY <1>1, <1>3, <2>3, <2>4 DEF Status
  <2>8. Streak' = Streak
    <3>1. \A d \in Handles(pool) : Counted(d)' = Counted(d)
      <4>1. \A d \in Handles(pool) : d # b => Counted(d)' = Counted(d)
        BY <2>4, <2>5 DEF Counted
      <4>2. Counted(b) = 0 /\ Counted(b)' = 0
        BY <2>6 DEF Counted, Passing
      <4> QED
        BY <4>1, <4>2
    <3>2. Streak = [d \in Backend |-> IF d \in Handles(pool) THEN Counted(d) ELSE 0]
      BY DEF Streak, Counted
    <3>3. Streak' = [d \in Backend |-> IF d \in Handles(pool) THEN Counted(d)' ELSE 0]
      BY <2>3 DEF Streak, Counted
    <3> QED
      BY <3>1, <3>2, <3>3
  <2>9. H!Disable({b})
    BY <1>1, <1>3, <2>3, <2>7, <2>8 DEF H!Disable, Status, Streak
  <2>10. {b} \in SUBSET Backend
    BY <1>1, <1>3
  <2> QED
    BY <2>9, <2>10 DEF H!Next
<1>5. CASE ServerOf(pool, b) \notin BadHealthUrl
  <2>1. pool' = pool
    BY <1>3, <1>5 DEF CheckBackend
  <2> QED
    BY <1>2, <2>1 DEF H!hvars, StateOf, Own, Stored
<1> QED
  BY <1>4, <1>5

(* With thresholds of at least two, as in Config::default, and one backend *)
(* per server, the checker changes a state exactly at the configured       *)
(* number of consecutive answers: the map keyed by a mutable backend       *)
(* implements HealthThreshold.  Below two it does not, since the first     *)
(* contradicting answer never fires.                                       *)
THEOREM CountingIsExact ==
    ASSUME Failures >= 2, Passes >= 2
    PROVE  Spec => CountsConsecutive
<1>1. CheckerInv /\ CheckerInv' /\ [Next]_vars =>
        [~HasDuplicate(pool') =>
            /\ [H!Next]_(H!hvars)
            /\ \A b \in Backend : /\ CheckPasses(b) => H!Pass(b)
                                  /\ CheckFails(b) => H!Fail(b)]_vars
  <2> SUFFICES ASSUME CheckerInv, CheckerInv', Next, ~HasDuplicate(pool')
               PROVE  /\ [H!Next]_(H!hvars)
                      /\ \A b \in Backend : /\ CheckPasses(b) => H!Pass(b)
                                            /\ CheckFails(b) => H!Fail(b)
    OBVIOUS
  <2>1. \A b \in Backend : CheckPasses(b) => H!Pass(b)
    BY PassRefines
  <2>2. \A b \in Backend : CheckFails(b) => H!Fail(b)
    BY FailRefines
  <2>3. [H!Next]_(H!hvars)
    <3>1. CASE \E s \in Server : AddServer(s)
      BY <3>1, AddRefines
    <3>2. CASE Tick
      BY <3>2 DEF Tick, H!hvars, StateOf, Own, Stored
    <3>3. CASE CheckBackend
      BY <3>3, CheckBackendRefines
    <3>4. CASE \E b \in Backend : CheckPasses(b) \/ CheckFails(b)
      BY <2>1, <2>2, <3>4 DEF H!Next
    <3> QED
      BY <3>1, <3>2, <3>3, <3>4 DEF Next
  <2> QED
    BY <2>1, <2>2, <2>3
<1> QED
  BY <1>1, CheckerInvariance, PTL DEF Spec, CountsConsecutive
=============================================================================
