--------------------------- MODULE PoolOpsProofs ----------------------------
(***************************************************************************)
(* What the operations on a pool do, for every set S of servers.  Every    *)
(* module that holds a pool proves its invariants from these lemmas.       *)
(***************************************************************************)
EXTENDS PoolOps, WellFoundedInduction, TLAPS

(* The cursor's turn, `(self.last_used + 1) % self.backends.len()`, is the *)
(* next index, or 0 after the last one.                                    *)
LEMMA NextWraps ==
    ASSUME NEW n \in Nat \ {0}, NEW i \in Nat, i < n
    PROVE  (i + 1) % n = IF i + 1 = n THEN 0 ELSE i + 1
OBVIOUS

(* InnerPool::add: the new handle is fresh, it names an active backend of  *)
(* s, and the backends already in the Vec are untouched.                   *)
LEMMA PushFacts ==
    ASSUME NEW S, NEW p \in PoolType(S), NEW s \in S,
           Handles(p) \subseteq DOMAIN p.cell
    PROVE  LET q == PushBackend(p, s)
               n == Len(p.backends)
           IN  /\ q \in PoolType(S)
               /\ Handles(q) \subseteq DOMAIN q.cell
               /\ DOMAIN p.cell \subseteq DOMAIN q.cell
               /\ \A b \in DOMAIN p.cell : q.cell[b] = p.cell[b]
               /\ Len(q.backends) = n + 1
               /\ \A i \in 1 .. n : q.backends[i] = p.backends[i]
               /\ ServerOf(q, q.backends[n + 1]) = s
               /\ q.last_used = p.last_used
<1> DEFINE q == PushBackend(p, s)
           n == Len(p.backends)
           m == Len(p.cell)
<1>1. /\ p.cell \in Seq(InnerBackend(S))
      /\ p.backends \in Seq(Nat \ {0})
      /\ p.last_used \in Nat
  BY DEF PoolType
<1>2. NewBackend(s) \in InnerBackend(S) /\ NewBackend(s).server = s
  BY DEF NewBackend, InnerBackend, ServerState
<1>3. /\ q.cell = Append(p.cell, NewBackend(s))
      /\ q.backends = Append(p.backends, m + 1)
      /\ q.last_used = p.last_used
      /\ q = [cell |-> q.cell, backends |-> q.backends, last_used |-> q.last_used]
  BY DEF PushBackend
<1> HIDE DEF q
<1>4. /\ q.cell \in Seq(InnerBackend(S))
      /\ DOMAIN q.cell = 1 .. m + 1
      /\ \A b \in 1 .. m : q.cell[b] = p.cell[b]
      /\ q.cell[m + 1] = NewBackend(s)
  BY <1>1, <1>2, <1>3
<1>5. /\ q.backends \in Seq(Nat \ {0})
      /\ Len(q.backends) = n + 1
      /\ \A i \in 1 .. n : q.backends[i] = p.backends[i]
      /\ q.backends[n + 1] = m + 1
  BY <1>1, <1>3
<1>6. q \in PoolType(S)
  BY <1>1, <1>3, <1>4, <1>5 DEF PoolType
<1>7. Handles(q) \subseteq DOMAIN q.cell
  <2>1. SUFFICES ASSUME NEW i \in DOMAIN q.backends
                 PROVE  q.backends[i] \in DOMAIN q.cell
    BY DEF Handles
  <2>2. CASE i \in 1 .. n
    <3>1. i \in DOMAIN p.backends
      BY <1>1, <2>2
    <3>2. p.backends[i] \in DOMAIN p.cell
      BY <3>1 DEF Handles
    <3>3. DOMAIN p.cell = 1 .. m /\ m \in Nat
      BY <1>1
    <3>4. q.backends[i] = p.backends[i]
      BY <1>5, <2>2
    <3> QED
      BY <1>4, <3>2, <3>3, <3>4
  <2>3. CASE i = n + 1
    BY <1>1, <1>4, <1>5, <2>3
  <2> QED
    BY <1>1, <1>5, <2>1, <2>2, <2>3
<1>8. DOMAIN p.cell = 1 .. m /\ DOMAIN p.cell \subseteq DOMAIN q.cell
  BY <1>1, <1>4
<1>9. ServerOf(q, q.backends[n + 1]) = s
  BY <1>2, <1>4, <1>5 DEF ServerOf
<1> QED
  BY <1>3, <1>4, <1>5, <1>6, <1>7, <1>8, <1>9 DEF q

(* A nonempty set of numbers has a least element, so Min is one.           *)
LEMMA MinIsLeast ==
    ASSUME NEW T \in SUBSET Nat, T # {}
    PROVE  Min(T) \in T /\ \A k \in T : Min(T) <= k
<1> DEFINE R == OpToRel(<, Nat)
<1>1. IsWellFoundedOn(R, Nat)
  BY NatLessThanWellFounded
<1>2. \A u, v \in Nat : u < v => <<u, v>> \in R
  BY DEF OpToRel
<1> HIDE DEF R
<1>3. PICK x \in T : \A y \in T : <<y, x>> \notin R
  BY <1>1, WFMin
<1>4. \A y \in T : x <= y
  <2>1. SUFFICES ASSUME NEW y \in T, y < x PROVE FALSE
    OBVIOUS
  <2>2. x \in Nat /\ y \in Nat
    OBVIOUS
  <2>3. <<y, x>> \in R
    BY <1>2, <2>1, <2>2
  <2> QED
    BY <1>3, <2>3
<1> QED
  BY <1>3, <1>4 DEF Min

(* InnerPool::find returns a handle of the pool whose server is s.         *)
LEMMA FindFacts ==
    ASSUME NEW S, NEW p \in PoolType(S), NEW s \in S,
           Handles(p) \subseteq DOMAIN p.cell, Positions(p, s) # {}
    PROVE  /\ PoolFind(p, s) \in Handles(p)
           /\ PoolFind(p, s) \in DOMAIN p.cell
           /\ ServerOf(p, PoolFind(p, s)) = s
<1>1. Positions(p, s) \in SUBSET Nat
  BY DEF Positions, PoolType
<1>2. Min(Positions(p, s)) \in Positions(p, s)
  BY <1>1, MinIsLeast
<1> QED
  BY <1>2 DEF Positions, PoolFind, Handles

(* A write through a handle that keeps the server changes one cell.        *)
LEMMA WithCellFacts ==
    ASSUME NEW S, NEW p \in PoolType(S), NEW b \in DOMAIN p.cell,
           NEW c \in InnerBackend(S), c.server = p.cell[b].server
    PROVE  LET q == WithCell(p, b, c)
           IN  /\ q \in PoolType(S)
               /\ DOMAIN q.cell = DOMAIN p.cell
               /\ q.backends = p.backends
               /\ q.last_used = p.last_used
               /\ \A d \in DOMAIN p.cell :
                    /\ ServerOf(q, d) = ServerOf(p, d)
                    /\ q.cell[d] = IF d = b THEN c ELSE p.cell[d]
BY DEF PoolType, InnerBackend, WithCell, ServerOf

(* mark_active and mark_down change the state of one backend.              *)
LEMMA MarkFacts ==
    ASSUME NEW S, NEW p \in PoolType(S), NEW b \in DOMAIN p.cell, NEW st \in ServerState
    PROVE  LET q == MarkBackend(p, b, st)
           IN  /\ q \in PoolType(S)
               /\ DOMAIN q.cell = DOMAIN p.cell
               /\ Len(q.cell) = Len(p.cell)
               /\ q.backends = p.backends
               /\ \A d \in DOMAIN p.cell :
                    /\ ServerOf(q, d) = ServerOf(p, d)
                    /\ q.cell[d].state = IF d = b THEN st ELSE p.cell[d].state
<1> DEFINE c == [p.cell[b] EXCEPT !.state = st]
           q == MarkBackend(p, b, st)
<1>1. p.cell \in Seq(InnerBackend(S)) /\ p.cell[b] \in InnerBackend(S)
  BY DEF PoolType
<1>2. c \in InnerBackend(S) /\ c.server = p.cell[b].server /\ c.state = st
  BY <1>1 DEF InnerBackend
<1>3. q = WithCell(p, b, c)
  BY DEF MarkBackend
<1> HIDE DEF c, q
<1>4. /\ q \in PoolType(S)
      /\ DOMAIN q.cell = DOMAIN p.cell
      /\ q.backends = p.backends
      /\ \A d \in DOMAIN p.cell :
            /\ ServerOf(q, d) = ServerOf(p, d)
            /\ q.cell[d] = IF d = b THEN c ELSE p.cell[d]
  BY <1>2, <1>3, WithCellFacts
<1>5. Len(q.cell) = Len(p.cell)
  BY <1>1, <1>4 DEF PoolType
<1> QED
  BY <1>2, <1>4, <1>5 DEF q

(* Whether two backends share a server does not depend on their states.    *)
LEMMA SameDuplicates ==
    ASSUME NEW p, NEW q, q.backends = p.backends, Handles(p) \subseteq DOMAIN p.cell,
           \A d \in DOMAIN p.cell : ServerOf(q, d) = ServerOf(p, d)
    PROVE  HasDuplicate(q) <=> HasDuplicate(p)
<1>1. \A i \in DOMAIN p.backends : p.backends[i] \in DOMAIN p.cell
  BY DEF Handles
<1> QED
  BY <1>1 DEF HasDuplicate
=============================================================================
