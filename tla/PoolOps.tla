------------------------------- MODULE PoolOps -------------------------------
(***************************************************************************)
(* The data structure of src/src/pool.rs as operators on one value.        *)
(*                                                                         *)
(* A pool is a record                                                      *)
(*   cell      the RefCell<InnerBackend> cells allocated so far; the index *)
(*             of a cell is the identity an Rc handle (a Backend) carries  *)
(*   backends  the Vec<Backend>: a sequence of handles into cell           *)
(*   last_used the cursor of InnerPool::get, an index from 0               *)
(* Handles outlive the Vec: a request in flight and the health checker     *)
(* keep theirs, so a cell is never reused.                                 *)
(***************************************************************************)
EXTENDS Integers, Sequences, FiniteSetsExt

(* ServerState *)
ServerState == {"Active", "Down"}

(* InnerBackend, with the two counters of Stats (src/src/stats.rs).  A     *)
(* Server is (url, map_host); weldr only builds map_host = true, so the    *)
(* url alone identifies it.                                                *)
InnerBackend(Server) ==
    [server : Server, state : ServerState, success : Nat, failure : Nat]

(* Backend::new with Stats::new: active, nothing counted *)
NewBackend(s) ==
    [server |-> s, state |-> "Active", success |-> 0, failure |-> 0]

PoolType(Server) ==
    [cell : Seq(InnerBackend(Server)), backends : Seq(Nat \ {0}), last_used : Nat]

(* Pool::default *)
EmptyPool == [cell |-> <<>>, backends |-> <<>>, last_used |-> 0]

(* The handles pool.all() clones out, as a set *)
Handles(p) == {p.backends[i] : i \in DOMAIN p.backends}

IsDown(p, b) == p.cell[b].state = "Down"

ServerOf(p, b) == p.cell[b].server

(* Backend equality is derived through Rc and RefCell, so contains()       *)
(* compares server, state and counters with those of a new backend.        *)
PoolContains(p, s) == \E b \in Handles(p) : p.cell[b] = NewBackend(s)

PushBackend(p, s) ==
    [cell |-> Append(p.cell, NewBackend(s)),
     backends |-> Append(p.backends, Len(p.cell) + 1),
     last_used |-> p.last_used]

(* Pool::add over InnerPool::add *)
PoolAdd(p, s) == IF PoolContains(p, s) THEN p ELSE PushBackend(p, s)

(* InnerPool::remove: retain() keeps the order and leaves last_used alone, *)
(* so that it may now be the index of another backend, or of none.         *)
PoolRemove(p, s) ==
    [p EXCEPT !.backends = SelectSeq(@, LAMBDA b : ServerOf(p, b) # s)]

(* InnerPool::find: the handles of s by position; find takes the first     *)
Positions(p, s) ==
    {i \in DOMAIN p.backends : ServerOf(p, p.backends[i]) = s}

PoolFind(p, s) == p.backends[Min(Positions(p, s))]

(* A write through a handle, seen by everyone who holds the same cell *)
WithCell(p, b, c) ==
    [cell |-> [p.cell EXCEPT ![b] = c],
     backends |-> p.backends,
     last_used |-> p.last_used]

(* Fault: a clone of a Backend copies its content, so the mark is lost *)
FaultMarkCopy(p, b, st) == p

MarkBackend(p, b, st) == WithCell(p, b, [p.cell[b] EXCEPT !.state = st])

IncSuccess(p, b) == WithCell(p, b, [p.cell[b] EXCEPT !.success = @ + 1])

IncFailure(p, b) == WithCell(p, b, [p.cell[b] EXCEPT !.failure = @ + 1])

MoveCursor(p, i) ==
    [cell |-> p.cell, backends |-> p.backends, last_used |-> i]

(* Fault: the cursor moves twice *)
FaultNextIndexSkip(p) == (p.last_used + 2) % Len(p.backends)

(* One turn of the cursor in InnerPool::get, and the handle at an index    *)
NextIndex(p) == (p.last_used + 1) % Len(p.backends)

BackendAt(p, i) == p.backends[i + 1]

(* Two handles of the pool name the same server *)
HasDuplicate(p) ==
    \E i, j \in DOMAIN p.backends :
        i # j /\ ServerOf(p, p.backends[i]) = ServerOf(p, p.backends[j])
=============================================================================
