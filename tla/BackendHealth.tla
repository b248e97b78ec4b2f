---------------------------- MODULE BackendHealth ---------------------------
(***************************************************************************)
(* The manager's pool and its health checker: the add_server handler of    *)
(* src/src/mgmt/api.rs, the timer of src/src/mgmt/mod.rs and               *)
(* src/src/mgmt/health.rs.  What the manager publishes to the workers is   *)
(* PubSub's matter.                                                        *)
(*                                                                         *)
(* health_state is a HashMap whose key, a Backend, is a shared mutable     *)
(* cell.  An entry stays in the bucket of the hash its key had when it was *)
(* inserted (the std HashMap of 2017 stores hashes and never recomputes    *)
(* them) while equality compares what the cells hold now.  So an entry is  *)
(* identified by its backend and that backend's state at insertion, and a  *)
(* backend finds the entries inserted under its present state whose cell   *)
(* now equals its own: one of another backend of the same server, too.     *)
(***************************************************************************)
EXTENDS PoolOps, FiniteSets

CONSTANTS
    Server,        \* servers the management API may name
    BadHealthUrl,  \* servers whose health check url does not parse
    Hung,          \* servers that accept a check and never answer it
    Failures,      \* config.health_check.failures
    Passes,        \* config.health_check.passes
    MaxBackends,   \* bound on the backends ever pushed
    MaxChecks      \* bound on the checks of one backend that are told apart

ASSUME HealthAssumption ==
    /\ BadHealthUrl \subseteq Server
    /\ Hung \subseteq Server
    /\ Failures \in Nat
    /\ Passes \in Nat
    /\ MaxBackends \in Nat
    /\ MaxChecks \in Nat \ {0}

VARIABLES
    pool,          \* the manager's Pool
    health_state,  \* <<backend, state at insertion>> -> HealthState
    checks,        \* health check requests without an answer, per backend
    todo           \* backends the running health::run has not come to yet

vars == <<pool, health_state, checks, todo>>

Backend == 1 .. MaxBackends

Passing(n) == [kind |-> "Passing", consec |-> n]
Failing(n) == [kind |-> "Failing", consec |-> n]

HealthState == [kind : {"Passing", "Failing"}, consec : Nat]

TypeOK ==
    /\ pool \in PoolType(Server)
    /\ DOMAIN pool.cell \subseteq Backend
    /\ Handles(pool) = DOMAIN pool.cell
    /\ DOMAIN health_state \subseteq Handles(pool) \X ServerState
    /\ health_state \in [DOMAIN health_state -> HealthState]
    /\ checks \in [Backend -> 0 .. MaxChecks]
    /\ todo \in Seq(Handles(pool))

Init ==
    /\ pool = EmptyPool
    /\ health_state = [k \in {} |-> Passing(0)]
    /\ checks = [b \in Backend |-> 0]
    /\ todo = <<>>

-----------------------------------------------------------------------------
StateOf(b) == pool.cell[b].state

(* The entries that entry(backend) may find *)
Matches(b) ==
    {k \in DOMAIN health_state :
        k[2] = StateOf(b) /\ pool.cell[k[1]] = pool.cell[b]}

(* The keys entry(backend).or_insert(..) may yield *)
Entry(b) == IF Matches(b) = {} THEN {<<b, StateOf(b)>>} ELSE Matches(b)

(* ... and what is stored there *)
Stored(k) == IF k \in DOMAIN health_state THEN health_state[k] ELSE Passing(0)

StoreAt(k, h) ==
    [j \in DOMAIN health_state \cup {k} |-> IF j = k THEN h ELSE health_state[j]]

(* Fault: a pass does not reset the failures of an active backend *)
FaultPassKeepsFailures(b, h) ==
    IF StateOf(b) = "Active" THEN [entry |-> h, mark |-> FALSE]
    ELSE IF h.kind = "Failing" THEN [entry |-> Passing(1), mark |-> FALSE]
    ELSE IF h.consec + 1 >= Passes THEN [entry |-> Passing(0), mark |-> TRUE]
    ELSE [entry |-> Passing(h.consec + 1), mark |-> FALSE]

(* Fault: the count is incremented in the local copy only *)
FaultPassForgotten(b, h) ==
    IF StateOf(b) = "Active"
    THEN [entry |-> IF h.kind = "Failing" THEN Passing(0) ELSE h, mark |-> FALSE]
    ELSE IF h.kind = "Failing" THEN [entry |-> Passing(1), mark |-> FALSE]
    ELSE [entry |-> h, mark |-> h.consec + 1 >= Passes]

(* should_mark_active(backend, required_passes) on the entry h: what it    *)
(* leaves there and what it returns.                                       *)
should_mark_active(b, h) ==
    IF StateOf(b) = "Active"
    THEN [entry |-> IF h.kind = "Failing" THEN Passing(0) ELSE h, mark |-> FALSE]
    ELSE IF h.kind = "Failing" THEN [entry |-> Passing(1), mark |-> FALSE]
    ELSE IF h.consec + 1 >= Passes THEN [entry |-> Passing(0), mark |-> TRUE]
    ELSE [entry |-> Passing(h.consec + 1), mark |-> FALSE]

(* Fault: the count must pass the threshold, not reach it *)
FaultFailLate(b, h) ==
    IF StateOf(b) = "Down"
    THEN [entry |-> IF h.kind = "Passing" THEN Failing(0) ELSE h, mark |-> FALSE]
    ELSE IF h.kind = "Passing" THEN [entry |-> Failing(1), mark |-> FALSE]
    ELSE IF h.consec + 1 > Failures THEN [entry |-> Failing(0), mark |-> TRUE]
    ELSE [entry |-> Failing(h.consec + 1), mark |-> FALSE]

(* Fault: the entry keeps the count it fired with *)
FaultFailKeepsCount(b, h) ==
    IF StateOf(b) = "Down"
    THEN [entry |-> IF h.kind = "Passing" THEN Failing(0) ELSE h, mark |-> FALSE]
    ELSE IF h.kind = "Passing" THEN [entry |-> Failing(1), mark |-> FALSE]
    ELSE IF h.consec + 1 >= Failures THEN [entry |-> h, mark |-> TRUE]
    ELSE [entry |-> Failing(h.consec + 1), mark |-> FALSE]

(* Fault: the count is incremented in the local copy only *)
FaultFailForgotten(b, h) ==
    IF StateOf(b) = "Down"
    THEN [entry |-> IF h.kind = "Passing" THEN Failing(0) ELSE h, mark |-> FALSE]
    ELSE IF h.kind = "Passing" THEN [entry |-> Failing(1), mark |-> FALSE]
    ELSE [entry |-> h, mark |-> h.consec + 1 >= Failures]

(* should_mark_down(backend, required_failures) *)
should_mark_down(b, h) ==
    IF StateOf(b) = "Down"
    THEN [entry |-> IF h.kind = "Passing" THEN Failing(0) ELSE h, mark |-> FALSE]
    ELSE IF h.kind = "Passing" THEN [entry |-> Failing(1), mark |-> FALSE]
    ELSE IF h.consec + 1 >= Failures THEN [entry |-> Failing(0), mark |-> TRUE]
    ELSE [entry |-> Failing(h.consec + 1), mark |-> FALSE]

-----------------------------------------------------------------------------
(* health::run is one callback of the manager's only thread: nothing else  *)
(* happens in the manager before it has gone through the pool.             *)
Idle == todo = <<>>

(* add_server of the management API *)
AddServer(s) ==
    /\ Idle
    /\ PoolContains(pool, s) \/ Len(pool.cell) < MaxBackends
    /\ pool' = PoolAdd(pool, s)
    /\ UNCHANGED <<health_state, checks, todo>>

(* The timer fires: health::run clones the handles out of the pool *)
Tick ==
    /\ Idle
    /\ pool.backends # <<>>
    /\ todo' = pool.backends
    /\ UNCHANGED <<pool, health_state, checks>>

(* One iteration of its loop: a backend whose url does not parse is marked *)
(* down, any other is sent one more check, whether or not the one before   *)
(* has been answered.                                                      *)
CheckBackend ==
    LET b == Head(todo)
    IN  /\ ~Idle
        /\ todo' = Tail(todo)
        /\ \/ /\ ServerOf(pool, b) \in BadHealthUrl
              /\ pool' = MarkBackend(pool, b, "Down")
              /\ UNCHANGED checks
           \/ /\ ServerOf(pool, b) \notin BadHealthUrl
              /\ checks' = [checks EXCEPT ![b] = IF @ < MaxChecks THEN @ + 1 ELSE @]
              /\ UNCHANGED pool
        /\ UNCHANGED health_state

Answered(b) ==
    /\ Idle
    /\ b \in DOMAIN pool.cell
    /\ ServerOf(pool, b) \notin Hung
    /\ checks[b] > 0
    /\ checks' = [checks EXCEPT ![b] = @ - 1]
    /\ UNCHANGED todo

(* A 2xx answer *)
CheckPasses(b) ==
    /\ Answered(b)
    /\ \E k \in Entry(b) :
        LET r == should_mark_active(b, Stored(k))
        IN  /\ health_state' = StoreAt(k, r.entry)
            /\ pool' = IF r.mark THEN MarkBackend(pool, b, "Active") ELSE pool

(* Any other answer, or an error of the connection *)
CheckFails(b) ==
    /\ Answered(b)
    /\ \E k \in Entry(b) :
        LET r == should_mark_down(b, Stored(k))
        IN  /\ health_state' = StoreAt(k, r.entry)
            /\ pool' = IF r.mark THEN MarkBackend(pool, b, "Down") ELSE pool

Next ==
    \/ \E s \in Server : AddServer(s)
    \/ Tick \/ CheckBackend
    \/ \E b \in Backend : CheckPasses(b) \/ CheckFails(b)

Spec == Init /\ [][Next]_vars

(* The timer keeps firing, a callback that runs ends, and a server that is *)
(* not hung, or its connection, answers every check one way or the other:  *)
(* the reactor comes to an answer that is ready between two runs.          *)
Fairness ==
    /\ WF_vars(Tick)
    /\ WF_vars(CheckBackend)
    /\ \A b \in Backend : SF_vars(CheckPasses(b) \/ CheckFails(b))

FairSpec == Spec /\ Fairness

-----------------------------------------------------------------------------
(* Properties *)

(* A check that contradicts the status, the first of its kind, only starts *)
(* the count: a threshold of one works as one of two.                      *)
Effective(n) == IF n > 2 THEN n ELSE 2

(* No entry sits at its threshold: the answer that reaches it fires and    *)
(* resets the entry.                                                       *)
BelowThreshold ==
    \A k \in DOMAIN health_state :
        health_state[k].consec <
            IF health_state[k].kind = "Failing" THEN Effective(Failures) ELSE Effective(Passes)

(* The kind of entry that counts towards a change of the state st *)
Contrary(st) == IF st = "Active" THEN "Failing" ELSE "Passing"

(* The entry a backend would find, if it is alone for its server *)
Own(b) == Stored(<<b, StateOf(b)>>)

H == INSTANCE HealthThreshold WITH
    known <- Handles(pool),
    status <- [b \in Backend |-> IF b \in Handles(pool) THEN StateOf(b) ELSE "Active"],
    streak <- [b \in Backend |->
                IF b \in Handles(pool)
                   /\ Own(b).kind = Contrary(StateOf(b))
                THEN Own(b).consec ELSE 0]

(* As long as the pool has one backend per server, the map keyed by a      *)
(* mutable backend, with the entries it leaves behind in each state,       *)
(* counts consecutive answers exactly as configured, overlapping checks    *)
(* included.                                                               *)
CountsConsecutive ==
    [][~HasDuplicate(pool') =>
        /\ [H!Next]_(H!hvars)
        /\ \A b \in Backend : /\ CheckPasses(b) => H!Pass(b)
                              /\ CheckFails(b) => H!Fail(b)]_vars

(* Nothing leaves the manager's Vec: it holds every cell, in the order of  *)
(* their allocation.                                                       *)
Grown ==
    /\ Len(pool.backends) = Len(pool.cell)
    /\ \A i \in DOMAIN pool.backends : pool.backends[i] = i

(* A backend that cannot be checked has neither a check nor an entry.      *)
OnlyChecked ==
    /\ \A b \in Backend :
          checks[b] > 0 => b \in DOMAIN pool.cell /\ ServerOf(pool, b) \notin BadHealthUrl
    /\ \A k \in DOMAIN health_state : ServerOf(pool, k[1]) \notin BadHealthUrl

(* An entry left behind in the other state has nothing counted in it that  *)
(* would carry over when its backend comes back to that state.             *)
LeftBehindReset ==
    ~HasDuplicate(pool) =>
        \A k \in DOMAIN health_state :
            k[2] # StateOf(k[1]) /\ health_state[k].kind = Contrary(k[2])
                => health_state[k].consec = 0

(* What the counting rests on besides BelowThreshold.                      *)
HealthInv == TypeOK /\ Grown /\ OnlyChecked /\ LeftBehindReset

(* The backends of a server, and an answer of one of them *)
Of(s) == {b \in Handles(pool) : ServerOf(pool, b) = s}
PassOf(s) == \E b \in Of(s) : CheckPasses(b)
FailOf(s) == \E b \in Of(s) : CheckFails(b)

(* A server whose checks pass only finitely often ends up down, in every   *)
(* one of its backends.                                                    *)
FailingEndsDown ==
    \A s \in Server \ Hung :
        []<><<PassOf(s)>>_vars \/ <>[](\A b \in Of(s) : IsDown(pool, b))

(* A server whose checks fail only finitely often ends up active.          *)
PassingEndsActive ==
    \A s \in Server \ (Hung \cup BadHealthUrl) :
        []<><<FailOf(s)>>_vars \/ <>[](\A b \in Of(s) : ~IsDown(pool, b))

(* "The load balancer will keep that server active in the pool as long as  *)
(* the health succeeds" (README): one whose checks never succeed does not  *)
(* stay active.                                                            *)
ActiveNeedsPasses ==
    \A s \in Server :
        []<><<PassOf(s)>>_vars \/ <>[](\A b \in Of(s) : IsDown(pool, b))
=============================================================================
