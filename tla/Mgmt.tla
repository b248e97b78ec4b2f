-------------------------------- MODULE Mgmt --------------------------------
(***************************************************************************)
(* The manager's event loop, src/src/mgmt/mod.rs, and the management API   *)
(* it serves, src/src/mgmt/api.rs.                                         *)
(*                                                                         *)
(* The loop takes connections and timer ticks from one stream, the futures *)
(* Select of the listener and the health timer, until neither is ready;    *)
(* only then do the other tasks of the thread run, which serve the         *)
(* requests of the connections it accepted.  What a health check does to   *)
(* the pool is BackendHealth's matter; here a backend is marked at will.   *)
(***************************************************************************)
EXTENDS PoolOps, SequencesExt

CONSTANTS
    Conn,        \* connections of API clients, each reused when closed
    Server,      \* servers an API client may name
    MaxBackends  \* bound on the backends ever pushed

ASSUME MgmtAssumption == MaxBackends \in Nat

VARIABLES
    state,      \* the loop: waiting, in for_each, or ended with the process
    due,        \* the health timer has elapsed
    flag,       \* Select polls the timer first
    backlog,    \* connections the kernel has for the listener
    conn,       \* each connection
    pool,       \* the manager's Pool
    announced,  \* servers passed to publish_new_server
    listing,    \* the servers of the last answer that listed them
    overtaken   \* connections accepted since the timer elapsed

loop == <<state, due, flag, backlog, overtaken>>
api == <<pool, announced, listing>>
vars == <<loop, conn, api>>

Many == 2  \* more connections than this are not told apart

TypeOK ==
    /\ state \in {"waiting", "polling", "ended"}
    /\ due \in BOOLEAN /\ flag \in BOOLEAN
    /\ backlog \in Seq(Conn) /\ IsInjective(backlog)
    /\ conn \in [Conn -> {"free", "backlog", "open", "body"}]
    /\ \A c \in Conn : conn[c] = "backlog" <=> c \in Range(backlog)
    /\ pool \in PoolType(Server) /\ Len(pool.cell) <= MaxBackends
    /\ announced \subseteq Server
    /\ listing \in Seq(Server)
    /\ overtaken \in 0 .. Many

Init ==
    /\ state = "polling"
    /\ due = FALSE /\ flag = FALSE
    /\ backlog = <<>>
    /\ conn = [c \in Conn |-> "free"]
    /\ pool = EmptyPool
    /\ announced = {}
    /\ listing = <<>>
    /\ overtaken = 0

-----------------------------------------------------------------------------
(* Clients and the clock, at any moment of the loop *)

Arrive(c) ==
    /\ state # "ended"
    /\ conn[c] = "free"
    /\ conn' = [conn EXCEPT ![c] = "backlog"]
    /\ backlog' = Append(backlog, c)
    /\ UNCHANGED <<state, due, flag, overtaken, api>>

(* An accepted connection is closed, in the middle of a body too *)
Close(c) ==
    /\ conn[c] \in {"open", "body"}
    /\ conn' = [conn EXCEPT ![c] = "free"]
    /\ UNCHANGED <<loop, api>>

(* The next interval only starts once the loop has taken this tick *)
Elapse ==
    /\ state # "ended"
    /\ ~due
    /\ due' = TRUE
    /\ UNCHANGED <<state, flag, backlog, overtaken, conn, api>>

-----------------------------------------------------------------------------
(* Select::poll, of the futures crate *)
ConnectionFirst == backlog # <<>> /\ (~flag \/ ~due)
TickFirst == due /\ (flag \/ backlog = <<>>)

Wake ==
    /\ state = "waiting"
    /\ due \/ backlog # <<>>
    /\ state' = "polling"
    /\ UNCHANGED <<due, flag, backlog, overtaken, conn, api>>

Take(next) ==
    /\ state = "polling"
    /\ ConnectionFirst
    /\ conn' = [conn EXCEPT ![Head(backlog)] = "open"]
    /\ backlog' = Tail(backlog)
    /\ flag' = next
    /\ overtaken' = IF due /\ overtaken < Many THEN overtaken + 1 ELSE overtaken
    /\ UNCHANGED <<state, due, api>>

(* Fault: the listener is polled first every time *)
FaultListenerFirst == Take(FALSE)

(* for_each on Some: mgmt() binds a Mgmt service to the connection.  Select *)
(* gives the timer the next turn.                                          *)
Accept == Take(TRUE)

(* for_each on None: health::run.  The listener has the next turn. *)
Tick ==
    /\ state = "polling"
    /\ TickFirst
    /\ due' = FALSE
    /\ flag' = FALSE
    /\ overtaken' = 0
    /\ UNCHANGED <<state, backlog, conn, api>>

(* Neither is ready: the flag has been flipped, the other tasks may run *)
Park ==
    /\ state = "polling"
    /\ ~due /\ backlog = <<>>
    /\ state' = "waiting"
    /\ flag' = ~flag
    /\ UNCHANGED <<due, backlog, overtaken, conn, api>>

(* The process ends, and its connections with it *)
End ==
    /\ state' = "ended"
    /\ backlog' = <<>>
    /\ conn' = [c \in Conn |-> "free"]
    /\ UNCHANGED <<due, flag, overtaken, api>>

(* An error of the listener or the timer ends for_each and main *)
LoopFails == state = "polling" /\ End

-----------------------------------------------------------------------------
(* Mgmt::call and what follows it, in tasks of the same thread *)

(* Fault: only the servers that are up *)
FaultListActive(p) ==
    LET up == SelectSeq(p.backends, LAMBDA b : ~IsDown(p, b))
    IN  [i \in DOMAIN up |-> ServerOf(p, up[i])]

(* all_servers_reponse: every backend, up or down, one line each *)
Listing(p) == [i \in DOMAIN p.backends |-> ServerOf(p, p.backends[i])]

Serving(c, st) == state = "waiting" /\ conn[c] = st

(* GET / answers a fixed text *)
Index(c) == Serving(c, "open") /\ UNCHANGED vars

(* So does DELETE /servers; any other path is a 404, the delete links of   *)
(* the listing included.                                                   *)
OtherRoute(c) == Serving(c, "open") /\ UNCHANGED vars

GetServers(c) ==
    /\ Serving(c, "open")
    /\ listing' = Listing(pool)
    /\ UNCHANGED <<loop, conn, pool, announced>>

(* POST /servers: the answer waits for the body *)
PostServers(c) ==
    /\ Serving(c, "open")
    /\ conn' = [conn EXCEPT ![c] = "body"]
    /\ UNCHANGED <<loop, api>>

Add(c, s) ==
    /\ Serving(c, "body")
    /\ PoolContains(pool, s) \/ Len(pool.cell) < MaxBackends
    /\ pool' = PoolAdd(pool, s)
    /\ announced' = announced \cup {s}
    /\ conn' = [conn EXCEPT ![c] = "open"]
    /\ UNCHANGED loop

(* Fault: the answer is made before the server is added *)
FaultListFirst(c, s) == Add(c, s) /\ listing' = Listing(pool)

(* add_server with a whole body that names s *)
add_server(c, s) == Add(c, s) /\ listing' = Listing(pool')

(* ... with a body that is not a PoolServer: 400 *)
InvalidJson(c) ==
    /\ Serving(c, "body")
    /\ conn' = [conn EXCEPT ![c] = "open"]
    /\ UNCHANGED <<loop, api>>

(* ... with a url that is not a Uri: expect panics *)
InvalidUrl(c) == Serving(c, "body") /\ End

(* A health check's answer marks a backend (BackendHealth) *)
Mark(b, st) ==
    /\ state = "waiting"
    /\ pool' = MarkBackend(pool, b, st)
    /\ UNCHANGED <<loop, conn, announced, listing>>

-----------------------------------------------------------------------------
Loop == Wake \/ Accept \/ Tick \/ Park

Next ==
    \/ Loop \/ LoopFails \/ Elapse
    \/ \E c \in Conn :
        \/ Arrive(c) \/ Close(c)
        \/ Index(c) \/ OtherRoute(c) \/ GetServers(c) \/ PostServers(c)
        \/ InvalidJson(c) \/ InvalidUrl(c)
        \/ \E s \in Server : add_server(c, s)
    \/ \E b \in Handles(pool), st \in ServerState : Mark(b, st)

Spec == Init /\ [][Next]_vars

(* The thread does not stop by itself *)
FairSpec == Spec /\ WF_vars(Loop)

-----------------------------------------------------------------------------
(* Properties *)

(* However connections pour in, and wherever in the alternation the timer  *)
(* elapses, at most one connection is accepted before its tick is taken.   *)
AtMostOneOvertakes == overtaken <= 1

(* A flood of API clients does not keep the health checks from running.    *)
TickComes == due ~> ~due \/ state = "ended"

(* The last answer names exactly the servers the workers were told of: no  *)
(* addition shows, or is hidden, between pool.add and the publication.     *)
ListedIsAnnounced == Range(listing) = announced

(* Clients that add at the same time read each other's additions: a        *)
(* listing extends every listing answered before it, to whomever, and a    *)
(* server that went down or was posted again meanwhile keeps its place.    *)
ListingsExtend == [][IsPrefix(listing, listing')]_vars

-----------------------------------------------------------------------------
(* The inductive invariant behind the theorems of MgmtProofs *)

(* The connection that overtook the tick left the next turn to it *)
OvertakerYields == overtaken = 0 \/ (overtaken = 1 /\ due /\ flag)

(* No answer is out of date: the pool only grows with an answer, and a     *)
(* mark does not show in one.                                              *)
AnswerCurrent == Handles(pool) \subseteq DOMAIN pool.cell /\ listing = Listing(pool)

MgmtInv ==
    /\ TypeOK
    /\ OvertakerYields
    /\ AnswerCurrent
    /\ ListedIsAnnounced
=============================================================================
