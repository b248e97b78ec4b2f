------------------------------- MODULE Startup ------------------------------
(***************************************************************************)
(* The processes of weldr: main of src/src/weldr.rs, Manager::listen and   *)
(* start_workers of src/src/mgmt/manager.rs, and what ends a process.      *)
(*                                                                         *)
(* A manager is one run of the binary by the operator; a second one is a   *)
(* restart, or an attempt while the first still runs.  All use the same    *)
(* three fixed addresses.  127.0.0.1:4000 and the admin address admit one  *)
(* socket; the workers open 0.0.0.0:8080 with reuse_port, which admits any *)
(* number.  A child holds its manager's sockets from the fork to the exec. *)
(* Nothing ends a worker when its manager ends.                            *)
(***************************************************************************)
EXTENDS Integers, FiniteSets

CONSTANTS
    Manager,  \* runs of the binary as the manager
    Count,    \* workers a manager starts; 5 in main
    NoManager

ASSUME StartupAssumption == Count \in Nat \ {0} /\ NoManager \notin Manager

VARIABLES
    mgr,        \* how far each manager is in main
    accepting,  \* managers whose accept loop of 127.0.0.1:4000 is alive
    forks,      \* calls of start_worker each manager has made
    proc,       \* state of each worker process
    link,       \* its subscription
    peer        \* the manager its connection leads to

vars == <<mgr, accepting, forks, proc, link, peer>>

(* A worker, by the manager that forked it and the id it was given *)
Worker == Manager \X (0 .. Count - 1)

Own(p) == p[1]

TypeOK ==
    /\ mgr \in [Manager -> {"off", "listening", "forked", "serving", "dead"}]
    /\ accepting \subseteq Manager
    /\ forks \in [Manager -> 0 .. Count]
    /\ proc \in [Worker -> {"none", "child", "main", "serving", "dead"}]
    /\ link \in [Worker -> {"none", "queued", "subscribed", "lost"}]
    /\ peer \in [Worker -> Manager \cup {NoManager}]

Init ==
    /\ mgr = [m \in Manager |-> "off"]
    /\ accepting = {}
    /\ forks = [m \in Manager |-> 0]
    /\ proc = [p \in Worker |-> "none"]
    /\ link = [p \in Worker |-> "none"]
    /\ peer = [p \in Worker |-> NoManager]

-----------------------------------------------------------------------------
(* Someone has a socket on 127.0.0.1:4000 *)
InternalTaken == accepting # {} \/ \E p \in Worker : proc[p] = "child"

(* Someone has a socket on the admin address; it is opened after the forks *)
AdminTaken == \E m \in Manager : mgr[m] = "serving"

(* The connections S of workers to m come to their end *)
Cut(m, S) ==
    link' = [p \in Worker |-> IF peer[p] = m /\ link[p] \in S THEN "lost" ELSE link[p]]

(* The end of a manager closes its sockets.  Its workers run on. *)
End(m) ==
    /\ mgr' = [mgr EXCEPT ![m] = "dead"]
    /\ accepting' = accepting \ {m}
    /\ Cut(m, {"queued", "subscribed"})
    /\ UNCHANGED <<forks, proc, peer>>

(* manager.listen: an address in use panics (unwrap) *)
Listen(m) ==
    /\ mgr[m] = "off"
    /\ \/ /\ ~InternalTaken
          /\ mgr' = [mgr EXCEPT ![m] = "listening"]
          /\ accepting' = accepting \cup {m}
       \/ /\ InternalTaken
          /\ mgr' = [mgr EXCEPT ![m] = "dead"]
          /\ UNCHANGED accepting
    /\ UNCHANGED <<forks, proc, link, peer>>

Fork(m) ==
    /\ forks[m] < Count
    /\ forks' = [forks EXCEPT ![m] = @ + 1]
    /\ proc' = [proc EXCEPT ![<<m, forks[m]>>] = "child"]
    /\ UNCHANGED <<mgr, accepting, link, peer>>

(* Fault: the workers are started before the listener *)
FaultStartEarly(m) == mgr[m] \in {"off", "listening"} /\ Fork(m)

(* start_worker in the parent *)
StartWorker(m) == mgr[m] = "listening" /\ Fork(m)

(* A fork fails: collect stops and expect panics.  Nothing ends the workers *)
(* started so far.                                                         *)
StartWorkerFails(m) ==
    /\ mgr[m] = "listening"
    /\ forks[m] < Count
    /\ End(m)

(* start_workers returns; the list of workers it made is never read *)
WorkersStarted(m) ==
    /\ mgr[m] = "listening"
    /\ forks[m] = Count
    /\ mgr' = [mgr EXCEPT ![m] = "forked"]
    /\ UNCHANGED <<accepting, forks, proc, link, peer>>

Serving(m) ==
    /\ mgr[m] = "forked"
    /\ mgr' = [mgr EXCEPT ![m] = "serving"]
    /\ UNCHANGED <<accepting, forks, proc, link, peer>>

(* Fault: the admin socket is opened like the workers', with reuse_port *)
FaultSharedAdmin(m) == Serving(m)

(* mgmt::run binds the admin address and runs the reactor *)
Run(m) == ~AdminTaken /\ Serving(m)

(* The admin address is in use, by a weldr or by any other process *)
RunFails(m) ==
    /\ mgr[m] = "forked"
    /\ End(m)

Answer(m, p) ==
    /\ mgr[m] = "serving" /\ m \in accepting
    /\ link[p] = "queued" /\ peer[p] = m
    /\ link' = [link EXCEPT ![p] = "subscribed"]
    /\ UNCHANGED <<mgr, accepting, forks, proc, peer>>

(* Fault: the workers of other managers are left to wait ("TODO should the *)
(* publisher should check against the worker list?")                       *)
FaultAcceptOwn(m, p) == Own(p) = m /\ Answer(m, p)

(* The accept loop of capnp::listen takes a connection and its subscribe   *)
(* request.  It runs in the reactor, so not before mgmt::run.              *)
Accept(m, p) == Answer(m, p)

(* accept or set_nodelay fails once: the loop ends, without a trace, and   *)
(* drops its socket with the connections that wait in it.                  *)
AcceptFails(m) ==
    /\ mgr[m] = "serving" /\ m \in accepting
    /\ accepting' = accepting \ {m}
    /\ Cut(m, {"queued"})
    /\ UNCHANGED <<mgr, forks, proc, peer>>

(* A manager that runs ends: a panic in a callback (a url the API cannot   *)
(* parse), an error of the admin listener, a signal.                       *)
ManagerEnds(m) == mgr[m] = "serving" /\ End(m)

-----------------------------------------------------------------------------
Become(p, st) ==
    /\ proc[p] = "child"
    /\ proc' = [proc EXCEPT ![p] = st]
    /\ UNCHANGED <<mgr, accepting, forks, link, peer>>

(* start_worker in the child: exec, or unreachable! when that fails *)
Exec(p) == Become(p, "main")

ExecFails(p) == Become(p, "dead")

(* worker::subscribe: the kernel of a listening manager completes the      *)
(* connection; otherwise it is refused, or made with a socket that only a  *)
(* child still holds and reset.  The error is logged and nothing more.     *)
Connect(p) ==
    /\ proc[p] = "main" /\ link[p] = "none"
    /\ \/ \E m \in accepting :
            /\ link' = [link EXCEPT ![p] = "queued"]
            /\ peer' = [peer EXCEPT ![p] = m]
       \/ /\ accepting = {}
          /\ link' = [link EXCEPT ![p] = "lost"]
          /\ UNCHANGED peer
    /\ UNCHANGED <<mgr, accepting, forks, proc>>

(* setup_listener and proxy::serve *)
Serve(p) ==
    /\ proc[p] = "main" /\ link[p] # "none"
    /\ proc' = [proc EXCEPT ![p] = "serving"]
    /\ UNCHANGED <<mgr, accepting, forks, link, peer>>

(* setup_listener fails, or one accept of the proxy does, or a handler     *)
(* panics: the worker is gone and nobody replaces it.                      *)
WorkerEnds(p) ==
    /\ proc[p] \in {"main", "serving"} /\ link[p] # "none"
    /\ proc' = [proc EXCEPT ![p] = "dead"]
    /\ link' = [link EXCEPT ![p] = "none"]
    /\ peer' = [peer EXCEPT ![p] = NoManager]
    /\ UNCHANGED <<mgr, accepting, forks>>

ManagerNext(m) ==
    \/ Listen(m) \/ StartWorker(m) \/ StartWorkerFails(m) \/ WorkersStarted(m)
    \/ Run(m) \/ RunFails(m) \/ AcceptFails(m) \/ ManagerEnds(m)

WorkerNext(p) ==
    \/ Exec(p) \/ ExecFails(p) \/ Connect(p) \/ Serve(p) \/ WorkerEnds(p)
    \/ \E m \in Manager : Accept(m, p)

Next ==
    \/ \E m \in Manager : ManagerNext(m)
    \/ \E p \in Worker : WorkerNext(p)

Spec == Init /\ [][Next]_vars

(* A process that runs comes to its next step; starts and ends are free *)
Fairness ==
    /\ \A m \in Manager :
        WF_vars(StartWorker(m) \/ WorkersStarted(m) \/ Run(m) \/ RunFails(m))
    /\ \A p \in Worker :
        /\ WF_vars(Exec(p) \/ ExecFails(p))
        /\ WF_vars(Connect(p))
        /\ WF_vars(Serve(p))
        /\ \A m \in Manager : WF_vars(Accept(m, p))

FairSpec == Spec /\ Fairness

-----------------------------------------------------------------------------
(* Properties *)

(* A manager that has come past listen and of which nothing has failed *)
Healthy(m) == mgr[m] # "dead" /\ m \in accepting

(* main listens before it forks: however late the reactor runs and however *)
(* early a child connects, no worker of a healthy manager is refused, cut  *)
(* off, or fed by another manager.  The workers that serve on without      *)
(* updates are those of a manager that failed.                             *)
FollowsOwnManager ==
    \A p \in Worker :
        proc[p] \in {"main", "serving"} /\ Healthy(Own(p)) =>
            \/ link[p] = "none"
            \/ link[p] # "lost" /\ peer[p] = Own(p)

(* Restarts, failed listeners and adopted workers included, no two workers *)
(* are ever fed by different managers.                                     *)
OneVoice ==
    \A p, q \in Worker :
        link[p] = "subscribed" /\ link[q] = "subscribed" => peer[p] = peer[q]

(* A child becomes a worker that serves and is subscribed or cut off; none *)
(* waits for ever, in particular not for a manager that is still forking.  *)
EveryWorkerSettles ==
    \A p \in Worker :
        proc[p] = "child" ~>
            proc[p] = "dead" \/ (proc[p] = "serving" /\ link[p] \in {"subscribed", "lost"})

-----------------------------------------------------------------------------
(* The inductive invariant behind the theorems of StartupProofs *)

(* One manager listens on 127.0.0.1:4000, and it is one that runs *)
OneListener ==
    /\ \A m, n \in accepting : m = n
    /\ \A m \in accepting : mgr[m] \in {"listening", "forked", "serving"}

(* One manager has the admin address *)
OneServing ==
    \A m, n \in Manager : mgr[m] = "serving" /\ mgr[n] = "serving" => m = n

(* A connection is as alive as its other end *)
LinkHasPeer ==
    \A p \in Worker :
        /\ link[p] = "queued" => peer[p] \in accepting
        /\ link[p] = "subscribed" => peer[p] \in Manager /\ mgr[peer[p]] = "serving"

(* start_worker gives out the ids in order, and only after listen *)
ForksInOrder ==
    /\ \A p \in Worker : proc[p] = "none" <=> p[2] >= forks[Own(p)]
    /\ \A m \in Manager : mgr[m] = "off" => forks[m] = 0

(* A process that has not come to main has no connection *)
ChildUnlinked ==
    \A p \in Worker : proc[p] \in {"none", "child"} => link[p] = "none"

StartupInv ==
    /\ TypeOK
    /\ OneListener
    /\ OneServing
    /\ LinkHasPeer
    /\ ForksInOrder
    /\ ChildUnlinked
    /\ FollowsOwnManager
=============================================================================
