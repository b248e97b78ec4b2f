---------------------------- MODULE StartupProofs ---------------------------
(***************************************************************************)
(* Proofs about Startup, for every number of restarts and of workers.      *)
(***************************************************************************)
EXTENDS Startup, TLAPS

(* A worker is its manager and its id.                                     *)
LEMMA WorkerFacts ==
    /\ \A p \in Worker : Own(p) \in Manager /\ p[2] \in 0 .. Count - 1 /\ p = <<Own(p), p[2]>>
    /\ \A m \in Manager, i \in 0 .. Count - 1 :
        <<m, i>> \in Worker /\ Own(<<m, i>>) = m /\ <<m, i>>[2] = i
BY DEF Worker, Own

(* Nothing runs at first.                                                  *)
LEMMA InitInv == Init => StartupInv
<1> SUFFICES ASSUME Init PROVE StartupInv
  OBVIOUS
<1>1. TypeOK
  BY StartupAssumption DEF Init, TypeOK
<1>2. ForksInOrder
  BY WorkerFacts DEF Init, ForksInOrder
<1> QED
  BY <1>1, <1>2, WorkerFacts DEF Init, StartupInv, OneListener, OneServing, LinkHasPeer,
     ChildUnlinked, FollowsOwnManager, Healthy

-----------------------------------------------------------------------------
(* The steps of a manager *)

(* manager.listen preserves the invariant: a manager that comes to listen  *)
(* has no workers yet, so none of them can have gone elsewhere.            *)
LEMMA ListenInv ==
    ASSUME StartupInv, NEW m \in Manager, Listen(m)
    PROVE  StartupInv'
<1> USE DEF StartupInv
<1>1. UNCHANGED <<forks, proc, link, peer>> /\ mgr[m] = "off"
  BY DEF Listen
<1>2. m \notin accepting /\ \A n \in Manager : n # m => mgr'[n] = mgr[n]
  BY <1>1 DEF OneListener, Listen, TypeOK
<1>3. mgr'[m] \in {"listening", "dead"} /\ accepting' \subseteq accepting \cup {m}
      /\ accepting \subseteq accepting'
  BY DEF Listen, TypeOK
<1>4. TypeOK'
  BY DEF TypeOK, Listen
<1>5. OneListener'
  BY DEF OneListener, Listen, InternalTaken, TypeOK
<1>6. OneServing'
  BY <1>2, <1>3 DEF OneServing
<1>7. LinkHasPeer'
  BY <1>1, <1>2, <1>3 DEF LinkHasPeer
<1>8. ForksInOrder'
  BY <1>1, <1>2, <1>3 DEF ForksInOrder
<1>9. ChildUnlinked'
  BY <1>1 DEF ChildUnlinked
<1>10. FollowsOwnManager'
  <2>1. SUFFICES ASSUME NEW p \in Worker, proc[p] \in {"main", "serving"},
                        Healthy(Own(p))'
                 PROVE  link[p] = "none" \/ (link[p] # "lost" /\ peer[p] = Own(p))
    BY <1>1 DEF FollowsOwnManager, Own
  <2>2. Own(p) # m
    <3>1. proc[p] # "none"
      BY <2>1
    <3>2. p[2] \in Nat /\ forks[m] = 0
      BY <1>1, WorkerFacts DEF ForksInOrder
    <3> QED
      BY <3>1, <3>2 DEF ForksInOrder
  <2>3. Own(p) \in Manager /\ Healthy(Own(p))
    BY <1>2, <1>3, <2>1, <2>2, WorkerFacts DEF Healthy, Own
  <2> QED
    BY <2>1, <2>3 DEF FollowsOwnManager
<1> QED
  BY <1>4, <1>5, <1>6, <1>7, <1>8, <1>9, <1>10

(* start_worker in the parent preserves the invariant: the child is a      *)
(* process nobody has seen before.                                         *)
LEMMA StartWorkerInv ==
    ASSUME StartupInv, NEW m \in Manager, StartWorker(m)
    PROVE  StartupInv'
<1> USE DEF StartupInv
<1> DEFINE c == <<m, forks[m]>>
<1>1. /\ UNCHANGED <<mgr, accepting, link, peer>>
      /\ mgr[m] = "listening" /\ forks[m] < Count
      /\ forks' = [forks EXCEPT ![m] = @ + 1]
      /\ proc' = [proc EXCEPT ![c] = "child"]
  BY DEF StartWorker, Fork
<1>2. forks[m] \in 0 .. Count - 1
  BY <1>1, StartupAssumption DEF TypeOK
<1>3. c \in Worker /\ Own(c) = m /\ c[2] = forks[m]
  BY <1>2, WorkerFacts
<1>4. \A p \in Worker : p # c => Own(p) # m \/ p[2] # forks[m]
  BY WorkerFacts
<1> HIDE DEF c
<1>5. proc[c] = "none" /\ link[c] = "none"
  BY <1>2, <1>3 DEF ForksInOrder, ChildUnlinked
<1>6. TypeOK'
  <2>1. forks[m] + 1 \in 0 .. Count
    BY <1>2, StartupAssumption
  <2>2. forks' \in [Manager -> 0 .. Count]
    BY <1>1, <2>1 DEF TypeOK
  <2> QED
    BY <1>1, <2>2 DEF TypeOK
<1>7. ForksInOrder'
  <2>1. ASSUME NEW p \in Worker
        PROVE  proc'[p] = "none" <=> p[2] >= forks'[Own(p)]
    <3>1. p[2] \in Int /\ Own(p) \in Manager
      BY WorkerFacts
    <3>2. CASE p = c
      BY <1>1, <1>2, <1>3, <3>2 DEF TypeOK
    <3>3. CASE p # c /\ Own(p) = m
      BY <1>1, <1>2, <1>4, <3>1, <3>3 DEF TypeOK, ForksInOrder
    <3>4. CASE Own(p) # m
      BY <1>1, <1>3, <3>1, <3>4 DEF TypeOK, ForksInOrder
    <3> QED
      BY <3>2, <3>3, <3>4
  <2>2. ASSUME NEW n \in Manager, mgr'[n] = "off"
        PROVE  forks'[n] = 0
    BY <1>1, <2>2 DEF ForksInOrder, TypeOK
  <2> QED
    BY <2>1, <2>2 DEF ForksInOrder, Own
<1>8. ChildUnlinked' /\ FollowsOwnManager'
  BY <1>1, <1>3, <1>5 DEF ChildUnlinked, FollowsOwnManager, Healthy, Own, TypeOK
<1>9. OneListener' /\ OneServing' /\ LinkHasPeer'
  BY <1>1 DEF OneListener, OneServing, LinkHasPeer
<1> QED
  BY <1>6, <1>7, <1>8, <1>9

(* The end of a manager, wherever in main it comes, preserves the          *)
(* invariant: it cuts off only workers whose connection leads to it.       *)
LEMMA EndInv ==
    ASSUME StartupInv, NEW m \in Manager, End(m), mgr[m] # "off"
    PROVE  StartupInv'
<1> USE DEF StartupInv
<1>1. /\ UNCHANGED <<forks, proc, peer>>
      /\ mgr' = [mgr EXCEPT ![m] = "dead"]
      /\ accepting' = accepting \ {m}
      /\ link' = [p \in Worker |-> IF peer[p] = m /\ link[p] \in {"queued", "subscribed"}
                                   THEN "lost" ELSE link[p]]
  BY DEF End, Cut
<1>2. TypeOK'
  BY <1>1 DEF TypeOK
<1>3. OneListener' /\ OneServing'
  BY <1>1 DEF OneListener, OneServing, TypeOK
<1>4. LinkHasPeer'
  BY <1>1 DEF LinkHasPeer, TypeOK
<1>5. ForksInOrder'
  BY <1>1 DEF ForksInOrder, TypeOK
<1>6. ChildUnlinked'
  BY <1>1 DEF ChildUnlinked
<1>7. FollowsOwnManager'
  BY <1>1, WorkerFacts DEF FollowsOwnManager, Healthy, TypeOK
<1> QED
  BY <1>2, <1>3, <1>4, <1>5, <1>6, <1>7

(* Steps that only move a manager on from listening preserve the invariant.*)
LEMMA ManagerMovesInv ==
    ASSUME StartupInv, NEW m \in Manager, WorkersStarted(m) \/ Run(m)
    PROVE  StartupInv'
<1> USE DEF StartupInv
<1>1. /\ UNCHANGED <<accepting, forks, proc, link, peer>>
      /\ mgr[m] \in {"listening", "forked"}
      /\ \E st \in {"forked", "serving"} :
            /\ mgr' = [mgr EXCEPT ![m] = st]
            /\ st = "serving" => ~AdminTaken
  BY DEF WorkersStarted, Run, Serving
<1>2. TypeOK' /\ OneListener'
  BY <1>1 DEF TypeOK, OneListener
<1>3. OneServing'
  BY <1>1 DEF TypeOK, OneServing, AdminTaken
<1>4. LinkHasPeer' /\ ForksInOrder'
  BY <1>1 DEF LinkHasPeer, ForksInOrder, TypeOK
<1>5. ChildUnlinked' /\ FollowsOwnManager'
  BY <1>1, WorkerFacts DEF ChildUnlinked, FollowsOwnManager, Healthy, TypeOK
<1> QED
  BY <1>2, <1>3, <1>4, <1>5

(* The end of the accept loop preserves the invariant: the connections in  *)
(* its socket are lost, those it has accepted are not.                     *)
LEMMA AcceptFailsInv ==
    ASSUME StartupInv, NEW m \in Manager, AcceptFails(m)
    PROVE  StartupInv'
<1> USE DEF StartupInv
<1>1. /\ UNCHANGED <<mgr, forks, proc, peer>>
      /\ accepting' = accepting \ {m}
      /\ link' = [p \in Worker |-> IF peer[p] = m /\ link[p] \in {"queued"}
                                   THEN "lost" ELSE link[p]]
  BY DEF AcceptFails, Cut
<1>2. TypeOK' /\ OneListener' /\ OneServing'
  BY <1>1 DEF TypeOK, OneListener, OneServing
<1>3. LinkHasPeer' /\ ForksInOrder' /\ ChildUnlinked'
  BY <1>1 DEF LinkHasPeer, ForksInOrder, ChildUnlinked
<1>4. FollowsOwnManager'
  BY <1>1, WorkerFacts DEF FollowsOwnManager, Healthy, TypeOK
<1> QED
  BY <1>2, <1>3, <1>4

-----------------------------------------------------------------------------
(* The steps of a worker *)

(* exec, its failure and the start of the proxy preserve the invariant.    *)
LEMMA ProcessInv ==
    ASSUME StartupInv, NEW p \in Worker, Exec(p) \/ ExecFails(p) \/ Serve(p)
    PROVE  StartupInv'
<1> USE DEF StartupInv
<1>1. /\ UNCHANGED <<mgr, accepting, forks, link, peer>>
      /\ \E st \in {"main", "serving", "dead"} :
            /\ proc' = [proc EXCEPT ![p] = st]
            /\ proc[p] = "child" \/ (proc[p] = "main" /\ st = "serving")
  BY DEF Exec, ExecFails, Serve, Become
<1>2. TypeOK' /\ OneListener' /\ OneServing' /\ LinkHasPeer'
  BY <1>1 DEF TypeOK, OneListener, OneServing, LinkHasPeer
<1>3. ForksInOrder' /\ ChildUnlinked'
  BY <1>1 DEF ForksInOrder, ChildUnlinked, TypeOK
<1>4. FollowsOwnManager'
  BY <1>1 DEF FollowsOwnManager, ChildUnlinked, Healthy, TypeOK
<1> QED
  BY <1>2, <1>3, <1>4

(* worker::subscribe preserves the invariant: if the worker's own manager  *)
(* listens, no other does.                                                 *)
LEMMA ConnectInv ==
    ASSUME StartupInv, NEW p \in Worker, Connect(p)
    PROVE  StartupInv'
<1> USE DEF StartupInv
<1>1. UNCHANGED <<mgr, accepting, forks, proc>> /\ proc[p] = "main"
  BY DEF Connect
<1>2. \/ \E m \in accepting : /\ link' = [link EXCEPT ![p] = "queued"]
                              /\ peer' = [peer EXCEPT ![p] = m]
      \/ accepting = {} /\ link' = [link EXCEPT ![p] = "lost"] /\ peer' = peer
  BY DEF Connect
<1>3. TypeOK' /\ OneListener' /\ OneServing' /\ ForksInOrder'
  BY <1>1, <1>2 DEF TypeOK, OneListener, OneServing, ForksInOrder
<1>4. LinkHasPeer'
  BY <1>1, <1>2 DEF TypeOK, LinkHasPeer
<1>5. ChildUnlinked'
  BY <1>1, <1>2 DEF TypeOK, ChildUnlinked
<1>6. FollowsOwnManager'
  BY <1>1, <1>2 DEF TypeOK, FollowsOwnManager, Healthy, OneListener
<1> QED
  BY <1>3, <1>4, <1>5, <1>6

(* The end of a worker preserves the invariant.                            *)
LEMMA WorkerEndsInv ==
    ASSUME StartupInv, NEW p \in Worker, WorkerEnds(p)
    PROVE  StartupInv'
<1> USE DEF StartupInv
<1>1. /\ UNCHANGED <<mgr, accepting, forks>> /\ proc[p] \in {"main", "serving"}
      /\ proc' = [proc EXCEPT ![p] = "dead"]
      /\ link' = [link EXCEPT ![p] = "none"]
      /\ peer' = [peer EXCEPT ![p] = NoManager]
  BY DEF WorkerEnds
<1>2. TypeOK' /\ OneListener' /\ OneServing' /\ LinkHasPeer'
  BY <1>1 DEF TypeOK, OneListener, OneServing, LinkHasPeer
<1>3. ForksInOrder' /\ ChildUnlinked' /\ FollowsOwnManager'
  BY <1>1 DEF TypeOK, ForksInOrder, ChildUnlinked, FollowsOwnManager, Healthy
<1> QED
  BY <1>2, <1>3

(* The accept of a connection preserves the invariant.                     *)
LEMMA AcceptInv ==
    ASSUME StartupInv, NEW m \in Manager, NEW p \in Worker, Accept(m, p)
    PROVE  StartupInv'
<1> USE DEF StartupInv
<1>1. /\ UNCHANGED <<mgr, accepting, forks, proc, peer>>
      /\ mgr[m] = "serving" /\ peer[p] = m /\ link[p] = "queued"
      /\ link' = [link EXCEPT ![p] = "subscribed"]
  BY DEF Accept, Answer
<1>2. TypeOK' /\ OneListener' /\ OneServing' /\ LinkHasPeer'
  BY <1>1 DEF TypeOK, OneListener, OneServing, LinkHasPeer
<1>3. ForksInOrder' /\ ChildUnlinked' /\ FollowsOwnManager'
  BY <1>1 DEF TypeOK, ForksInOrder, ChildUnlinked, FollowsOwnManager, Healthy
<1> QED
  BY <1>2, <1>3

(* A step that changes nothing preserves the invariant.                    *)
LEMMA StutterInv ==
    ASSUME StartupInv, UNCHANGED vars
    PROVE  StartupInv'
BY DEF vars, StartupInv, TypeOK, OneListener, OneServing, LinkHasPeer, ForksInOrder,
       ChildUnlinked, FollowsOwnManager, Healthy

-----------------------------------------------------------------------------
(* The inductive invariant of the processes holds in every behaviour:      *)
(* however often weldr is restarted, one run of it listens and one has the *)
(* admin address, and a connection is never left with an end that is gone. *)
THEOREM StartupInvariance == Spec => []StartupInv
<1>1. StartupInv /\ [Next]_vars => StartupInv'
  <2>1. ASSUME StartupInv, NEW m \in Manager, ManagerNext(m)
        PROVE  StartupInv'
    <3>1. ASSUME StartWorkerFails(m) \/ RunFails(m) \/ ManagerEnds(m)
          PROVE  StartupInv'
      BY <2>1, <3>1, EndInv DEF StartWorkerFails, RunFails, ManagerEnds
    <3> QED
      BY <2>1, <3>1, ListenInv, StartWorkerInv, ManagerMovesInv, AcceptFailsInv
         DEF ManagerNext
  <2>2. ASSUME StartupInv, NEW p \in Worker, WorkerNext(p)
        PROVE  StartupInv'
    BY <2>2, ProcessInv, ConnectInv, WorkerEndsInv, AcceptInv DEF WorkerNext
  <2> QED
    BY <2>1, <2>2, StutterInv DEF Next
<1> QED
  BY <1>1, InitInv, PTL DEF Spec

(* No worker of a healthy manager is ever refused, cut off or adopted by   *)
(* another manager, in any interleaving of forks, connections, accepts,    *)
(* failures and restarts.                                                  *)
THEOREM WorkersFollowTheirManager == Spec => []FollowsOwnManager
<1>1. StartupInv => FollowsOwnManager
  BY DEF StartupInv
<1> QED
  BY <1>1, StartupInvariance, PTL

(* Two subscribed workers, of whichever managers, are fed by the same one: *)
(* the one that has the admin address.                                     *)
THEOREM WorkersHearOneVoice == Spec => []OneVoice
<1>1. StartupInv => OneVoice
  BY DEF StartupInv, LinkHasPeer, OneServing, OneVoice
<1> QED
  BY <1>1, StartupInvariance, PTL
=============================================================================
