--------------------------- MODULE AllocationProofs ---------------------------
(***************************************************************************)
(* Theorems about Allocation: for any Pods, versions, addresses and nodes. *)
(***************************************************************************)
EXTENDS Allocation, FiniteSetTheorems, TLAPS

USE PodsAssumption, PoolsAssumption, LimitsAssumption

\* The idle request and what a request is made of have their types.
LEMMA IdleType == Idle \in Requests
BY DEF Idle, Requests

\* The names under which the Pods of the StatefulSet hold addresses are theirs.
LEMMA HoldersType == Holders \subseteq STSPods
BY DEF Holders

\* Every variable starts with its type.
LEMMA TypeInit == Init => TypeOK
<1> SUFFICES ASSUME Init PROVE TypeOK
  OBVIOUS
<1>1. owner \in Owners /\ seen \in [Nodes -> Owners]
  BY DEF Init, PodsInit, Owners
<1>2. req \in [Pods -> Requests]
  BY IdleType DEF Init, PodsInit
<1>3. sts \in [start : Nat, replicas : Nat] /\ budget \in [edits : Nat, faults : Nat]
  BY DEF Init, PodsInit
<1> QED BY <1>1, <1>2, <1>3 DEF Init, PodsInit, TypeOK

\* Steps of users, Kubernetes and failures keep the types.
LEMMA TypeEnvironment == TypeOK /\ (Users \/ Platform \/ Failures) => TypeOK'
<1> SUFFICES ASSUME TypeOK, Users \/ Platform \/ Failures PROVE TypeOK'
  OBVIOUS
<1> USE DEF TypeOK, cluster, daemons, manager
<1>1. CASE EditSTS BY <1>1 DEF EditSTS
<1>2. ASSUME NEW p \in Pods, CreatePod(p) PROVE TypeOK'
  BY <1>2 DEF CreatePod
<1>3. ASSUME NEW p \in Pods, EvictPod(p) PROVE TypeOK'
  BY <1>3 DEF EvictPod
<1>4. ASSUME NEW p \in Pods, DeletePod(p) PROVE TypeOK'
  BY <1>4 DEF DeletePod
<1>5. ASSUME NEW p \in Pods, StopPod(p) PROVE TypeOK'
  BY <1>5 DEF StopPod
<1>6. ASSUME NEW p \in Pods, RemovePod(p) PROVE TypeOK'
  BY <1>6 DEF RemovePod
<1>7. ASSUME NEW p \in Pods, LoseSandbox(p) PROVE TypeOK'
  <2>1. budget' \in [edits : Nat, faults : Nat]
    BY <1>7 DEF LoseSandbox
  <2> QED BY <2>1, <1>7 DEF LoseSandbox
<1>8. ASSUME NEW a \in IPs, KubeGC(a) PROVE TypeOK'
  BY <1>8 DEF KubeGC, Owners
<1>9. ASSUME NEW n \in Nodes, SyncDaemonIPs(n) PROVE TypeOK'
  BY <1>9 DEF SyncDaemonIPs
<1>10. ASSUME NEW n \in Nodes, SyncDaemonFree(n) PROVE TypeOK'
  BY <1>10 DEF SyncDaemonFree
<1>11. CASE SyncManagerIPs BY <1>11, HoldersType DEF SyncManagerIPs
<1>12. CASE SyncManagerSTS BY <1>12 DEF SyncManagerSTS
<1>13. CASE RestartManager BY <1>13, HoldersType DEF RestartManager
<1>14. CASE CollectError
  <2>1. budget.faults > 0 /\ budget' = [budget EXCEPT !.faults = @ - 1]
    BY <1>14 DEF CollectError
  <2>2. budget' \in [edits : Nat, faults : Nat]
    BY <2>1
  <2> QED BY <2>2, <1>14 DEF CollectError
<1>15. ASSUME NEW p \in Pods, Abort(p) PROVE TypeOK'
  BY <1>15, IdleType DEF Abort
<1> QED
  BY <1>1, <1>2, <1>3, <1>4, <1>5, <1>6, <1>7, <1>8, <1>9, <1>10, <1>11,
     <1>12, <1>13, <1>14, <1>15 DEF Users, Platform, Failures

\* The records of a request after one of its goroutines has moved.
LEMMA TryUpdate ==
    ASSUME NEW R \in [Pods -> Requests], NEW p \in Pods, NEW v \in Versions,
           NEW t \in [st : {"none", "first", "probe", "ok", "failed"}, ip : Nat]
    PROVE  [R EXCEPT ![p].try[v] = t] \in [Pods -> Requests]
BY DEF Requests

\* One Create keeps the types, whatever the goroutine goes on with.
LEMMA TryType ==
    ASSUME TypeOK, NEW p \in Pods, NEW v \in Versions, NEW a \in Nat,
           NEW next \in SUBSET [st : {"first", "probe", "failed"}, ip : Nat],
           TryCreate(p, v, a, next)
    PROVE  TypeOK'
<1>1. owner' \in Owners
  BY DEF TypeOK, TryCreate, Owners
<1>2. req' \in [Pods -> Requests]
  <2>1. CASE owner[a] = NoPod
    <3>1. req' = [req EXCEPT ![p].try[v] = [st |-> "ok", ip |-> a]]
      BY <2>1 DEF TryCreate
    <3> QED BY <3>1, TryUpdate DEF TypeOK
  <2>2. CASE owner[a] # NoPod
    <3>1. PICK t \in next : req' = [req EXCEPT ![p].try[v] = t]
      BY <2>2 DEF TryCreate
    <3> QED BY <3>1, TryUpdate DEF TypeOK
  <2> QED BY <2>1, <2>2
<1> QED BY <1>1, <1>2 DEF TypeOK, TryCreate, daemons, manager

\* Steps of RequeueIP keep the types.
LEMMA TypeRequeueIP == TypeOK /\ RequeueIP => TypeOK'
<1> SUFFICES ASSUME TypeOK, RequeueIP PROVE TypeOK'
  OBVIOUS
<1>1. ASSUME NEW p \in Pods, Retrieve(p) PROVE TypeOK'
  BY <1>1 DEF TypeOK, Retrieve, Existing, IPs, daemons, manager
<1>2. ASSUME NEW p \in Pods, Assign(p) PROVE TypeOK'
  BY <1>2 DEF TypeOK, Assign, Existing, Requests, cluster, daemons, manager
<1>3. ASSUME NEW p \in Pods, Answer(p) PROVE TypeOK'
  <2>1. req' \in [Pods -> Requests] /\ using' \in [Pods -> SUBSET Nat]
    <3> DEFINE new == {req[p].try[v].ip : v \in {w \in Versions : req[p].try[w].st = "ok"}}
    <3>1. new \subseteq Nat /\ req[p].got \subseteq Nat
      BY DEF TypeOK, Requests, IPs
    <3>2. using' \in {using, [using EXCEPT ![p] = req[p].got \cup new]}
      BY <1>3 DEF Answer
    <3> QED BY <3>1, <3>2, <1>3, IdleType DEF TypeOK, Answer
  <2> QED BY <2>1, <1>3 DEF TypeOK, Answer, daemons, manager
<1>4. ASSUME NEW p \in Pods, NEW v \in Versions, CreateFirst(p, v) PROVE TypeOK'
  <2> DEFINE S == FreeOf(p, v)
  <2>1. S \subseteq IPs
    BY DEF TypeOK, FreeOf, IPs
  <2>2. PICK a \in Indexed(S, Hash[p][v]) :
            TryCreate(p, v, a, [st : {"probe"}, ip : Following(S, a)])
    BY <1>4 DEF CreateFirst
  <2>3. a \in Nat /\ Following(S, a) \subseteq Nat
    BY <2>1, <2>2 DEF Indexed, Following, IPs
  <2> QED BY <2>2, <2>3, TryType
<1>5. ASSUME NEW p \in Pods, NEW v \in Versions, CreateProbe(p, v) PROVE TypeOK'
  <2>1. req[p].try[v].ip \in Nat
    BY DEF TypeOK, Requests
  <2>2. TryCreate(p, v, req[p].try[v].ip, [st : {"first", "failed"}, ip : {0}])
    BY <1>5 DEF CreateProbe
  <2>3. [st : {"first", "failed"}, ip : {0}]
            \subseteq [st : {"first", "probe", "failed"}, ip : Nat]
    OBVIOUS
  <2> QED BY <2>1, <2>2, <2>3, TryType
<1>6. ASSUME NEW p \in Pods, NEW v \in Versions, Exhausted(p, v) PROVE TypeOK'
  <2>1. req' = [req EXCEPT ![p].try[v] = [st |-> "failed", ip |-> 0]]
    BY <1>6 DEF Exhausted
  <2>2. req' \in [Pods -> Requests]
    BY <2>1, TryUpdate DEF TypeOK
  <2> QED BY <2>2, <1>6 DEF TypeOK, Exhausted, cluster, daemons, manager
<1>7. ASSUME NEW p \in Pods, PodGCStep(p) PROVE TypeOK'
  BY <1>7 DEF TypeOK, PodGCStep, PodCollected, CollectPodIP, Owners, cluster,
              daemons, manager
<1>8. CASE STSGCStep
  BY <1>8 DEF TypeOK, STSGCStep, ListSTSIPs, STSPodCollected, CollectSTSIP, Owners,
              cluster, daemons, manager
<1> QED
  BY <1>1, <1>2, <1>3, <1>4, <1>5, <1>6, <1>7, <1>8 DEF RequeueIP, CmdAddStep

-----------------------------------------------------------------------------
(* The part of the invariant that speaks of Pods, step by step.            *)

PodsInv == StartsAfresh /\ OneEach /\ OneToGet /\ UsedHeld /\ AnswerHeld

\* It does not depend on caches, queues or budgets.
LEMMA SamePods ==
    ASSUME PodsInv, UNCHANGED <<pod, using, owner, sts, req>>
    PROVE  PodsInv'
BY DEF PodsInv, StartsAfresh, OneEach, OneToGet, UsedHeld, AnswerHeld, Held, Active,
       Wanted

\* An update of the StatefulSet activates no Pod that was not active: when it
\* wants more Pods than before, those are not there yet.
LEMMA EditInv ==
    ASSUME TypeOK, PodsInv, EditSTS,
           Settled \/ \A p \in STSPods : Wanted(p, sts') => Wanted(p, sts)
    PROVE  PodsInv'
<1>1. UNCHANGED <<pod, using, owner, req>>
  BY DEF EditSTS, daemons, manager
<1>2. \A p \in Pods : Active(p)' => Active(p) \/ pod[p] = "none"
  BY <1>1 DEF Settled, Active, Wanted
<1>3. \A p \in Pods : Active(p)' => Active(p)
  BY <1>1, <1>2 DEF Active
<1> QED
  BY <1>1, <1>3 DEF PodsInv, StartsAfresh, OneEach, OneToGet, UsedHeld, AnswerHeld,
                    Held

\* The life of a Pod: it becomes active without a network, and its network
\* only goes.
LEMMA LifeInv ==
    ASSUME TypeOK, PodsInv, NEW p \in Pods,
           \/ CreatePod(p) \/ EvictPod(p) \/ DeletePod(p)
           \/ StopPod(p) \/ RemovePod(p) \/ LoseSandbox(p)
    PROVE  PodsInv'
<1>1. UNCHANGED <<owner, sts, req>>
  BY DEF CreatePod, EvictPod, DeletePod, StopPod, RemovePod, LoseSandbox, daemons,
         manager
<1>2. \A q \in Pods \ {p} : pod'[q] = pod[q] /\ using'[q] = using[q]
  BY DEF TypeOK, CreatePod, EvictPod, DeletePod, StopPod, RemovePod, LoseSandbox
<1>3. using'[p] \in {using[p], {}}
  BY DEF TypeOK, CreatePod, EvictPod, DeletePod, StopPod, RemovePod, LoseSandbox
<1>4. pod'[p] \in {"none", "gone"} => ~req[p].busy /\ using'[p] = {}
  BY DEF TypeOK, CreatePod, EvictPod, DeletePod, StopPod, RemovePod, LoseSandbox
<1>5. pod'[p] = "alive" => pod[p] = "alive" \/ (~req[p].busy /\ using[p] = {})
  <2>1. pod'[p] = "alive" => pod[p] \in {"alive", "none"}
    BY DEF TypeOK, CreatePod, EvictPod, DeletePod, StopPod, RemovePod, LoseSandbox
  <2> QED BY <2>1 DEF PodsInv, StartsAfresh
<1>6. StartsAfresh'
  BY <1>1, <1>2, <1>4 DEF PodsInv, StartsAfresh
<1>7. OneEach' /\ OneToGet'
  BY <1>1 DEF PodsInv, OneEach, OneToGet, Held
<1>8. \A q \in Pods : Active(q)' => Active(q) \/ (q = p /\ req[p] = Idle /\ using[p] = {})
  BY <1>1, <1>2, <1>5 DEF Active, Wanted, PodsInv, StartsAfresh
<1>9. UsedHeld'
  BY <1>1, <1>2, <1>3, <1>8 DEF PodsInv, UsedHeld, Held
<1>10. AnswerHeld'
  BY <1>1, <1>8 DEF PodsInv, AnswerHeld, Held, Idle
<1> QED BY <1>6, <1>7, <1>9, <1>10 DEF PodsInv

\* An IP object is deleted whose Pod is not active.
LEMMA ReleaseInv ==
    ASSUME TypeOK, PodsInv, NEW p \in Pods, NEW a \in IPs,
           owner[a] = p, ~Active(p),
           owner' = [owner EXCEPT ![a] = NoPod], UNCHANGED <<pod, using, sts, req>>
    PROVE  PodsInv'
<1>1. \A q \in Pods : Held(q)' \subseteq Held(q)
  BY DEF TypeOK, Owners, Held
<1>2. \A q \in Pods \ {p} : Held(q)' = Held(q)
  BY DEF TypeOK, Owners, Held
<1>3. \A q \in Pods : Active(q)' => Active(q) /\ q # p
  BY DEF Active, Wanted
<1> QED
  BY <1>1, <1>2, <1>3 DEF PodsInv, StartsAfresh, OneEach, OneToGet, UsedHeld,
                          AnswerHeld

-----------------------------------------------------------------------------
(* ... and the steps of a cmdAdd.                                          *)

\* A Pod that has all its addresses gets them from a cache that is current.
LEMMA RetrieveInv ==
    ASSUME TypeOK, PodsInv, NEW p \in Pods, Retrieve(p), Begins(p) => CaughtUp(p)
    PROVE  PodsInv'
<1>1. /\ UNCHANGED <<pod, owner, sts, req>>
      /\ using' = [using EXCEPT ![p] = Existing(p)]
      /\ pod[p] = "alive" /\ ~req[p].busy /\ using[p] = {}
  BY DEF Retrieve, Accepted, Alive, daemons, manager
<1>2. using'[p] \subseteq Held(p)
  BY <1>1 DEF TypeOK, Begins, CaughtUp
<1>3. \A q \in Pods \ {p} : using'[q] = using[q]
  BY <1>1 DEF TypeOK
<1>4. StartsAfresh'
  BY <1>1, <1>3 DEF PodsInv, StartsAfresh
<1>5. UsedHeld'
  BY <1>1, <1>2, <1>3 DEF PodsInv, UsedHeld, Active, Wanted, Held
<1> QED
  BY <1>1, <1>4, <1>5 DEF PodsInv, OneEach, OneToGet, AnswerHeld, Active, Wanted, Held

\* A request starts with the addresses the Pod has, and goroutines only for
\* versions of which it has none.
LEMMA AssignInv ==
    ASSUME TypeOK, PodsInv, NEW p \in Pods, Assign(p), Begins(p) => CaughtUp(p)
    PROVE  PodsInv'
<1> DEFINE r == [busy |-> TRUE, got |-> Existing(p),
                 try |-> [v \in Versions |->
                            [st |-> IF v \in Missing(p) THEN "first" ELSE "none",
                             ip |-> 0]]]
<1>1. /\ UNCHANGED <<pod, using, owner, sts>>
      /\ req' = [req EXCEPT ![p] = r]
      /\ pod[p] = "alive" /\ ~req[p].busy
  BY DEF Assign, Accepted, Alive, cluster, daemons, manager
<1>2. req'[p] = r /\ \A q \in Pods \ {p} : req'[q] = req[q]
  BY <1>1 DEF TypeOK
<1> HIDE DEF r
<1>3. r.busy /\ r.got = Existing(p)
  BY DEF r
<1>4. \A v \in Versions :
        /\ r.try[v].st \in {"first", "none"}
        /\ r.try[v].st = "first" => v \in Missing(p)
  BY DEF r
<1>5. Existing(p) = Held(p)
  BY <1>1, <1>2, <1>3 DEF Begins, CaughtUp
<1>6. StartsAfresh'
  BY <1>1, <1>2, <1>3 DEF PodsInv, StartsAfresh
<1>7. OneToGet'
  BY <1>1, <1>2, <1>4, <1>5 DEF PodsInv, OneToGet, Held, Missing
<1>8. AnswerHeld'
  <2>1. \A q \in Pods : (Active(q)' = Active(q)) /\ (Held(q)' = Held(q))
    BY <1>1 DEF Active, Wanted, Held
  <2>2. req'[p].got \subseteq Held(p)' /\ \A v \in Versions : req'[p].try[v].st # "ok"
    BY <1>2, <1>3, <1>4, <1>5, <2>1
  <2> QED BY <1>2, <2>1, <2>2 DEF PodsInv, AnswerHeld
<1> QED
  BY <1>1, <1>6, <1>7, <1>8 DEF PodsInv, OneEach, UsedHeld, Active, Wanted, Held

\* A goroutine that goes on without an address of its version.
LEMMA GoOnInv ==
    ASSUME TypeOK, PodsInv, NEW p \in Pods, NEW v \in Versions,
           req[p].try[v].st \in {"first", "probe"},
           NEW t \in [st : {"first", "probe", "failed"}, ip : Nat],
           t.st = "probe" => t.ip \in IPPool[v],
           req' = [req EXCEPT ![p].try[v] = t], UNCHANGED <<pod, using, owner, sts>>
    PROVE  PodsInv'
<1>1. /\ req'[p].busy = req[p].busy /\ req'[p].got = req[p].got
      /\ req'[p].try[v] = t
      /\ \A w \in Versions \ {v} : req'[p].try[w] = req[p].try[w]
      /\ \A q \in Pods \ {p} : req'[q] = req[q]
  BY DEF TypeOK, Requests
<1>2. req[p].busy
  BY DEF PodsInv, StartsAfresh, Idle
<1>3. StartsAfresh'
  BY <1>1, <1>2 DEF PodsInv, StartsAfresh
<1>4. OneToGet'
  BY <1>1 DEF PodsInv, OneToGet, Held
<1>5. AnswerHeld'
  BY <1>1 DEF PodsInv, AnswerHeld, Active, Wanted, Held
<1> QED
  BY <1>3, <1>4, <1>5 DEF PodsInv, OneEach, UsedHeld, Active, Wanted, Held

\* A goroutine that gets an address of its version.
LEMMA GetInv ==
    ASSUME TypeOK, PodsInv, NEW p \in Pods, NEW v \in Versions,
           req[p].try[v].st \in {"first", "probe"},
           NEW a \in IPPool[v], owner[a] = NoPod, owner' = [owner EXCEPT ![a] = p],
           req' = [req EXCEPT ![p].try[v] = [st |-> "ok", ip |-> a]],
           UNCHANGED <<pod, using, sts>>
    PROVE  PodsInv'
<1>1. /\ req'[p].busy = req[p].busy /\ req'[p].got = req[p].got
      /\ req'[p].try[v] = [st |-> "ok", ip |-> a]
      /\ \A w \in Versions \ {v} : req'[p].try[w] = req[p].try[w]
      /\ \A q \in Pods \ {p} : req'[q] = req[q]
  BY DEF TypeOK, Requests
<1>2. req[p].busy
  BY DEF PodsInv, StartsAfresh, Idle
<1>3. a \in IPs
  BY DEF IPs
<1>4. Held(p)' = Held(p) \cup {a} /\ \A q \in Pods \ {p} : Held(q)' = Held(q)
  BY <1>3 DEF TypeOK, Owners, Held
<1>5. Held(p) \cap IPPool[v] = {}
  BY DEF PodsInv, OneToGet
<1>6. \A w \in Versions \ {v} : Held(p)' \cap IPPool[w] = Held(p) \cap IPPool[w]
  BY <1>4
<1>7. StartsAfresh'
  BY <1>1, <1>2 DEF PodsInv, StartsAfresh
<1>8. OneEach'
  BY <1>4, <1>5, <1>6 DEF PodsInv, OneEach
<1>9. OneToGet'
  <2>1. ASSUME NEW q \in Pods, q # p, NEW w \in Versions
        PROVE  LET t == req'[q].try[w]
               IN  /\ t.st \in {"probe", "ok"} => t.ip \in IPPool[w]
                   /\ t.st \in {"first", "probe", "failed"} =>
                        Held(q)' \cap IPPool[w] = {}
    BY <1>1, <1>4, <2>1 DEF PodsInv, OneToGet
  <2>2. ASSUME NEW w \in Versions
        PROVE  LET t == req'[p].try[w]
               IN  /\ t.st \in {"probe", "ok"} => t.ip \in IPPool[w]
                   /\ t.st \in {"first", "probe", "failed"} =>
                        Held(p)' \cap IPPool[w] = {}
    BY <1>1, <1>6 DEF PodsInv, OneToGet
  <2> QED BY <2>1, <2>2 DEF OneToGet
<1>10. UsedHeld'
  BY <1>4 DEF PodsInv, UsedHeld, Active, Wanted
<1>11. AnswerHeld'
  BY <1>1, <1>4 DEF PodsInv, AnswerHeld, Active, Wanted
<1> QED BY <1>7, <1>8, <1>9, <1>10, <1>11 DEF PodsInv

\* One Create, at an address of the version.
LEMMA CreateInv ==
    ASSUME TypeOK, PodsInv, NEW p \in Pods, NEW v \in Versions, NEW a \in IPPool[v],
           req[p].try[v].st \in {"first", "probe"},
           NEW next \in SUBSET [st : {"first", "probe", "failed"}, ip : Nat],
           \A t \in next : t.st = "probe" => t.ip \in IPPool[v],
           TryCreate(p, v, a, next)
    PROVE  PodsInv'
<1>1. UNCHANGED <<pod, using, sts>>
  BY DEF TryCreate
<1>2. CASE owner[a] = NoPod
  BY <1>1, <1>2, GetInv DEF TryCreate
<1>3. CASE owner[a] # NoPod
  <2>1. PICK t \in next : req' = [req EXCEPT ![p].try[v] = t]
    BY <1>3 DEF TryCreate
  <2>2. UNCHANGED owner
    BY <1>3 DEF TryCreate
  <2> QED BY <1>1, <2>1, <2>2, GoOnInv
<1> QED BY <1>2, <1>3

\* A request ends: answered with addresses that are held, or without.
LEMMA EndInv ==
    ASSUME TypeOK, PodsInv, NEW p \in Pods, req[p].busy,
           req' = [req EXCEPT ![p] = Idle], UNCHANGED <<pod, owner, sts>>,
           \/ UNCHANGED using
           \/ \E S : /\ using' = [using EXCEPT ![p] = S]
                     /\ Active(p) => S \subseteq Held(p)
    PROVE  PodsInv'
<1>1. req'[p] = Idle /\ \A q \in Pods \ {p} : req'[q] = req[q]
  BY DEF TypeOK
<1>2. \A q \in Pods \ {p} : using'[q] = using[q]
  BY DEF TypeOK
<1>3. Active(p) => using'[p] \subseteq Held(p)
  BY DEF TypeOK, PodsInv, UsedHeld
<1>4. StartsAfresh'
  BY <1>1, <1>2 DEF PodsInv, StartsAfresh, Idle
<1>5. OneToGet' /\ AnswerHeld'
  BY <1>1 DEF PodsInv, OneToGet, AnswerHeld, Idle, Active, Wanted, Held
<1>6. OneEach' /\ UsedHeld'
  BY <1>2, <1>3 DEF PodsInv, OneEach, UsedHeld, Active, Wanted, Held
<1> QED BY <1>4, <1>5, <1>6 DEF PodsInv

\* Every step of a cmdAdd keeps the invariant.
LEMMA CmdAddInv ==
    ASSUME TypeOK, PodsInv, NEW p \in Pods, CmdAddStep(p) \/ Abort(p),
           Begins(p) => CaughtUp(p)
    PROVE  PodsInv'
<1>1. CASE Retrieve(p) BY <1>1, RetrieveInv
<1>2. CASE Assign(p) BY <1>2, AssignInv
<1>3. CASE Answer(p)
  <2> DEFINE new == {req[p].try[v].ip :
                       v \in {w \in Versions : req[p].try[w].st = "ok"}}
             S == req[p].got \cup new
  <2>1. Active(p) => S \subseteq Held(p)
    BY DEF PodsInv, AnswerHeld
  <2>2. UNCHANGED using \/ using' = [using EXCEPT ![p] = S]
    BY <1>3 DEF Answer
  <2>3. req[p].busy /\ req' = [req EXCEPT ![p] = Idle] /\ UNCHANGED <<pod, owner, sts>>
    BY <1>3 DEF Answer, daemons, manager
  <2> QED BY <2>1, <2>2, <2>3, EndInv
<1>4. CASE Abort(p)
  <2>1. /\ req[p].busy /\ req' = [req EXCEPT ![p] = Idle]
        /\ UNCHANGED <<pod, using, owner, sts>>
    BY <1>4 DEF Abort, cluster, daemons, manager
  <2> QED BY <2>1, EndInv
<1>5. ASSUME NEW v \in Versions, CreateFirst(p, v) PROVE PodsInv'
  <2> DEFINE S == FreeOf(p, v)
  <2>1. S \subseteq IPPool[v]
    BY DEF FreeOf
  <2>2. PICK a \in Indexed(S, Hash[p][v]) :
            TryCreate(p, v, a, [st : {"probe"}, ip : Following(S, a)])
    BY <1>5 DEF CreateFirst
  <2>3. a \in IPPool[v] /\ Following(S, a) \subseteq IPPool[v]
    BY <2>1, <2>2 DEF Indexed, Following
  <2> DEFINE next == [st : {"probe"}, ip : Following(S, a)]
  <2>4. next \in SUBSET [st : {"first", "probe", "failed"}, ip : Nat]
    BY <2>3
  <2>5. \A t \in next : t.st = "probe" => t.ip \in IPPool[v]
    BY <2>3
  <2>6. req[p].try[v].st \in {"first", "probe"}
    BY <1>5 DEF CreateFirst
  <2>7. TryCreate(p, v, a, next)
    BY <2>2
  <2> HIDE DEF next
  <2> QED BY <2>3, <2>4, <2>5, <2>6, <2>7, CreateInv
<1>6. ASSUME NEW v \in Versions, CreateProbe(p, v) PROVE PodsInv'
  <2> DEFINE next == [st : {"first", "failed"}, ip : {0}]
             a == req[p].try[v].ip
  <2>1. req[p].try[v].st = "probe" /\ TryCreate(p, v, a, next)
    BY <1>6 DEF CreateProbe
  <2>2. a \in IPPool[v]
    BY <2>1 DEF PodsInv, OneToGet
  <2>3. next \in SUBSET [st : {"first", "probe", "failed"}, ip : Nat]
    OBVIOUS
  <2>4. \A t \in next : t.st = "probe" => t.ip \in IPPool[v]
    OBVIOUS
  <2>5. req[p].try[v].st \in {"first", "probe"}
    BY <2>1
  <2> HIDE DEF next, a
  <2> QED BY <2>1, <2>2, <2>3, <2>4, <2>5, CreateInv
<1>7. ASSUME NEW v \in Versions, Exhausted(p, v) PROVE PodsInv'
  <2>1. /\ req[p].try[v].st = "first"
        /\ req' = [req EXCEPT ![p].try[v] = [st |-> "failed", ip |-> 0]]
        /\ UNCHANGED <<pod, using, owner, sts>>
    BY <1>7 DEF Exhausted, cluster, daemons, manager
  <2> DEFINE t == [st |-> "failed", ip |-> 0]
  <2>2. t \in [st : {"first", "probe", "failed"}, ip : Nat] /\ t.st # "probe"
    OBVIOUS
  <2>3. req' = [req EXCEPT ![p].try[v] = t]
    BY <2>1
  <2> HIDE DEF t
  <2> QED BY <2>1, <2>2, <2>3, GoOnInv
<1> QED BY <1>1, <1>2, <1>3, <1>4, <1>5, <1>6, <1>7 DEF CmdAddStep

-----------------------------------------------------------------------------
(* Whole answers.                                                          *)

\* What a cmdAdd finds in a current cache is at most one address of each version
\* that its Pod wants, and no other.
LEMMA FoundOnce ==
    ASSUME OneEach, NEW p \in Pods, ~TooMany(p), Existing(p) = Held(p), NEW v \in Versions
    PROVE  \/ Existing(p) \cap IPPool[v] = {}
           \/ v \in Wants[p] /\ \E a \in IPPool[v] : Existing(p) \cap IPPool[v] = {a}
<1> DEFINE found == Existing(p) \cap IPPool[v]
<1>1. \A a \in found : found = {a}
  BY DEF OneEach
<1>2. \A a : Cardinality({a}) = 1
  BY FS_Singleton
<1>3. ~(Cardinality(found) > IF v \in Wants[p] THEN 1 ELSE 0)
  BY DEF TooMany
<1>4. found \subseteq IPPool[v]
  OBVIOUS
<1> HIDE DEF found
<1>5. ASSUME NEW a \in found PROVE v \in Wants[p] /\ a \in IPPool[v] /\ found = {a}
  <2>1. found = {a}
    BY <1>1
  <2>2. Cardinality(found) = 1
    BY <1>2, <2>1, Zenon
  <2> QED BY <1>3, <1>4, <2>1, <2>2
<1> QED BY <1>5 DEF found

\* A request that starts looks for what was not found, and for nothing else.
LEMMA AssignWhole ==
    ASSUME TypeOK, OneEach, AnswersWhole, NEW p \in Pods, Assign(p),
           Begins(p) => CaughtUp(p)
    PROVE  AnswersWhole'
<1> DEFINE r == [busy |-> TRUE, got |-> Existing(p),
                 try |-> [v \in Versions |->
                            [st |-> IF v \in Missing(p) THEN "first" ELSE "none",
                             ip |-> 0]]]
<1>1. /\ UNCHANGED using
      /\ req' = [req EXCEPT ![p] = r]
      /\ using[p] = {} /\ ~req[p].busy /\ ~TooMany(p)
  BY DEF Assign, Accepted, cluster
<1>2. req'[p] = r /\ \A q \in Pods \ {p} : req'[q] = req[q]
  BY <1>1 DEF TypeOK
<1> HIDE DEF r
<1>3. /\ r.busy /\ r.got = Existing(p)
      /\ \A v \in Versions : r.try[v].st # "none" <=> v \in Missing(p)
  BY DEF r
<1>4. Existing(p) = Held(p)
  BY <1>1, <1>2, <1>3 DEF Begins, CaughtUp
<1>5. \A v \in Versions : v \in Missing(p) <=> v \in Wants[p] /\ r.got \cap IPPool[v] = {}
  BY <1>3 DEF Missing
<1>6. Covers(p, r)
  BY <1>1, <1>3, <1>4, <1>5, FoundOnce DEF Covers
<1> QED BY <1>1, <1>2, <1>6 DEF AnswersWhole

\* A goroutine that has started has still something to answer for.
LEMMA TryWhole ==
    ASSUME TypeOK, AnswersWhole, NEW p \in Pods, NEW v \in Versions, NEW t,
           req[p].try[v].st # "none", t.st # "none",
           req' = [req EXCEPT ![p].try[v] = t], UNCHANGED using
    PROVE  AnswersWhole'
<1>1. /\ req'[p].busy = req[p].busy /\ req'[p].got = req[p].got
      /\ req'[p].try[v] = t
      /\ \A w \in Versions \ {v} : req'[p].try[w] = req[p].try[w]
      /\ \A q \in Pods \ {p} : req'[q] = req[q]
  BY DEF TypeOK, Requests
<1>2. \A w \in Versions : req'[p].try[w].st # "none" <=> req[p].try[w].st # "none"
  BY <1>1
<1>3. Covers(p, req[p]) => Covers(p, req'[p])
  BY <1>1, <1>2 DEF Covers
<1> QED BY <1>1, <1>3 DEF AnswersWhole

\* One Create, successful or not.
LEMMA CreateWhole ==
    ASSUME TypeOK, AnswersWhole, NEW p \in Pods, NEW v \in Versions,
           CreateFirst(p, v) \/ CreateProbe(p, v) \/ Exhausted(p, v)
    PROVE  AnswersWhole'
<1>1. req[p].try[v].st # "none" /\ UNCHANGED using
  BY DEF CreateFirst, CreateProbe, Exhausted, TryCreate, cluster
<1>2. ASSUME NEW a, NEW states \in SUBSET {"first", "probe", "failed"}, NEW ips,
             TryCreate(p, v, a, [st : states, ip : ips])
      PROVE  \E t : t.st # "none" /\ req' = [req EXCEPT ![p].try[v] = t]
  <2>1. CASE owner[a] = NoPod
    BY <1>2, <2>1 DEF TryCreate
  <2>2. CASE owner[a] # NoPod
    <3>1. PICK t \in [st : states, ip : ips] : req' = [req EXCEPT ![p].try[v] = t]
      BY <1>2, <2>2 DEF TryCreate
    <3> QED BY <3>1
  <2> QED BY <2>1, <2>2
<1>3. \E t : t.st # "none" /\ req' = [req EXCEPT ![p].try[v] = t]
  <2>1. CASE CreateFirst(p, v)
    BY <1>2, <2>1 DEF CreateFirst
  <2>2. CASE CreateProbe(p, v)
    BY <1>2, <2>2 DEF CreateProbe
  <2>3. CASE Exhausted(p, v)
    BY <2>3 DEF Exhausted
  <2> QED BY <2>1, <2>2, <2>3
<1> QED BY <1>1, <1>3, TryWhole

\* Every paced step keeps answers whole.
LEMMA WholeStep ==
    ASSUME TypeOK, PodsInv, AnswersWhole, PacedNext
    PROVE  AnswersWhole'
<1>1. ASSUME UNCHANGED req, \A p \in Pods : req[p].busy => using'[p] \in {using[p], {}}
      PROVE  AnswersWhole'
  BY <1>1 DEF AnswersWhole
<1>2. ASSUME NEW p \in Pods, Retrieve(p) \/ EvictPod(p) \/ StopPod(p) \/ LoseSandbox(p)
      PROVE  AnswersWhole'
  <2>1. UNCHANGED req /\ ~req[p].busy /\ \A q \in Pods \ {p} : using'[q] = using[q]
    BY <1>2 DEF TypeOK, Retrieve, Accepted, EvictPod, StopPod, LoseSandbox
  <2> QED BY <1>1, <2>1
<1>3. ASSUME NEW p \in Pods, Assign(p) PROVE AnswersWhole'
  BY <1>3, AssignWhole DEF PacedNext, PodsInv
<1>4. ASSUME NEW p \in Pods, Answer(p) \/ Abort(p) PROVE AnswersWhole'
  <2>1. /\ req' = [req EXCEPT ![p] = Idle]
        /\ \A q \in Pods \ {p} : using'[q] = using[q]
    BY <1>4 DEF TypeOK, Answer, Abort, cluster
  <2>2. ~req'[p].busy /\ \A q \in Pods \ {p} : req'[q] = req[q]
    BY <2>1 DEF TypeOK, Idle
  <2> QED BY <2>1, <2>2 DEF AnswersWhole
<1>5. ASSUME NEW p \in Pods, NEW v \in Versions,
             CreateFirst(p, v) \/ CreateProbe(p, v) \/ Exhausted(p, v)
      PROVE  AnswersWhole'
  BY <1>5, CreateWhole
<1>6. CASE \/ EditSTS
           \/ \E p \in Pods : CreatePod(p) \/ DeletePod(p) \/ RemovePod(p) \/ PodGCStep(p)
           \/ Platform \/ RestartManager \/ CollectError \/ STSGCStep
  <2>1. UNCHANGED <<req, using>>
    BY <1>6 DEF EditSTS, CreatePod, DeletePod, RemovePod, Platform, KubeGC, SyncDaemonIPs,
                SyncDaemonFree, SyncManagerIPs, SyncManagerSTS, RestartManager,
                CollectError, PodGCStep, PodCollected, CollectPodIP, STSGCStep, ListSTSIPs,
                STSPodCollected, CollectSTSIP, cluster, daemons, manager
  <2> QED BY <1>1, <2>1
<1>7. CASE \E p \in Pods : CmdAddStep(p)
  BY <1>7, <1>2, <1>3, <1>4, <1>5 DEF CmdAddStep
<1>8. CASE Users BY <1>8, <1>2, <1>6 DEF Users
<1>9. CASE Failures BY <1>9, <1>2, <1>4, <1>6 DEF Failures
<1> QED BY <1>6, <1>7, <1>8, <1>9 DEF PacedNext, Next, RequeueIP

-----------------------------------------------------------------------------
(* The invariant of PacedSpec.                                             *)

\* Deletions by the two garbage collectors and by Kubernetes' spare active Pods.
LEMMA CollectInv ==
    ASSUME TypeOK, PodsInv, SafelyDoomed, NEW a \in IPs,
           KubeGC(a) \/ \E p \in Pods : CollectPodIP(p, a) \/ CollectSTSIP(p, a)
    PROVE  PodsInv'
<1>1. PICK p \in Pods : /\ owner[a] = p /\ ~Active(p)
                       /\ owner' = [owner EXCEPT ![a] = NoPod]
                       /\ UNCHANGED <<pod, using, sts, req>>
  <2>1. CASE KubeGC(a)
    BY <2>1 DEF KubeGC, Active, daemons, manager
  <2>2. ASSUME NEW p \in Pods, CollectPodIP(p, a)
        PROVE  /\ owner[a] = p /\ ~Active(p)
               /\ owner' = [owner EXCEPT ![a] = NoPod]
               /\ UNCHANGED <<pod, using, sts, req>>
    BY <2>2 DEF CollectPodIP, Active, daemons, manager
  <2>3. ASSUME NEW p \in Pods, CollectSTSIP(p, a)
        PROVE  /\ owner[a] = p /\ ~Active(p)
               /\ owner' = [owner EXCEPT ![a] = NoPod]
               /\ UNCHANGED <<pod, using, sts, req>>
    BY <2>3 DEF CollectSTSIP, SafelyDoomed, Active, daemons, manager
  <2> QED BY <2>1, <2>2, <2>3
<1> QED BY <1>1, ReleaseInv

\* Every paced step keeps what the invariant says of Pods.
LEMMA PodsStep ==
    ASSUME TypeOK, PodsInv, SafelyDoomed, PacedNext
    PROVE  PodsInv'
<1>1. CASE EditSTS
  BY <1>1, EditInv DEF PacedNext
<1>2. ASSUME NEW p \in Pods,
             \/ CreatePod(p) \/ EvictPod(p) \/ DeletePod(p)
             \/ StopPod(p) \/ RemovePod(p) \/ LoseSandbox(p)
      PROVE  PodsInv'
  BY <1>2, LifeInv
<1>3. ASSUME NEW p \in Pods, CmdAddStep(p) \/ Abort(p) PROVE PodsInv'
  BY <1>3, CmdAddInv DEF PacedNext
<1>4. ASSUME NEW a \in IPs, KubeGC(a) PROVE PodsInv'
  BY <1>4, CollectInv
<1>5. ASSUME NEW p \in Pods, NEW a \in IPs, CollectPodIP(p, a) \/ CollectSTSIP(p, a)
      PROVE  PodsInv'
  BY <1>5, CollectInv
<1>6. ASSUME \/ \E n \in Nodes : SyncDaemonIPs(n) \/ SyncDaemonFree(n)
             \/ SyncManagerIPs \/ SyncManagerSTS \/ RestartManager \/ CollectError
             \/ ListSTSIPs
             \/ \E p \in Pods : PodCollected(p) \/ STSPodCollected(p)
      PROVE  PodsInv'
  <2>1. UNCHANGED <<pod, using, owner, sts, req>>
    BY <1>6 DEF SyncDaemonIPs, SyncDaemonFree, SyncManagerIPs, SyncManagerSTS,
                RestartManager, CollectError, ListSTSIPs, PodCollected,
                STSPodCollected, cluster, daemons, manager
  <2> QED BY <2>1, SamePods
<1>7. Users \/ Platform \/ Failures \/ RequeueIP
  BY DEF PacedNext, Next
<1>8. STSPods \subseteq Pods
  OBVIOUS
<1>9. CASE Users
  BY <1>9, <1>1, <1>2 DEF Users
<1>10. CASE Platform
  BY <1>10, <1>4, <1>6 DEF Platform
<1>11. CASE Failures
  BY <1>11, <1>2, <1>3, <1>6 DEF Failures
<1>12. CASE STSGCStep
  BY <1>12, <1>5, <1>6, <1>8 DEF STSGCStep
<1>13. CASE \E p \in Pods : CmdAddStep(p) \/ PodGCStep(p)
  BY <1>13, <1>3, <1>5, <1>6 DEF PodGCStep
<1> QED BY <1>7, <1>9, <1>10, <1>11, <1>12, <1>13 DEF RequeueIP

\* No paced step dooms a Pod that is wanted.  An update of the StatefulSet that
\* wants more Pods finds the GC at rest; one that wants fewer, or the GC's view
\* of it, only adds to those that may go.
LEMMA DoomedStep ==
    ASSUME TypeOK, SafelyDoomed, PacedNext
    PROVE  SafelyDoomed'
<1> USE DEF SafelyDoomed
<1>1. CASE EditSTS
  <2>1. UNCHANGED <<doomed, stsQ, stsView>>
    BY <1>1 DEF EditSTS, manager
  <2>2. CASE Settled
    BY <2>1, <2>2 DEF Settled
  <2>3. CASE \A p \in STSPods : Wanted(p, sts') => Wanted(p, sts)
    BY <2>1, <2>3 DEF TypeOK, Running
  <2> QED BY <2>2, <2>3 DEF PacedNext
<1>2. CASE SyncManagerSTS \/ RestartManager
  <2>1. stsView' = sts /\ sts' = sts /\ doomed' \subseteq doomed
    BY <1>2 DEF SyncManagerSTS, RestartManager, cluster
  <2>2. \A p \in STSPods : Wanted(p, sts)' => Running(p)'
    BY <2>1 DEF TypeOK, Wanted, Running
  <2> QED BY <2>1, <2>2 DEF Wanted
<1>3. CASE ListSTSIPs
  BY <1>3 DEF TypeOK, ListSTSIPs, Wanted, Running, cluster
<1>4. CASE CollectError
  BY <1>4 DEF CollectError, Wanted, Running, cluster
<1>5. ASSUME NEW p \in STSPods, STSPodCollected(p) PROVE SafelyDoomed'
  BY <1>5 DEF STSPodCollected, Wanted, Running, cluster
<1>6. ASSUME UNCHANGED <<sts, stsView, stsQ, doomed>> PROVE SafelyDoomed'
  BY <1>6 DEF Wanted, Running
<1>7. CASE \E p \in Pods : \/ CreatePod(p) \/ EvictPod(p) \/ DeletePod(p)
                           \/ StopPod(p) \/ RemovePod(p) \/ LoseSandbox(p)
  <2> UNCHANGED <<sts, stsView, stsQ, doomed>>
    BY <1>7 DEF CreatePod, EvictPod, DeletePod, StopPod, RemovePod, LoseSandbox, manager
  <2> QED BY <1>6
<1>8. CASE \E p \in Pods : Retrieve(p) \/ Assign(p) \/ Answer(p) \/ Abort(p)
  <2> UNCHANGED <<sts, stsView, stsQ, doomed>>
    BY <1>8 DEF Retrieve, Assign, Answer, Abort, cluster, manager
  <2> QED BY <1>6
<1>9. CASE \E p \in Pods : \E v \in Versions :
             CreateFirst(p, v) \/ CreateProbe(p, v) \/ Exhausted(p, v)
  <2> UNCHANGED <<sts, stsView, stsQ, doomed>>
    BY <1>9 DEF CreateFirst, CreateProbe, TryCreate, Exhausted, cluster, manager
  <2> QED BY <1>6
<1>10. CASE \/ \E n \in Nodes : SyncDaemonIPs(n) \/ SyncDaemonFree(n)
            \/ SyncManagerIPs
            \/ \E p \in Pods : PodCollected(p)
            \/ \E a \in IPs : \/ KubeGC(a)
                             \/ \E p \in Pods : CollectPodIP(p, a) \/ CollectSTSIP(p, a)
  <2> UNCHANGED <<sts, stsView, stsQ, doomed>>
    BY <1>10 DEF SyncDaemonIPs, SyncDaemonFree, SyncManagerIPs, PodCollected, KubeGC,
                 CollectPodIP, CollectSTSIP, cluster, manager
  <2> QED BY <1>6
<1>11. Users \/ Platform \/ Failures \/ RequeueIP
  BY DEF PacedNext, Next
<1>12. CASE Users BY <1>12, <1>1, <1>7 DEF Users
<1>13. CASE Platform BY <1>13, <1>2, <1>10 DEF Platform
<1>14. CASE Failures BY <1>14, <1>2, <1>4, <1>7, <1>8 DEF Failures
<1>15. CASE STSGCStep BY <1>15, <1>3, <1>5, <1>10 DEF STSGCStep
<1>16. CASE \E p \in Pods : CmdAddStep(p) \/ PodGCStep(p)
  BY <1>16, <1>8, <1>9, <1>10 DEF CmdAddStep, PodGCStep
<1> QED BY <1>11, <1>12, <1>13, <1>14, <1>15, <1>16 DEF RequeueIP

\* No address is taken from a Pod the StatefulSet wants.
LEMMA StaticStep ==
    ASSUME TypeOK, SafelyDoomed, PacedNext, NEW a \in IPs, NEW p \in STSPods,
           owner[a] = p, Wanted(p, sts)
    PROVE  owner'[a] = p
<1> USE DEF TypeOK, Owners
<1>1. CASE Users
  BY <1>1 DEF Users, EditSTS, CreatePod, EvictPod, DeletePod, StopPod, RemovePod
<1>2. CASE Platform
  BY <1>2 DEF Platform, KubeGC, SyncDaemonIPs, SyncDaemonFree, SyncManagerIPs,
              SyncManagerSTS, cluster
<1>3. CASE Failures
  BY <1>3 DEF Failures, RestartManager, CollectError, LoseSandbox, Abort, cluster
<1>4. CASE STSGCStep
  BY <1>4 DEF STSGCStep, ListSTSIPs, STSPodCollected, CollectSTSIP, SafelyDoomed,
              cluster
<1>5. ASSUME NEW q \in Pods, PodGCStep(q) PROVE owner'[a] = p
  BY <1>5 DEF PodGCStep, PodCollected, CollectPodIP, cluster
<1>6. ASSUME NEW q \in Pods, CmdAddStep(q) PROVE owner'[a] = p
  <2>1. ASSUME NEW b, NEW v, NEW next, TryCreate(q, v, b, next) PROVE owner'[a] = p
    BY <2>1 DEF TryCreate
  <2> QED
    BY <1>6, <2>1 DEF CmdAddStep, Retrieve, Assign, Answer, CreateFirst, CreateProbe,
                      Exhausted, cluster
<1> QED BY <1>1, <1>2, <1>3, <1>4, <1>5, <1>6 DEF PacedNext, Next, RequeueIP

\* What holds of one owner per address: two Pods do not hold the same one.
LEMMA HeldOnce == UsedHeld => OneToOne
BY DEF UsedHeld, OneToOne, Held

\* The invariant holds at first.
LEMMA InvInit == Init => AllocationInv
<1> SUFFICES ASSUME Init PROVE AllocationInv
  OBVIOUS
<1>1. \A p \in Pods : /\ req[p] = Idle /\ using[p] = {} /\ Held(p) = {}
  BY DEF Init, PodsInit, Held
<1>2. OneEach /\ UsedHeld
  BY <1>1 DEF OneEach, UsedHeld
<1>3. /\ Idle.got = {} /\ ~Idle.busy
      /\ \A v \in Versions : Idle.try[v].st = "none"
  BY DEF Idle
<1>4. StartsAfresh /\ OneToGet /\ AnswerHeld /\ AnswersWhole
  BY <1>1, <1>3 DEF StartsAfresh, OneToGet, AnswerHeld, AnswersWhole
<1>5. SafelyDoomed
  BY DEF Init, PodsInit, SafelyDoomed
<1> QED BY <1>2, <1>4, <1>5, TypeInit DEF AllocationInv

\* Every paced step keeps it.
LEMMA InvStep == AllocationInv /\ [PacedNext]_vars => AllocationInv'
<1> SUFFICES ASSUME AllocationInv, [PacedNext]_vars PROVE AllocationInv'
  OBVIOUS
<1>1. TypeOK /\ PodsInv /\ AnswersWhole /\ SafelyDoomed
  BY DEF AllocationInv, PodsInv
<1>2. CASE PacedNext
  <2>1. TypeOK'
    BY <1>1, <1>2, TypeEnvironment, TypeRequeueIP DEF PacedNext, Next
  <2>2. PodsInv' /\ AnswersWhole' /\ SafelyDoomed'
    BY <1>1, <1>2, PodsStep, WholeStep, DoomedStep
  <2> QED BY <2>1, <2>2 DEF AllocationInv, PodsInv
<1>3. CASE UNCHANGED vars
  BY <1>3 DEF AllocationInv, TypeOK, StartsAfresh, OneEach, OneToGet, UsedHeld,
              AnswerHeld, AnswersWhole, SafelyDoomed, Held, Active, Wanted, Running,
              vars, cluster, daemons, manager
<1> QED BY <1>2, <1>3

-----------------------------------------------------------------------------
(* Allocation implements Reservation.                                      *)

\* Reservation's operators, under the mapping.
LEMMA SameReserved ==
    /\ Reservations!IPs = IPs
    /\ \A p : Reservations!Reserved(p) = Held(p)
BY DEF Reservations!IPs, IPs, Reservations!Reserved, Held

\* A Pod that uses addresses has a title to them.
LEMMA ActiveEntitled ==
    ASSUME NEW p \in Pods, Active(p)
    PROVE  p \in Entitled
BY DEF Active, Entitled, Wanted

\* Steps that touch no Pod, no address and no update of the StatefulSet.
LEMMA SameReservations ==
    ASSUME UNCHANGED <<pod, using, owner, sts>>
    PROVE  UNCHANGED <<owner, Uses, Entitled>>
BY DEF Uses, Entitled, Active, Wanted

\* An update of the StatefulSet changes titles: whoever loses his stops, whoever
\* gets one is not there yet.
LEMMA EditReserves ==
    ASSUME TypeOK, EditSTS,
           Settled \/ \A p \in STSPods : Wanted(p, sts') => Wanted(p, sts)
    PROVE  Reservations!Next
<1>1. UNCHANGED <<pod, using, owner>>
  BY DEF EditSTS
<1>2. \A p \in Pods : Active(p)' => Active(p)
  BY <1>1 DEF Settled, Active, Wanted
<1>3. \A p \in Pods : p \in Entitled' /\ Active(p) => Active(p)'
  BY <1>1 DEF Active, Entitled, Wanted
<1>4. \A p \in Pods : Active(p)' => p \in Entitled'
  BY DEF Active, Entitled, Wanted
<1>5. Uses' = [p \in Pods |-> IF p \in Entitled' THEN Uses[p] ELSE {}]
  BY <1>1, <1>2, <1>3, <1>4 DEF Uses
<1>6. Entitled' \in SUBSET Pods /\ Entitled' \ Entitled \subseteq STSPods
  BY <1>1 DEF Entitled
<1>7. Reservations!Entitle(Entitled')
  BY <1>1, <1>5, <1>6 DEF Reservations!Entitle
<1> QED BY <1>6, <1>7 DEF Reservations!Next

\* The life of a Pod: it stops using its addresses, and one that is deleted and
\* will not come back loses its title.
LEMMA LifeReserves ==
    ASSUME TypeOK, StartsAfresh, NEW p \in Pods,
           \/ CreatePod(p) \/ EvictPod(p) \/ DeletePod(p)
           \/ StopPod(p) \/ RemovePod(p) \/ LoseSandbox(p)
    PROVE  Reservations!Next \/ UNCHANGED <<owner, Uses, Entitled>>
<1>1. UNCHANGED <<owner, sts>>
  BY DEF CreatePod, EvictPod, DeletePod, StopPod, RemovePod, LoseSandbox
<1>2. \A q \in Pods \ {p} : pod'[q] = pod[q] /\ using'[q] = using[q]
  BY DEF TypeOK, CreatePod, EvictPod, DeletePod, StopPod, RemovePod, LoseSandbox
<1>3. \A q \in Pods \ {p} : Uses'[q] = Uses[q] /\ (q \in Entitled' <=> q \in Entitled)
  BY <1>1, <1>2 DEF Uses, Entitled, Active, Wanted
<1>4. /\ Uses \in [Pods -> SUBSET Nat] /\ Uses' \in [Pods -> SUBSET Nat]
      /\ Entitled \subseteq Pods /\ Entitled' \subseteq Pods
  <2>1. using' \in [Pods -> SUBSET Nat]
    BY DEF TypeOK, CreatePod, EvictPod, DeletePod, StopPod, RemovePod, LoseSandbox
  <2> QED BY <2>1 DEF TypeOK, Uses, Entitled
<1>5. Uses'[p] \in {Uses[p], {}}
  <2>1. Active(p)' => Active(p) \/ using'[p] = {}
    BY <1>1 DEF TypeOK, StartsAfresh, Active, Wanted, CreatePod, EvictPod, DeletePod,
                StopPod, RemovePod, LoseSandbox
  <2>2. using'[p] \in {using[p], {}}
    BY DEF TypeOK, CreatePod, EvictPod, DeletePod, StopPod, RemovePod, LoseSandbox
  <2> QED BY <2>1, <2>2 DEF Uses
<1>6. CASE p \in Entitled' <=> p \in Entitled
  <2>1. Entitled' = Entitled
    <3>1. \A q \in Pods : q \in Entitled' <=> q \in Entitled
      BY <1>3, <1>6
    <3>2. Entitled' \subseteq Entitled /\ Entitled \subseteq Entitled'
      BY <1>4, <3>1
    <3> QED BY <3>2, Zenon
  <2>2. Uses' = Uses \/ Uses' = [Uses EXCEPT ![p] = {}]
    BY <1>3, <1>4, <1>5
  <2>3. Uses' = [Uses EXCEPT ![p] = {}] => Reservations!Stop(p)
    BY <1>1, <2>1 DEF Reservations!Stop
  <2> QED BY <1>1, <2>1, <2>2, <2>3 DEF Reservations!Next
<1>7. CASE ~(p \in Entitled' <=> p \in Entitled)
  <2>1. p \notin STSPods
    BY <1>1, <1>7 DEF Entitled, Wanted
  <2>2. DeletePod(p)
    BY <1>7, <2>1 DEF TypeOK, Entitled, CreatePod, EvictPod, StopPod, RemovePod,
                      LoseSandbox
  <2>3. pod'[p] = "terminating" /\ pod[p] \in {"alive", "failed"}
    BY <2>2 DEF TypeOK, DeletePod
  <2>4. p \in Entitled /\ p \notin Entitled' /\ Uses'[p] = {}
    BY <2>1, <2>3 DEF Entitled, Uses, Active
  <2>5. \A q \in Pods : q \notin Entitled => Uses[q] = {}
    BY ActiveEntitled DEF Uses
  <2>6. Uses' = [q \in Pods |-> IF q \in Entitled' THEN Uses[q] ELSE {}]
    BY <1>3, <1>4, <2>4, <2>5
  <2>7. Entitled' \ Entitled \subseteq STSPods
    BY <1>3, <1>4, <2>4
  <2>8. Reservations!Entitle(Entitled')
    BY <1>1, <2>6, <2>7 DEF Reservations!Entitle
  <2> QED BY <1>4, <2>8 DEF Reservations!Next
<1> QED BY <1>6, <1>7

\* Kubernetes and the garbage collectors delete only IP objects to which no Pod
\* has a title.
LEMMA CollectReserves ==
    ASSUME TypeOK, SafelyDoomed, NEW a \in IPs,
           KubeGC(a) \/ \E p \in Pods : CollectPodIP(p, a) \/ CollectSTSIP(p, a)
    PROVE  Reservations!Next
<1>1. /\ owner[a] \in Pods \ Entitled
      /\ owner' = [owner EXCEPT ![a] = NoPod]
      /\ UNCHANGED <<pod, using, sts>>
  <2>1. CASE KubeGC(a)
    BY <2>1 DEF KubeGC, Entitled
  <2>2. ASSUME NEW p \in Pods, CollectPodIP(p, a)
        PROVE  /\ owner[a] \in Pods \ Entitled
               /\ owner' = [owner EXCEPT ![a] = NoPod]
               /\ UNCHANGED <<pod, using, sts>>
    BY <2>2 DEF TypeOK, CollectPodIP, Entitled
  <2>3. ASSUME NEW p \in Pods, CollectSTSIP(p, a)
        PROVE  /\ owner[a] \in Pods \ Entitled
               /\ owner' = [owner EXCEPT ![a] = NoPod]
               /\ UNCHANGED <<pod, using, sts>>
    BY <2>3 DEF TypeOK, CollectSTSIP, SafelyDoomed, Entitled
  <2> QED BY <2>1, <2>2, <2>3
<1>2. UNCHANGED <<Uses, Entitled>>
  BY <1>1 DEF Uses, Entitled, Active, Wanted
<1>3. Reservations!Release(a)
  BY <1>1, <1>2 DEF Reservations!Release
<1> QED BY <1>3, SameReserved DEF Reservations!Next

\* A network set up with a whole set of addresses that are held: the Pod uses it
\* from now on, unless it is not meant to run any more.
LEMMA UseReserves ==
    ASSUME TypeOK, NEW p \in Pods, NEW S \in SUBSET IPs, using[p] = {},
           Active(p) => S \subseteq Held(p), Reservations!Whole(p, S),
           using' = [using EXCEPT ![p] = S], UNCHANGED <<pod, owner, sts>>
    PROVE  Reservations!Next \/ UNCHANGED <<owner, Uses, Entitled>>
<1>1. UNCHANGED Entitled /\ \A q \in Pods : Active(q)' <=> Active(q)
  BY DEF Entitled, Active, Wanted
<1>2. CASE Active(p)
  <2>1. Uses' = [Uses EXCEPT ![p] = S] /\ Uses[p] = {}
    <3>1. \A q \in Pods : using'[q] = IF q = p THEN S ELSE using[q]
      BY DEF TypeOK
    <3>2. Uses' = [q \in Pods |-> IF Active(q)' THEN using'[q] ELSE {}]
      BY DEF Uses
    <3>3. Uses' = [q \in Pods |-> IF q = p THEN S ELSE Uses[q]]
      BY <1>1, <1>2, <3>1, <3>2 DEF Uses
    <3> QED BY <3>3 DEF Uses
  <2>2. Reservations!Use(p, S)
    BY <1>1, <1>2, <2>1, ActiveEntitled, SameReserved DEF Reservations!Use
  <2> QED BY <2>2, SameReserved DEF Reservations!Next
<1>3. CASE ~Active(p)
  BY <1>1, <1>3 DEF TypeOK, Uses
<1> QED BY <1>2, <1>3

\* All addresses are found.
LEMMA RetrieveReserves ==
    ASSUME TypeOK, OneEach, NEW p \in Pods, Retrieve(p), Begins(p) => CaughtUp(p)
    PROVE  Reservations!Next \/ UNCHANGED <<owner, Uses, Entitled>>
<1>1. /\ UNCHANGED <<pod, owner, sts>>
      /\ using' = [using EXCEPT ![p] = Existing(p)]
      /\ using[p] = {} /\ ~req[p].busy /\ ~TooMany(p)
      /\ Wants[p] # {} /\ Missing(p) = {}
  BY DEF Retrieve, Accepted
<1>2. PICK v \in Versions : Existing(p) \cap IPPool[v] # {}
  BY <1>1 DEF Missing
<1>3. Existing(p) = Held(p)
  BY <1>1, <1>2 DEF TypeOK, Begins, CaughtUp
<1>4. Reservations!Whole(p, Existing(p))
  <2>1. \A w \in Wants[p] : w \in Versions /\ Existing(p) \cap IPPool[w] # {}
    BY <1>1 DEF Missing
  <2> QED BY <1>1, <1>3, <2>1, FoundOnce DEF Reservations!Whole
<1>5. Existing(p) \in SUBSET IPs
  BY DEF Existing
<1> QED BY <1>1, <1>3, <1>4, <1>5, UseReserves

\* Found and got addresses are a whole set.
LEMMA AnswerReserves ==
    ASSUME TypeOK, OneToGet, AnswerHeld, AnswersWhole, NEW p \in Pods, Answer(p)
    PROVE  Reservations!Next \/ UNCHANGED <<owner, Uses, Entitled>>
<1> DEFINE new == {req[p].try[v].ip : v \in {w \in Versions : req[p].try[w].st = "ok"}}
           S == req[p].got \cup new
<1>1. /\ req[p].busy /\ UNCHANGED <<pod, owner, sts>>
      /\ \A v \in Versions : req[p].try[v].st \in {"none", "ok", "failed"}
  BY DEF Answer
<1>2. CASE \E v \in Versions : req[p].try[v].st = "failed"
  <2>1. UNCHANGED using
    BY <1>2 DEF Answer
  <2> QED BY <1>1, <2>1, SameReservations
<1>3. CASE \A v \in Versions : req[p].try[v].st # "failed"
  <2>1. using' = [using EXCEPT ![p] = S]
    BY <1>3 DEF Answer
  <2>2. \A v \in Versions : req[p].try[v].st = "ok" => req[p].try[v].ip \in IPPool[v]
    BY DEF OneToGet
  <2>3. ASSUME NEW v \in Versions
        PROVE  new \cap IPPool[v] = IF req[p].try[v].st = "ok" THEN {req[p].try[v].ip} ELSE {}
    BY <2>2
  <2>4. S \in SUBSET IPs
    BY <2>2 DEF TypeOK, Requests, IPs
  <2>5. Active(p) => S \subseteq Held(p)
    BY DEF AnswerHeld
  <2>6. Covers(p, req[p]) /\ using[p] = {}
    BY <1>1 DEF AnswersWhole
  <2>7. ASSUME NEW v \in Versions
        PROVE  IF v \in Wants[p] THEN \E a \in IPPool[v] : S \cap IPPool[v] = {a}
                                 ELSE S \cap IPPool[v] = {}
    <3> DEFINE found == req[p].got \cap IPPool[v]
    <3>1. S \cap IPPool[v] = found \cup (new \cap IPPool[v])
      OBVIOUS
    <3>2. req[p].try[v].st \in {"none", "ok"}
      BY <1>1, <1>3
    <3>3. \/ found = {} /\ (req[p].try[v].st # "none" <=> v \in Wants[p])
          \/ v \in Wants[p] /\ req[p].try[v].st = "none" /\ \E a \in IPPool[v] : found = {a}
      BY <2>6 DEF Covers
    <3>4. new \cap IPPool[v] = IF req[p].try[v].st = "ok" THEN {req[p].try[v].ip} ELSE {}
      BY <2>3
    <3>5. req[p].try[v].st = "ok" => req[p].try[v].ip \in IPPool[v]
      BY <2>2
    <3> HIDE DEF found, new, S
    <3>6. CASE req[p].try[v].st = "none"
      <4>1. S \cap IPPool[v] = found
        BY <3>1, <3>4, <3>6
      <4> QED BY <3>3, <3>6, <4>1
    <3>7. CASE req[p].try[v].st = "ok"
      <4>1. found = {} /\ v \in Wants[p]
        BY <3>3, <3>7
      <4>2. S \cap IPPool[v] = {req[p].try[v].ip}
        BY <3>1, <3>4, <3>7, <4>1
      <4> QED BY <3>5, <3>7, <4>1, <4>2
    <3> QED BY <3>2, <3>6, <3>7
  <2>8. Reservations!Whole(p, S)
    BY <2>7 DEF Reservations!Whole
  <2> HIDE DEF S
  <2> QED BY <1>1, <2>1, <2>4, <2>5, <2>6, <2>8, UseReserves
<1> QED BY <1>2, <1>3

\* A Create that succeeds reserves a free address of a version of which the Pod
\* has none.
LEMMA CreateReserves ==
    ASSUME TypeOK, OneToGet, NEW p \in Pods, NEW v \in Versions,
           CreateFirst(p, v) \/ CreateProbe(p, v) \/ Exhausted(p, v)
    PROVE  Reservations!Next \/ UNCHANGED <<owner, Uses, Entitled>>
<1>1. CASE Exhausted(p, v)
  BY <1>1, SameReservations DEF Exhausted, cluster
<1>2. ASSUME NEW a \in IPPool[v], NEW next, TryCreate(p, v, a, next),
             req[p].try[v].st \in {"first", "probe"}
      PROVE  Reservations!Next \/ UNCHANGED <<owner, Uses, Entitled>>
  <2>1. UNCHANGED <<pod, using, sts>>
    BY <1>2 DEF TryCreate
  <2>2. UNCHANGED <<Uses, Entitled>>
    BY <2>1 DEF Uses, Entitled, Active, Wanted
  <2>3. CASE owner[a] = NoPod
    <3>1. Reservations!Reserve(p, v, a)
      BY <1>2, <2>2, <2>3, SameReserved DEF TryCreate, OneToGet, Reservations!Reserve
    <3> QED BY <3>1 DEF Reservations!Next
  <2>4. CASE owner[a] # NoPod
    BY <1>2, <2>2, <2>4 DEF TryCreate
  <2> QED BY <2>3, <2>4
<1>3. CASE CreateFirst(p, v)
  <2> DEFINE S == FreeOf(p, v)
  <2>1. PICK a \in Indexed(S, Hash[p][v]) :
            TryCreate(p, v, a, [st : {"probe"}, ip : Following(S, a)])
    BY <1>3 DEF CreateFirst
  <2>2. a \in IPPool[v]
    BY DEF Indexed, FreeOf
  <2>3. req[p].try[v].st = "first"
    BY <1>3 DEF CreateFirst
  <2> QED BY <1>2, <2>1, <2>2, <2>3
<1>4. CASE CreateProbe(p, v)
  <2>1. req[p].try[v].st = "probe"
    BY <1>4 DEF CreateProbe
  <2>2. req[p].try[v].ip \in IPPool[v]
    BY <2>1 DEF OneToGet
  <2> QED BY <1>2, <1>4, <2>1, <2>2 DEF CreateProbe
<1> QED BY <1>1, <1>3, <1>4

\* Every paced step is one of Reservation's, or none.
LEMMA StepReserves ==
    ASSUME AllocationInv, [PacedNext]_vars
    PROVE  [Reservations!Next]_<<owner, Uses, Entitled>>
<1> USE DEF AllocationInv
<1>1. CASE EditSTS
  <2>1. CASE PacedNext
    BY <1>1, <2>1, EditReserves DEF PacedNext
  <2> QED BY <2>1, SameReservations DEF vars, cluster
<1>2. ASSUME NEW p \in Pods,
             \/ CreatePod(p) \/ EvictPod(p) \/ DeletePod(p)
             \/ StopPod(p) \/ RemovePod(p) \/ LoseSandbox(p)
      PROVE  [Reservations!Next]_<<owner, Uses, Entitled>>
  BY <1>2, LifeReserves
<1>3. CASE UNCHANGED <<pod, using, owner, sts>>
  BY <1>3, SameReservations
<1>4. CASE UNCHANGED vars
  BY <1>3, <1>4 DEF vars, cluster
<1>5. ASSUME NEW a \in IPs,
             KubeGC(a) \/ \E p \in Pods : CollectPodIP(p, a) \/ CollectSTSIP(p, a)
      PROVE  [Reservations!Next]_<<owner, Uses, Entitled>>
  BY <1>5, CollectReserves
<1>6. ASSUME NEW p \in Pods, NEW v \in Versions,
             CreateFirst(p, v) \/ CreateProbe(p, v) \/ Exhausted(p, v)
      PROVE  [Reservations!Next]_<<owner, Uses, Entitled>>
  BY <1>6, CreateReserves
<1>7. ASSUME PacedNext, NEW p \in Pods, Retrieve(p) \/ Answer(p)
      PROVE  [Reservations!Next]_<<owner, Uses, Entitled>>
  BY <1>7, RetrieveReserves, AnswerReserves DEF PacedNext
<1>8. ASSUME \/ \E n \in Nodes : SyncDaemonIPs(n) \/ SyncDaemonFree(n)
             \/ SyncManagerIPs \/ SyncManagerSTS \/ RestartManager \/ CollectError
             \/ ListSTSIPs
             \/ \E p \in Pods : PodCollected(p) \/ STSPodCollected(p) \/ Assign(p) \/ Abort(p)
      PROVE  [Reservations!Next]_<<owner, Uses, Entitled>>
  <2>1. UNCHANGED <<pod, using, owner, sts>>
    BY <1>8 DEF SyncDaemonIPs, SyncDaemonFree, SyncManagerIPs, SyncManagerSTS,
                RestartManager, CollectError, ListSTSIPs, PodCollected,
                STSPodCollected, Assign, Abort, cluster, daemons, manager
  <2> QED BY <1>3, <2>1
<1>9. CASE PacedNext
  <2>1. STSPods \subseteq Pods
    OBVIOUS
  <2>2. CASE Users BY <2>2, <1>1, <1>2 DEF Users
  <2>3. CASE Platform BY <2>3, <1>5, <1>8 DEF Platform
  <2>4. CASE Failures BY <2>4, <1>2, <1>8 DEF Failures
  <2>5. CASE STSGCStep BY <2>1, <2>5, <1>5, <1>8 DEF STSGCStep
  <2>6. ASSUME NEW p \in Pods, CmdAddStep(p) \/ PodGCStep(p)
        PROVE  [Reservations!Next]_<<owner, Uses, Entitled>>
    BY <1>9, <2>6, <1>5, <1>6, <1>7, <1>8 DEF CmdAddStep, PodGCStep
  <2> QED BY <1>9, <2>2, <2>3, <2>4, <2>5, <2>6 DEF PacedNext, Next, RequeueIP
<1> QED BY <1>4, <1>9

\* Nobody uses an address at first.
LEMMA InitReserves == Init => Reservations!Init
<1>1. Init => Uses = [p \in Pods |-> {}] /\ Entitled \in SUBSET Pods
  BY DEF Init, PodsInit, Uses, Entitled
<1>2. Init => owner = [a \in Reservations!IPs |-> NoPod]
  BY SameReserved DEF Init, PodsInit
<1> QED BY <1>1, <1>2 DEF Reservations!Init

\* What Reservation's steps keep: addresses in use are reserved, one of a version
\* at most, and one to which its Pod has a title stays the Pod's.
Sound ==
    /\ owner \in Owners
    /\ \A p \in Pods : Uses[p] \subseteq Held(p)
    /\ OneEach

LEMMA ReservationSound ==
    ASSUME Sound, [Reservations!Next]_<<owner, Uses, Entitled>>
    PROVE  /\ Sound'
           /\ \A a \in IPs : owner[a] \in Entitled => owner'[a] = owner[a]
<1>1. Uses \in [Pods -> SUBSET IPs] /\ Entitled \subseteq Pods
  <2>1. \A p \in Pods : Uses[p] \in SUBSET IPs
    BY DEF Sound, Held
  <2> QED BY <2>1 DEF Uses, Entitled
<1>2. \A p \in Pods : p \notin Entitled => Uses[p] = {}
  BY ActiveEntitled DEF Uses
<1>3. CASE UNCHANGED <<owner, Uses, Entitled>>
  BY <1>3 DEF Sound, OneEach, Held
<1>4. ASSUME UNCHANGED owner, \A p \in Pods : Uses'[p] \subseteq Held(p)
      PROVE  /\ Sound'
             /\ \A a \in IPs : owner[a] \in Entitled => owner'[a] = owner[a]
  BY <1>4 DEF Sound, OneEach, Held
<1>5. ASSUME NEW p \in Pods, Reservations!Stop(p)
      PROVE  UNCHANGED owner /\ \A q \in Pods : Uses'[q] \subseteq Held(q)
  BY <1>1, <1>5 DEF Reservations!Stop, Sound
<1>6. ASSUME NEW p \in Pods, NEW S, Reservations!Use(p, S)
      PROVE  UNCHANGED owner /\ \A q \in Pods : Uses'[q] \subseteq Held(q)
  BY <1>1, <1>6, SameReserved DEF Reservations!Use, Sound
<1>7. ASSUME NEW W, Reservations!Entitle(W)
      PROVE  UNCHANGED owner /\ \A q \in Pods : Uses'[q] \subseteq Held(q)
  BY <1>7 DEF Reservations!Entitle, Sound
<1>8. ASSUME NEW p \in Pods, NEW v \in Versions, NEW a \in IPPool[v],
             Reservations!Reserve(p, v, a)
      PROVE  /\ Sound'
             /\ \A b \in IPs : owner[b] \in Entitled => owner'[b] = owner[b]
  <2>1. /\ a \in IPs /\ owner[a] = NoPod /\ Held(p) \cap IPPool[v] = {}
        /\ owner' = [owner EXCEPT ![a] = p] /\ UNCHANGED Uses
    BY <1>8, SameReserved DEF Reservations!Reserve, IPs
  <2>2. Held(p)' = Held(p) \cup {a} /\ \A q \in Pods \ {p} : Held(q)' = Held(q)
    BY <2>1 DEF Sound, Owners, Held
  <2>3. OneEach'
    <3>1. \A w \in Versions \ {v} : a \notin IPPool[w]
      OBVIOUS
    <3> QED BY <2>1, <2>2, <3>1 DEF Sound, OneEach
  <2>4. owner' \in Owners
    BY <2>1 DEF Sound, Owners
  <2>5. \A q \in Pods : Uses'[q] \subseteq Held(q)'
    BY <2>1, <2>2 DEF Sound
  <2> QED BY <1>1, <2>1, <2>3, <2>4, <2>5 DEF Sound, Owners
<1>9. ASSUME NEW a \in IPs, Reservations!Release(a)
      PROVE  /\ Sound'
             /\ \A b \in IPs : owner[b] \in Entitled => owner'[b] = owner[b]
  <2>1. /\ owner[a] \in Pods \ Entitled
        /\ owner' = [owner EXCEPT ![a] = NoPod] /\ UNCHANGED Uses
    BY <1>9 DEF Reservations!Release
  <2>2. \A q \in Pods : Held(q)' = Held(q) \ {a}
    BY <2>1 DEF Sound, Owners, Held
  <2>3. \A q \in Pods : Uses'[q] \subseteq Held(q)'
    BY <1>2, <2>1, <2>2 DEF Sound, Held
  <2>4. OneEach' /\ owner' \in Owners
    BY <2>1, <2>2 DEF Sound, OneEach, Owners
  <2> QED BY <2>1, <2>3, <2>4 DEF Sound, Owners
<1> QED
  BY <1>3, <1>4, <1>5, <1>6, <1>7, <1>8, <1>9, SameReserved DEF Reservations!Next

-----------------------------------------------------------------------------

\* Whatever the pace, every variable of the allocator and the garbage collectors
\* keeps its type: IP objects belong to Pods, goroutines try numbers.
THEOREM TypeCorrect == Spec => []TypeOK
<1>1. TypeOK /\ [Next]_vars => TypeOK'
  <2>1. TypeOK /\ UNCHANGED vars => TypeOK'
    BY DEF TypeOK, vars, cluster, daemons, manager
  <2> QED BY <2>1, TypeEnvironment, TypeRequeueIP DEF Next
<1> QED BY TypeInit, <1>1, PTL DEF Spec

\* With caches that catch up between two cmdAdds and a StatefulSet that settles
\* before it grows, the allocator and the garbage collectors keep the invariant.
THEOREM AllocationCorrect == PacedSpec => []AllocationInv
BY InvInit, InvStep, PTL DEF PacedSpec

\* Then no garbage collector pulls an address from under a Pod that is meant to
\* run, through all restarts of Pods, daemons and the controller manager.
THEOREM AddressesStay == PacedSpec => []UsedHeld
<1>1. AllocationInv => UsedHeld
  BY DEF AllocationInv
<1> QED BY AllocationCorrect, <1>1, PTL

\* ... and the mapping of addresses to Pods is 1:1.
THEOREM AddressesUnique == PacedSpec => []OneToOne
<1>1. AllocationInv => OneToOne
  BY HeldOnce DEF AllocationInv
<1> QED BY AllocationCorrect, <1>1, PTL

\* ... and no repetition of cmdAdd gives a Pod a second address of a version.
THEOREM AddressesSingle == PacedSpec => []OneEach
<1>1. AllocationInv => OneEach
  BY DEF AllocationInv
<1> QED BY AllocationCorrect, <1>1, PTL

\* ... and a StatefulSet keeps the addresses of the ordinals it wants.
THEOREM AddressesStatic == PacedSpec => Static
<1>1. AllocationInv /\ [PacedNext]_vars =>
        [\A a \in IPs : \A p \in STSPods :
           owner[a] = p /\ Wanted(p, sts) => owner'[a] = p]_vars
  BY StaticStep DEF AllocationInv
<1> QED BY AllocationCorrect, <1>1, PTL DEF PacedSpec, Static

\* Allocation implements Reservation: under the same pace, Pods use whole sets
\* of addresses that they have reserved one by one, and no address is released
\* to which its Pod has a title.
THEOREM AllocationReserves == PacedSpec => Reserves
<1>1. AllocationInv /\ [PacedNext]_vars => [Reservations!Next]_<<owner, Uses, Entitled>>
  BY StepReserves
<1> QED
  BY <1>1, InitReserves, AllocationCorrect, PTL DEF PacedSpec, Reserves, Reservations!Spec

\* Reservation promises enough: of any system that implements it under this
\* mapping it follows that Pods use only what is reserved for them, addresses are
\* 1:1, single and static.  So these four follow from the steps alone, however
\* the allocator and the garbage collectors come to make them.
THEOREM ReservationSuffices == Reserves => []UsedHeld /\ []OneToOne /\ []OneEach /\ Static
<1>1. Reservations!Init => Sound
  <2> SUFFICES ASSUME Reservations!Init PROVE Sound
    OBVIOUS
  <2>1. owner = [a \in IPs |-> NoPod] /\ Uses = [p \in Pods |-> {}]
    BY SameReserved DEF Reservations!Init
  <2>2. \A p \in Pods : Held(p) = {}
    BY <2>1 DEF Held
  <2> QED BY <2>1, <2>2 DEF Sound, Owners, OneEach
<1>2. Sound /\ [Reservations!Next]_<<owner, Uses, Entitled>> => Sound'
  BY ReservationSound
<1>3. Sound => UsedHeld /\ OneToOne /\ OneEach
  <2>1. Sound => UsedHeld
    BY DEF Sound, UsedHeld, Uses
  <2> QED BY <2>1, HeldOnce DEF Sound
<1>4. Sound /\ [Reservations!Next]_<<owner, Uses, Entitled>> =>
        [\A a \in IPs : \A p \in STSPods :
           owner[a] = p /\ Wanted(p, sts) => owner'[a] = p]_vars
  BY ReservationSound DEF Entitled
<1> QED BY <1>1, <1>2, <1>3, <1>4, PTL DEF Reserves, Reservations!Spec, Static

-----------------------------------------------------------------------------
(* status.free is only a hint.                                             *)

\* A daemon may be told anything of the free addresses.
AnyFree ==
    /\ free' \in [Nodes -> SUBSET IPs]
    /\ UNCHANGED <<cluster, seen, manager, req, budget>>

HintedSpec == Init /\ [][PacedNext \/ AnyFree]_vars

\* What a daemon is told of free addresses is not in the invariant but by its type.
LEMMA AnyFreeInv ==
    ASSUME AllocationInv, AnyFree
    PROVE  AllocationInv' /\ UNCHANGED <<owner, Uses, Entitled>>
<1>1. UNCHANGED <<pod, using, owner, sts, req>>
  BY DEF AnyFree, cluster
<1>2. UNCHANGED <<owner, Uses, Entitled>>
  BY <1>1, SameReservations
<1>3. PodsInv'
  BY <1>1, SamePods DEF AllocationInv, PodsInv
<1>4. TypeOK'
  BY DEF AllocationInv, AnyFree, TypeOK, cluster, manager
<1>5. AnswersWhole'
  BY <1>1 DEF AllocationInv, AnswersWhole
<1>6. SafelyDoomed'
  BY DEF AllocationInv, AnyFree, SafelyDoomed, Wanted, Running, cluster, manager
<1> QED BY <1>2, <1>3, <1>4, <1>5, <1>6 DEF AllocationInv, PodsInv

\* Whatever the IPPool controllers and informers make of status.free, however old or
\* wrong, an address chosen from it is reserved by Create or not at all: hashing and probing
\* may fail on it, but no Pod uses or loses an address wrongly.
THEOREM FreeIsOnlyAHint ==
    HintedSpec => []UsedHeld /\ []OneToOne /\ []OneEach /\ Static /\ Reserves
<1>1. AllocationInv /\ [PacedNext \/ AnyFree]_vars =>
        AllocationInv' /\ [Reservations!Next]_<<owner, Uses, Entitled>>
  BY InvStep, StepReserves, AnyFreeInv
<1>2. HintedSpec => Reserves
  BY <1>1, InitReserves, InvInit, PTL DEF HintedSpec, Reserves, Reservations!Spec
<1> QED BY <1>2, ReservationSuffices, PTL
=============================================================================
