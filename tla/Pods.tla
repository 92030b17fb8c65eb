-------------------------------- MODULE Pods --------------------------------
(***************************************************************************)
(* What the allocator and the two garbage collectors of IP objects share:  *)
(* Pods of a StatefulSet and Pods of Deployments, the IP objects they hold *)
(* in the IPPools of one namespace, the caches of the daemons and of the   *)
(* controller manager, and everything that moves them and is not RequeueIP *)
(* (users, Kubernetes' controllers, kubelets, informers, restarts).        *)
(*                                                                         *)
(* The name of a StatefulSet Pod is used again and again, that of any      *)
(* other Pod once, so it stands for the UID as well.                       *)
(***************************************************************************)
EXTENDS Integers, FiniteSets

CONSTANTS Pods,     \* the names of all Pods
          NoPod,    \* "no Pod": the IP object does not exist
          STSPods,  \* the Pods of the StatefulSet ...
          Ordinal,  \* ... and the ordinal in the name of each
          Versions, \* IPv4, IPv6
          Wants,    \* the versions each Pod's CNI configuration asks for
          IPPool,   \* the addresses of the IPPool of each version
          Hash,     \* the hash of a Pod's ID in each version
          Nodes,    \* each runs a requeueipd with caches of its own
          MaxReplicas, MaxStart, MaxEdits, MaxFaults  \* bounds of the runs

IPs == UNION {IPPool[v] : v \in Versions}

ASSUME PodsAssumption ==
    /\ NoPod \notin Pods
    /\ STSPods \subseteq Pods
    /\ Ordinal \in [STSPods -> Nat]
    /\ Wants \in [Pods -> SUBSET Versions]
    /\ Hash \in [Pods -> [Versions -> Nat]]
ASSUME PoolsAssumption ==
    /\ \A v \in Versions : IPPool[v] \subseteq Nat
    /\ \A v, w \in Versions : v # w => IPPool[v] \cap IPPool[w] = {}
ASSUME LimitsAssumption ==
    /\ MaxReplicas \in Nat /\ MaxStart \in Nat
    /\ MaxEdits \in Nat /\ MaxFaults \in Nat

VARIABLES
    pod,      \* Pod objects
    node,     \* the node each Pod is bound to
    using,    \* the addresses its network namespace has been set up with
    owner,    \* IP objects: the Pod each one is labelled with
    sts,      \* the StatefulSet's spec.ordinals.start and spec.replicas
    seen,     \* the IP objects in each daemon's cache
    free,     \* status.free of the IPPools in each daemon's cache
    ipView,   \* the StatefulSet's Pods that have IPs in the manager's cache
    stsView,  \* the StatefulSet in the controller manager's cache
    stsQ,     \* whether the StatefulSet GC has it in its work queue
    doomed,   \* Pods whose IPs the StatefulSet GC has still to delete
    podQ,     \* Pods whose grace period the Pod GC waits for
    req,      \* the cmdAdd in progress for each Pod
    budget    \* how many updates of the StatefulSet and failures are left

cluster == <<pod, node, using, owner, sts>>
daemons == <<seen, free>>
manager == <<ipView, stsView, stsQ, doomed, podQ>>
vars == <<cluster, daemons, manager, req, budget>>

-----------------------------------------------------------------------------
Held(p) == {a \in IPs : owner[a] = p}
\* The Pods of the StatefulSet that hold addresses.
Holders == {p \in STSPods : Held(p) # {}}

Owners == [IPs -> Pods \cup {NoPod}]

\* The StatefulSet controller keeps the Pods start .. start + replicas - 1.
Wanted(p, s) ==
    p \in STSPods => s.start <= Ordinal[p] /\ Ordinal[p] < s.start + s.replicas

\* A Pod that runs and is meant to.
Active(p) == pod[p] = "alive" /\ Wanted(p, sts)

\* A cmdAdd: the addresses retrieveExistingIPs found, and what assignIP has
\* got to for each version (first Create, Create after linear probing, done).
Idle == [busy |-> FALSE, got |-> {},
         try |-> [v \in Versions |-> [st |-> "none", ip |-> 0]]]

Requests == [busy : BOOLEAN, got : SUBSET IPs,
             try : [Versions -> [st : {"none", "first", "probe", "ok", "failed"},
                                 ip : Nat]]]

TypeOK ==
    /\ pod \in [Pods -> {"none", "alive", "failed", "terminating", "gone"}]
    /\ node \in [Pods -> Nodes]
    /\ using \in [Pods -> SUBSET Nat]
    /\ owner \in Owners
    /\ sts \in [start : Nat, replicas : Nat]
    /\ seen \in [Nodes -> Owners]
    /\ free \in [Nodes -> SUBSET IPs]
    /\ ipView \subseteq STSPods
    /\ stsView \in [start : Nat, replicas : Nat]
    /\ stsQ \in BOOLEAN
    /\ doomed \subseteq STSPods
    /\ podQ \subseteq Pods \ STSPods
    /\ req \in [Pods -> Requests]
    /\ budget \in [edits : Nat, faults : Nat]

\* The IPPools are ready, every cache is current, and there are no Pods yet.
PodsInit ==
    /\ pod = [p \in Pods |-> "none"]
    /\ node \in [Pods -> Nodes]
    /\ using = [p \in Pods |-> {}]
    /\ owner = [a \in IPs |-> NoPod]
    /\ sts \in [start : {0}, replicas : 0 .. MaxReplicas]
    /\ seen = [n \in Nodes |-> owner]
    /\ free = [n \in Nodes |-> IPs]
    /\ ipView = {}
    /\ stsView = sts
    /\ stsQ = FALSE
    /\ doomed = {}
    /\ podQ = {}
    /\ req = [p \in Pods |-> Idle]
    /\ budget = [edits |-> MaxEdits, faults |-> MaxFaults]

-----------------------------------------------------------------------------
(* Users, Kubernetes' controllers and kubelets.                            *)

EditSTS ==
    /\ budget.edits > 0
    /\ sts' \in [start : 0 .. MaxStart, replicas : 0 .. MaxReplicas] \ {sts}
    /\ budget' = [budget EXCEPT !.edits = @ - 1]
    /\ UNCHANGED <<pod, node, using, owner, daemons, manager, req>>

CreatePod(p) ==
    /\ pod[p] = "none" /\ Wanted(p, sts)
    /\ pod' = [pod EXCEPT ![p] = "alive"]
    /\ \E n \in Nodes : node' = [node EXCEPT ![p] = n]
    /\ UNCHANGED <<using, owner, sts, daemons, manager, req, budget>>

\* Evicted: the containers are stopped, the object stays.
EvictPod(p) ==
    /\ pod[p] = "alive" /\ ~req[p].busy
    /\ pod' = [pod EXCEPT ![p] = "failed"]
    /\ using' = [using EXCEPT ![p] = {}]
    /\ UNCHANGED <<node, owner, sts, daemons, manager, req, budget>>

\* Mutant: isRequeueIPPod does not sort out Pods of the StatefulSet.
DeletePodAlike(p) ==
    /\ pod[p] \in {"alive", "failed"}
    /\ pod' = [pod EXCEPT ![p] = "terminating"]
    /\ podQ' = podQ \cup {p}
    /\ UNCHANGED <<node, using, owner, sts, daemons, ipView, stsView, stsQ,
                   doomed, req, budget>>

\* A Pod is deleted: scaled down, rolled over, or by a user.  The event passes
\* PodTerminatingPredicate; isRequeueIPPod sorts out the StatefulSet's.
DeletePod(p) ==
    /\ pod[p] \in {"alive", "failed"}
    /\ pod' = [pod EXCEPT ![p] = "terminating"]
    /\ podQ' = podQ \cup ({p} \ STSPods)
    /\ UNCHANGED <<node, using, owner, sts, daemons, ipView, stsView, stsQ,
                   doomed, req, budget>>

\* The kubelet stops the containers and reports it.  CmdDel does nothing.
StopPod(p) ==
    /\ pod[p] = "terminating" /\ ~req[p].busy /\ using[p] # {}
    /\ using' = [using EXCEPT ![p] = {}]
    /\ podQ' = podQ \cup ({p} \ STSPods)
    /\ UNCHANGED <<pod, node, owner, sts, daemons, ipView, stsView, stsQ,
                   doomed, req, budget>>

\* The kubelet has cleaned up, no cmdAdd of the Pod runs, the object goes.
RemovePod(p) ==
    /\ pod[p] = "terminating" /\ ~req[p].busy /\ using[p] = {}
    /\ pod' = [pod EXCEPT ![p] = IF p \in STSPods THEN "none" ELSE "gone"]
    /\ UNCHANGED <<node, using, owner, sts, daemons, manager, req, budget>>

\* The sandbox of a running Pod is lost with its network (a node restarts).
LoseSandbox(p) ==
    /\ pod[p] = "alive" /\ ~req[p].busy /\ using[p] # {}
    /\ budget.faults > 0
    /\ budget' = [budget EXCEPT !.faults = @ - 1]
    /\ using' = [using EXCEPT ![p] = {}]
    /\ UNCHANGED <<pod, node, owner, sts, daemons, manager, req>>

\* The garbage collector deletes IP objects whose controller is gone: a Pod,
\* or the StatefulSet (which stays) for the IPs of its Pods.
KubeGC(a) ==
    /\ owner[a] \in Pods \ STSPods
    /\ pod[owner[a]] = "gone"
    /\ owner' = [owner EXCEPT ![a] = NoPod]
    /\ UNCHANGED <<pod, node, using, sts, daemons, manager, req, budget>>

-----------------------------------------------------------------------------
(* Informers.  They deliver the latest version and may skip older ones.    *)

SyncDaemonIPs(n) ==
    /\ seen[n] # owner
    /\ seen' = [seen EXCEPT ![n] = owner]
    /\ UNCHANGED <<cluster, free, manager, req, budget>>

\* The pool controller computed status.free and the daemon received it.
SyncDaemonFree(n) ==
    LET unused == {a \in IPs : owner[a] = NoPod}
    IN  /\ free[n] # unused
        /\ free' = [free EXCEPT ![n] = unused]
        /\ UNCHANGED <<cluster, seen, manager, req, budget>>

SyncManagerIPs ==
    /\ ipView # Holders
    /\ ipView' = Holders
    /\ UNCHANGED <<cluster, daemons, stsView, stsQ, doomed, podQ, req, budget>>

\* StatefulSetReplicasDecreasedPredicate
SyncManagerSTS ==
    /\ stsView # sts
    /\ stsView' = sts
    /\ stsQ' = (stsQ \/ sts.replicas < stsView.replicas)
    /\ UNCHANGED <<cluster, daemons, ipView, doomed, podQ, req, budget>>

\* A new controller manager lists everything; the StatefulSet's predicate lets
\* every Create event pass, the Pods' those of terminating Pods.
RestartManager ==
    /\ budget.faults > 0
    /\ budget' = [budget EXCEPT !.faults = @ - 1]
    /\ ipView' = Holders
    /\ stsView' = sts
    /\ stsQ' = TRUE
    /\ doomed' = {}
    /\ podQ' = {p \in Pods \ STSPods : pod[p] = "terminating"}
    /\ UNCHANGED <<cluster, daemons, req>>
=============================================================================
