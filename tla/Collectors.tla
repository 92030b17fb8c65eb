----------------------------- MODULE Collectors -----------------------------
(***************************************************************************)
(* The Reconciles of podGCReconciler and stsGCReconciler                   *)
(* (pkg/controller/pod_gc_controller.go, sts_gc_controller.go), which      *)
(* delete the IPs of Pods that do not go, or that are no longer wanted.    *)
(* DeleteAllOf deletes one object after the other.                         *)
(***************************************************************************)
EXTENDS Pods

\* Terminating beyond the grace period: delete the IPs with the Pod's UID.
CollectPodIP(p, a) ==
    /\ p \in podQ
    /\ pod[p] = "terminating"
    /\ owner[a] = p
    /\ owner' = [owner EXCEPT ![a] = NoPod]
    /\ UNCHANGED <<pod, node, using, sts, daemons, manager, req, budget>>

\* None is left, or the Pod is gone.
PodCollected(p) ==
    /\ p \in podQ
    /\ pod[p] = "gone" \/ Held(p) = {}
    /\ podQ' = podQ \ {p}
    /\ UNCHANGED <<cluster, daemons, ipView, stsView, stsQ, doomed, req, budget>>

\* Mutant: the last ordinal is off by one.
RunningOffByOne(p) == Ordinal[p] < stsView.start + stsView.replicas - 1

\* isRunningSTSPod: the ordinal does not exceed the last one.
Running(p) == Ordinal[p] <= stsView.start + stsView.replicas - 1

\* List the IPs of the StatefulSet in the cache; those of Pods that are not
\* running will be deleted, whether the Pod has gone or not (a TODO).
ListSTSIPs ==
    /\ stsQ /\ doomed = {}
    /\ stsQ' = FALSE
    /\ doomed' = {p \in ipView : ~Running(p)}
    /\ UNCHANGED <<cluster, daemons, ipView, stsView, podQ, req, budget>>

CollectSTSIP(p, a) ==
    /\ p \in doomed
    /\ owner[a] = p
    /\ owner' = [owner EXCEPT ![a] = NoPod]
    /\ UNCHANGED <<pod, node, using, sts, daemons, manager, req, budget>>

STSPodCollected(p) ==
    /\ p \in doomed
    /\ Held(p) = {}
    /\ doomed' = doomed \ {p}
    /\ UNCHANGED <<cluster, daemons, ipView, stsView, stsQ, podQ, req, budget>>

\* An API call fails: the rest is left to the next Reconcile.
CollectError ==
    /\ doomed # {}
    /\ budget.faults > 0
    /\ budget' = [budget EXCEPT !.faults = @ - 1]
    /\ doomed' = {}
    /\ stsQ' = TRUE
    /\ UNCHANGED <<cluster, daemons, ipView, stsView, podQ, req>>

PodGCStep(p) == PodCollected(p) \/ \E a \in IPs : CollectPodIP(p, a)

STSGCStep ==
    \/ ListSTSIPs
    \/ \E p \in STSPods : STSPodCollected(p) \/ \E a \in IPs : CollectSTSIP(p, a)
=============================================================================
