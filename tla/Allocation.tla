----------------------------- MODULE Allocation -----------------------------
(***************************************************************************)
(* The allocator, the two garbage collectors and the cluster around them.  *)
(***************************************************************************)
EXTENDS Allocator, Collectors

Init == PodsInit

Users ==
    \/ EditSTS
    \/ \E p \in Pods :
         CreatePod(p) \/ EvictPod(p) \/ DeletePod(p) \/ StopPod(p) \/ RemovePod(p)

Platform ==
    \/ \E a \in IPs : KubeGC(a)
    \/ \E n \in Nodes : SyncDaemonIPs(n) \/ SyncDaemonFree(n)
    \/ SyncManagerIPs \/ SyncManagerSTS

Failures ==
    \/ RestartManager \/ CollectError
    \/ \E p \in Pods : LoseSandbox(p) \/ Abort(p)

RequeueIP == STSGCStep \/ \E p \in Pods : CmdAddStep(p) \/ PodGCStep(p)

Next == Users \/ Platform \/ Failures \/ RequeueIP

Spec == Init /\ [][Next]_vars

-----------------------------------------------------------------------------
(* How far apart things are supposed to happen, and fairness.              *)

\* "the interval between two cmdAdd requests for the same Pod is completely
\* sufficient for Informer sync": the daemon knows the IPs p has.
CaughtUp(p) == Existing(p) = Held(p)

\* A cmdAdd for p that reads the cache now.
Begins(p) == ~req[p].busy /\ (req'[p].busy \/ ~(using'[p] \subseteq using[p]))

\* The last update of the StatefulSet is done with.
Settled ==
    /\ stsView = sts /\ ~stsQ /\ doomed = {}
    /\ \A p \in STSPods : Wanted(p, sts) \/ pod[p] = "none"

\* What the comments take for granted: caches catch up between two cmdAdds, and
\* a StatefulSet gets Pods it did not want only when it has settled.
PacedNext ==
    /\ Next
    /\ \A p \in Pods : Begins(p) => CaughtUp(p)
    /\ Settled \/ \A p \in STSPods : Wanted(p, sts') => Wanted(p, sts)

PacedSpec == Init /\ [][PacedNext]_vars

\* Kubelets retry cmdAdd, daemons answer, informers deliver, GC goes on.
Fairness ==
    /\ \A p \in Pods :
         /\ WF_vars((req[p].busy \/ CaughtUp(p)) /\ CmdAddStep(p))
         /\ WF_vars(PodGCStep(p))
    /\ \A n \in Nodes : WF_vars(SyncDaemonIPs(n)) /\ WF_vars(SyncDaemonFree(n))
    /\ WF_vars(SyncManagerIPs) /\ WF_vars(SyncManagerSTS) /\ WF_vars(STSGCStep)

FairSpec == PacedSpec /\ Fairness

-----------------------------------------------------------------------------
(* Safety.                                                                 *)

\* No address is pulled from under a Pod: what a Pod that is meant to run has
\* been set up with is reserved for it by IP objects.
UsedHeld == \A p \in Pods : Active(p) => using[p] \subseteq Held(p)

\* "1:1 mapping of IP addresses": no two such Pods use the same address.
OneToOne ==
    \A p, q \in Pods :
        p # q /\ Active(p) /\ Active(q) => using[p] \cap using[q] = {}

\* A Pod has at most one address of each version, however often cmdAdd is
\* repeated after it failed for the other version or its answer was lost.
OneEach ==
    \A p \in Pods : \A v \in Versions : \A a, b \in Held(p) \cap IPPool[v] : a = b

\* Static addresses: whatever happens to its Pods, a StatefulSet loses the
\* address of an ordinal only when it does not want the ordinal.
Static ==
    [][\A a \in IPs : \A p \in STSPods :
         owner[a] = p /\ Wanted(p, sts) => owner'[a] = p]_vars

\* Why that holds.  A Pod that is not there has no cmdAdd and no network, and
\* the one of a Pod's name that comes next starts afresh.
StartsAfresh ==
    \A p \in Pods :
        /\ ~req[p].busy => req[p] = Idle
        /\ pod[p] \in {"none", "gone"} => ~req[p].busy /\ using[p] = {}

\* A goroutine works on addresses of its own version, and only while p has none.
OneToGet ==
    \A p \in Pods : \A v \in Versions :
        LET t == req[p].try[v]
        IN  /\ t.st \in {"probe", "ok"} => t.ip \in IPPool[v]
            /\ t.st \in {"first", "probe", "failed"} => Held(p) \cap IPPool[v] = {}

\* What a cmdAdd is going to answer is still the Pod's.
AnswerHeld ==
    \A p \in Pods : Active(p) =>
        /\ req[p].got \subseteq Held(p)
        /\ \A v \in Versions :
             req[p].try[v].st = "ok" => req[p].try[v].ip \in Held(p)

\* One address of each version that p wants is found or to get, and no other.
Covers(p, r) ==
    \A v \in Versions :
        LET found == r.got \cap IPPool[v]
            tried == r.try[v].st # "none"
        IN  \/ found = {} /\ (tried <=> v \in Wants[p])
            \/ v \in Wants[p] /\ ~tried /\ \E a \in IPPool[v] : found = {a}

\* A cmdAdd will answer with what its Pod wants, or fail; until then the Pod has
\* no network.
AnswersWhole == \A p \in Pods : req[p].busy => using[p] = {} /\ Covers(p, req[p])

\* The StatefulSet GC's view never dooms a Pod that is wanted.
SafelyDoomed ==
    /\ \A p \in doomed : ~Wanted(p, sts)
    /\ stsQ \/ doomed # {} => \A p \in STSPods : Wanted(p, sts) => Running(p)

\* The inductive invariant of PacedSpec.
AllocationInv ==
    /\ TypeOK /\ StartsAfresh
    /\ OneEach /\ OneToGet
    /\ UsedHeld /\ AnswerHeld /\ AnswersWhole
    /\ SafelyDoomed

\* Nothing is queued, running or on its way to a cache.
AtRest ==
    /\ stsView = sts /\ ipView = Holders /\ ~stsQ /\ doomed = {} /\ podQ = {}
    /\ \A p \in Pods : ~req[p].busy /\ pod[p] # "terminating"

\* "The IP addresses used by Pod controlled by StatefulSet will be
\* asynchronously released by the controller": at rest those of Pods that the
\* StatefulSet does not want are.
Released ==
    AtRest => \A p \in STSPods : ~Wanted(p, sts) /\ pod[p] = "none" => Held(p) = {}

-----------------------------------------------------------------------------
(* Allocation implements Reservation.                                      *)

\* What the Pods that are meant to run use.
Uses == [p \in Pods |-> IF Active(p) THEN using[p] ELSE {}]

\* A StatefulSet's Pods have a title to their addresses while it wants them,
\* whether they are there or not; the others until they are deleted.
Entitled ==
    {p \in Pods : IF p \in STSPods THEN Wanted(p, sts)
                  ELSE pod[p] \in {"none", "alive", "failed"}}

Reservations == INSTANCE Reservation
                WITH reserved <- owner, uses <- Uses, entitled <- Entitled

\* Pods use whole sets of addresses that are reserved for them, and lose none
\* while they have a title to it, whatever daemons, kubelets and garbage
\* collectors do on the way.
Reserves == Reservations!Spec

-----------------------------------------------------------------------------
(* Liveness.                                                               *)

\* Addresses are left for p, or are p's already.
Room(p) == \A v \in Wants[p] : \E a \in IPPool[v] : owner[a] \in {p, NoPod}

\* A Pod for which there is room gets its addresses, past stale status.free,
\* hash collisions and the failures of one version.
Served ==
    \A p \in Pods : <>[](Active(p) /\ Room(p)) => []<>(using[p] # {})
=============================================================================
