---------------------------- MODULE Provisioning ----------------------------
(***************************************************************************)
(* The claim controller and the pool controller together: they work on the *)
(* same IPPools and IPBlocks, through the API server and caches that lag.  *)
(***************************************************************************)
EXTENDS ClaimController, PoolController

Init == ClusterInit

Users ==
    \/ \E p \in Pools :
         \/ CreateClaim(p) \/ EditReplicas(p) \/ DeleteClaim(p)
         \/ DeleteWorkload(p)
         \/ \E ip \in IPs : AssignIP(p, ip) \/ ReleaseIP(p, ip)

Platform ==
    \/ \E p \in Pools :
         \/ GCClaim(p) \/ GCPool(p)
         \/ SyncPool(p) \/ SyncIP(p) \/ SyncDaemon(p)
    \/ RefreshSubnet

Failures ==
    \/ \E p \in Pools : ClaimError(p) \/ PoolError(p)
    \/ Restart

Controllers == \E p \in Pools : ClaimStep(p) \/ PoolStep(p)

Next == Users \/ Platform \/ Failures \/ Controllers

Spec == Init /\ [][Next]_vars

-----------------------------------------------------------------------------
(* What the code takes for granted of time, and fairness.                  *)

\* A scale-down that starts from a status.free computed for the present
\* ranges: it lists no address the IPPool does not have.
FreeIsCurrent ==
    \A p \in Pools : cr[p].pc = "patchDown" => cr[p].free \subseteq cr[p].ranges

\* Scale-downs are rare enough for the status to have caught up each time.
PacedNext == Next /\ FreeIsCurrent'

PacedSpec == Init /\ [][PacedNext]_vars

\* Work queues retry until Reconcile succeeds and a running Reconcile goes
\* on; informers deliver; the garbage collector collects.  Nothing is assumed
\* of users, Pods, the daemon or failures.
Fairness ==
    /\ \A p \in Pools :
         /\ WF_vars(ClaimStep(p)) /\ WF_vars(PoolStep(p))
         /\ WF_vars(SyncPool(p)) /\ WF_vars(SyncIP(p))
         /\ WF_vars(GCClaim(p)) /\ WF_vars(GCPool(p))
    /\ WF_vars(RefreshSubnet)

FairSpec == Spec /\ Fairness

-----------------------------------------------------------------------------
(* Safety.                                                                 *)

\* Every address a live IPPool offers belongs to an IPBlock it holds: scaling
\* up patches the ranges after the IPBlocks exist, scaling down before they go.
RangesBacked ==
    \A p \in Pools :
        pool[p].st = "live" => pool[p].ranges \subseteq IPsOf(Owned(p))

\* No two live IPPools offer the same address, whatever their namespaces: the
\* reason for claiming addresses in IPBlocks created by name.
DisjointRanges ==
    \A p, q \in Pools :
        p # q /\ pool[p].st = "live" /\ pool[q].st = "live"
            => pool[p].ranges \cap pool[q].ranges = {}

\* "To ensure that IPBlocks are always correctly recycled" (getOrMarkIPPool):
\* an IPBlock is never left to an IPPool that does not exist.
NoBlockLeak ==
    \A b \in Blocks : holder[b] # NoPool => pool[holder[b]].st # "none"

\* IPBlocks are deleted by name: the one that goes is still the one the
\* deleting Reconcile listed, never another IPPool's of the same name.
OwnBlocksDeleted ==
    [][\A b \in Blocks :
         holder[b] # NoPool /\ holder'[b] = NoPool
            => \/ cr'[holder[b]] # cr[holder[b]]
               \/ pr'[holder[b]] # pr[holder[b]]]_vars

\* Why that holds, first part: the claim's finalizer keeps Reconciles of the
\* claim and the cleaning up of its IPPool apart.
Lifecycle ==
    \A p \in Pools :
        /\ cr[p].pc # "idle" => ClaimExists(p) /\ pool[p].st = "live"
        /\ pool[p].st = "terminating" => claim[p].st = "gone"
        /\ poolCache[p].st = "terminating" \/ pr[p].pc = "delete"
             => claim[p].st = "gone" /\ pool[p].st # "live"

\* Second part: what a Reconcile carries from one API call to the next is
\* still true when it makes the next one.
SnapshotsHold ==
    \A p \in Pools :
        /\ cr[p].pc # "idle" => cr[p].ranges = pool[p].ranges
        /\ cr[p].pc = "deleteAll" => cr[p].ranges = {}
        /\ cr[p].pc \in {"claim", "patchUp"} => Claimed(cr[p]) \subseteq Owned(p)
        /\ cr[p].pc = "release" =>
             /\ cr[p].blocks \subseteq Owned(p)
             /\ IPsOf(cr[p].blocks) \cap cr[p].ranges = {}
        /\ pr[p].pc = "delete" => pr[p].todo = Owned(p)

\* A goroutine of claimIPBlocks runs only inside it, and asks for IPBlocks that
\* were free when the Reconcile began.
Probing ==
    \A p \in Pools : \A i \in Goroutines :
        LET a == cr[p].attempts[i]
        IN  /\ a.st # "unused" => cr[p].pc = "claim"
            /\ a.st \in {"first", "probe"} => a.block \in cr[p].view

\* The inductive invariant of Spec.
OwnershipInv ==
    TypeOK /\ Lifecycle /\ SnapshotsHold /\ Probing /\ NoBlockLeak

\* Nothing is queued, running or on its way to a cache.
AtRest ==
    /\ claimQ = {} /\ poolQ = {}
    /\ poolCache = pool /\ ipCache = ips
    /\ cr = [p \in Pools |-> IdleCR] /\ pr = [p \in Pools |-> IdlePR]

\* The merge patches of the pool's Reconcile, each relative to a cached copy,
\* add up to a status that describes the IPPool once everything is at rest.
StatusExact ==
    AtRest => \A p \in Pools : pool[p].st # "none" =>
                 /\ pool[p].free = pool[p].ranges \ ips[p]
                 /\ pool[p].used = Cardinality(ips[p])

\* No Pod keeps an address from being given up.
Converged(p) ==
    IF p \in AutoCreated THEN Cardinality(ips[p]) = claim[p].replicas
                         ELSE ips[p] = {}

\* A claim is at rest only with the IPPool it asks for: enough addresses, its
\* size reported, and none too many once its Pods have converged.
ClaimServed ==
    AtRest => \A p \in Pools : claim[p].st = "live" =>
                 /\ pool[p].st = "live"
                 /\ claim[p].poolSize = Size(pool[p].ranges)
                 /\ Size(pool[p].ranges) >= claim[p].replicas
                 /\ Converged(p) => Size(pool[p].ranges) = claim[p].replicas

\* releaseIPBlocks "releases unused IPBlocks": a live IPPool that goes on offering
\* addresses loses no IPBlock with an address in use by one of its Pods.
UsedBlocksKept ==
    [][\A p \in Pools : pool[p].st = "live" /\ pool[p].ranges # {} =>
         \A b \in Owned(p) :
            holder'[b] = NoPool => BlockIPs(b) \cap ips[p] = {}]_vars

-----------------------------------------------------------------------------
(* Liveness, and the specification this one implements.                    *)

\* The finalizers come off in the end: once the workload or the user has
\* deleted the claim and the Pods are gone, the IPPool and its IPBlocks go.
Recycled ==
    \A p \in Pools :
        <>[](claim[p].st = "gone" /\ ips[p] = {})
            => <>[](pool[p].st = "none" /\ Owned(p) = {})

\* A claim that is left alone gets its addresses.
ScaledUp ==
    \A p \in Pools :
        <>[](claim[p].st = "live")
            => <>[](Size(pool[p].ranges) >= claim[p].replicas)

\* What the IPPools offer to Pods: the ranges of the live ones.
Offers == [p \in Pools |-> IF pool[p].st = "live" THEN pool[p].ranges ELSE {}]

\* Provisioning implements Leasing: IPBlocks are the leases.
Lease == INSTANCE Leasing WITH lease <- holder, offer <- Offers

Leases == Lease!Spec
=============================================================================
