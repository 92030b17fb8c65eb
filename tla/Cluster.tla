------------------------------- MODULE Cluster -------------------------------
(***************************************************************************)
(* What the two controllers of this development share: the objects in the  *)
(* API server, the informer caches, the work queues, and everything that   *)
(* moves them and is not a reconciler (users, Kubernetes' garbage          *)
(* collector, the CNI daemon that takes addresses, informers, crashes).    *)
(*                                                                         *)
(* An IPPoolClaim and the IPPool made for it have the same name; Pools is  *)
(* the set of those names.  An absent object has a value too (NoPoolObj).  *)
(***************************************************************************)
EXTENDS Addressing

CONSTANTS Pools,      \* names shared by an IPPoolClaim and its IPPool
          NoPool,     \* "no IPPool": the IPBlock object does not exist
          AutoCreated, \* claims created for a workload (they have an owner)
          Namespace,  \* the namespace of each claim and pool
          Sizes,      \* the numbers of replicas each claim may ask for
          MaxEdits, MaxAllocs, MaxFaults  \* bounds of the runs

ASSUME NoPoolAssumption == NoPool \notin Pools
ASSUME AutoAssumption == AutoCreated \subseteq Pools
ASSUME BoundsAssumption ==
    /\ Sizes \in [Pools -> SUBSET Nat]
    /\ MaxEdits \in Nat /\ MaxAllocs \in Nat /\ MaxFaults \in Nat

VARIABLES
    claim,      \* IPPoolClaim objects
    workload,   \* the owner of an auto-created claim
    pool,       \* IPPool objects
    holder,     \* IPBlock objects: the IPPool each one is labelled with
    ips,        \* IP objects, by the IPPool they are labelled with
    subnet,     \* the Subnet's status as the claim controller's cache has it
    poolCache,  \* the controllers' cached IPPools
    ipCache,    \* the controllers' cached IPs
    daemonFree, \* status.free of the IPPool in a node's requeueipd cache
    claimQ,     \* the claim controller's work queue
    poolQ,      \* the pool controller's work queue
    cr,         \* the claim Reconcile in progress for each name
    pr,         \* the pool Reconcile in progress for each name
    budget      \* how many user updates, allocations and failures are left

objects == <<claim, workload, pool, holder, ips>>
caches == <<subnet, poolCache, ipCache, daemonFree>>
workers == <<cr, pr>>
vars == <<objects, caches, claimQ, poolQ, workers, budget>>

-----------------------------------------------------------------------------
\* status.count is nil, or poolSize is nil.
NoCount == -1
Count == {NoCount} \cup Nat

ClaimObj == [st : {"unborn", "live", "terminating", "gone"},
             replicas : Nat, poolSize : Count]

PoolObj == [st : {"none", "live", "terminating"},
            ranges : SUBSET IPs, free : SUBSET IPs, used : Count]

NoPoolObj == [st |-> "none", ranges |-> {}, free |-> {}, used |-> NoCount]

\* The empty IPPool getOrMarkIPPool creates: no ranges, no status yet.
NewPoolObj == [NoPoolObj EXCEPT !.st = "live"]

\* reader.List of IPBlocks with the labels of the IPPool.
Owned(p) == {b \in Blocks : holder[b] = p}
FreeBlocks == {b \in Blocks : holder[b] = NoPool}

\* getOwnerMetadata returned nil, or a terminating owner.
OwnerGone(p) == workload[p] # "alive"

\* One goroutine of claimIPBlocks: the IPBlock it asks for next and how far
\* it got (first Create, Create after linear probing, success, failure).
Goroutines == 1 .. NumBlocks
Attempt == [block : Blocks, st : {"unused", "first", "probe", "ok", "err"}]
NoAttempts == [i \in Goroutines |-> [block |-> 0, st |-> "unused"]]

\* A claim Reconcile between two of its API calls: pc is the next call, n to
\* view what it read when it began, blocks the IPBlocks it goes on with.
ClaimWorker ==
    [pc : {"idle", "patchDown", "deleteAll", "listDown", "release",
           "listUp", "claim", "patchUp", "finish"},
     n : Nat, ranges : SUBSET IPs, free : SUBSET IPs, used : Count,
     view : SUBSET Blocks, blocks : SUBSET Blocks,
     attempts : [Goroutines -> Attempt], failed : BOOLEAN]

IdleCR == [pc |-> "idle", n |-> 0, ranges |-> {}, free |-> {},
           used |-> NoCount, view |-> {}, blocks |-> {},
           attempts |-> NoAttempts, failed |-> FALSE]

\* A pool Reconcile inside cleanUpIPool: the IPPool it read from the cache
\* and the IPBlocks DeleteAllOf has still to delete.
PoolWorker == [pc : {"idle", "delete"},
               seen : PoolObj, todo : SUBSET Blocks]

IdlePR == [pc |-> "idle", seen |-> NoPoolObj, todo |-> {}]

TypeOK ==
    /\ claim \in [Pools -> ClaimObj]
    /\ workload \in [Pools -> {"none", "alive", "gone"}]
    /\ pool \in [Pools -> PoolObj]
    /\ holder \in [Blocks -> Pools \cup {NoPool}]
    /\ ips \in [Pools -> SUBSET IPs]
    /\ subnet \in [ready : BOOLEAN, free : SUBSET Blocks]
    /\ poolCache \in [Pools -> PoolObj]
    /\ ipCache \in [Pools -> SUBSET IPs]
    /\ daemonFree \in [Pools -> SUBSET IPs]
    /\ claimQ \subseteq Pools
    /\ poolQ \subseteq Pools
    /\ cr \in [Pools -> ClaimWorker]
    /\ pr \in [Pools -> PoolWorker]
    /\ budget \in [edits : Nat, allocs : Nat, faults : Nat]

ClusterInit ==
    /\ claim = [p \in Pools |->
                  [st |-> "unborn", replicas |-> 0, poolSize |-> NoCount]]
    /\ workload = [p \in Pools |-> IF p \in AutoCreated THEN "alive" ELSE "none"]
    /\ pool = [p \in Pools |-> NoPoolObj]
    /\ holder = [b \in Blocks |-> NoPool]
    /\ ips = [p \in Pools |-> {}]
    /\ subnet = [ready |-> FALSE, free |-> {}]
    /\ poolCache = pool /\ ipCache = ips
    /\ daemonFree = [p \in Pools |-> {}]
    /\ claimQ = {} /\ poolQ = {}
    /\ cr = [p \in Pools |-> IdleCR]
    /\ pr = [p \in Pools |-> IdlePR]
    /\ budget = [edits |-> MaxEdits, allocs |-> MaxAllocs, faults |-> MaxFaults]

-----------------------------------------------------------------------------
(* Users and workloads.                                                    *)

\* A user, or ensureClaim for a workload, creates the claim.  Names are used
\* once: the name of an auto-created claim is made from the workload's UID.
CreateClaim(p) ==
    /\ claim[p].st = "unborn"
    /\ workload[p] # "gone"
    /\ \E n \in Sizes[p] :
         claim' = [claim EXCEPT ![p] =
                     [st |-> "live", replicas |-> n, poolSize |-> NoCount]]
    /\ claimQ' = claimQ \cup {p}
    /\ UNCHANGED <<workload, pool, holder, ips, caches, poolQ, workers, budget>>

\* The claim's replicas follow the workload's, or the user's wish.
EditReplicas(p) ==
    /\ claim[p].st = "live"
    /\ workload[p] # "gone"
    /\ budget.edits > 0
    /\ \E n \in Sizes[p] \ {claim[p].replicas} :
         claim' = [claim EXCEPT ![p].replicas = n]
    /\ budget' = [budget EXCEPT !.edits = @ - 1]
    /\ claimQ' = claimQ \cup {p}
    /\ UNCHANGED <<workload, pool, holder, ips, caches, poolQ, workers>>

\* A deleted claim stays, terminating, until Reconcile drops its finalizer.
MarkClaimDeleted(p) ==
    /\ claim[p].st = "live"
    /\ claim' = [claim EXCEPT ![p].st = "terminating"]
    /\ claimQ' = claimQ \cup {p}
    /\ UNCHANGED <<workload, pool, holder, ips, caches, poolQ, workers>>

\* A user deletes the claim.
DeleteClaim(p) ==
    /\ MarkClaimDeleted(p)
    /\ budget.edits > 0
    /\ budget' = [budget EXCEPT !.edits = @ - 1]

\* The workload goes away.  The claim controller does not watch workloads.
DeleteWorkload(p) ==
    /\ workload[p] = "alive"
    /\ workload' = [workload EXCEPT ![p] = "gone"]
    /\ UNCHANGED <<claim, pool, holder, ips, caches, claimQ, poolQ, workers, budget>>

(* Kubernetes' garbage collector deletes what has lost its owner.          *)

GCClaim(p) ==
    /\ workload[p] = "gone"
    /\ MarkClaimDeleted(p)
    /\ UNCHANGED budget

GCPool(p) ==
    /\ claim[p].st = "gone"
    /\ pool[p].st = "live"
    /\ pool' = [pool EXCEPT ![p].st = "terminating"]
    /\ UNCHANGED <<claim, workload, holder, ips, caches, claimQ, poolQ, workers, budget>>

-----------------------------------------------------------------------------
(* Addresses in use.                                                       *)

\* assignIP succeeds for some Pod: it takes an address of the status.free the
\* daemon has cached, and the API server refuses a name the namespace has.
AssignIP(p, ip) ==
    /\ budget.allocs > 0
    /\ ip \in daemonFree[p]
    /\ \A q \in Pools : Namespace[q] = Namespace[p] => ip \notin ips[q]
    /\ ips' = [ips EXCEPT ![p] = @ \cup {ip}]
    /\ budget' = [budget EXCEPT !.allocs = @ - 1]
    /\ UNCHANGED <<claim, workload, pool, holder, caches, claimQ, poolQ, workers>>

\* The Pod is gone and its IP object with it.
ReleaseIP(p, ip) ==
    /\ ip \in ips[p]
    /\ ips' = [ips EXCEPT ![p] = @ \ {ip}]
    /\ UNCHANGED <<claim, workload, pool, holder, caches, claimQ, poolQ, workers, budget>>

-----------------------------------------------------------------------------
(* Informers.  They deliver the latest version and may skip older ones.    *)

\* Mutant: the claim controller does not watch the IPPools it owns.
SyncPoolUnowned(p) ==
    /\ poolCache[p] # pool[p]
    /\ poolCache' = [poolCache EXCEPT ![p] = pool[p]]
    /\ poolQ' = poolQ \cup {p}
    /\ UNCHANGED <<objects, subnet, ipCache, daemonFree, claimQ, workers, budget>>

\* The pool controller watches IPPools, the claim controller those it owns.
SyncPool(p) ==
    /\ poolCache[p] # pool[p]
    /\ poolCache' = [poolCache EXCEPT ![p] = pool[p]]
    /\ poolQ' = poolQ \cup {p}
    /\ claimQ' = claimQ \cup {p}
    /\ UNCHANGED <<objects, subnet, ipCache, daemonFree, workers, budget>>

\* Mutant: the pool controller does not watch IPs.
SyncIPUnwatched(p) ==
    /\ ipCache[p] # ips[p]
    /\ ipCache' = [ipCache EXCEPT ![p] = ips[p]]
    /\ UNCHANGED <<objects, subnet, poolCache, daemonFree, claimQ, poolQ, workers, budget>>

\* The pool controller watches IPs and maps each to its IPPool.
SyncIP(p) ==
    /\ ipCache[p] # ips[p]
    /\ ipCache' = [ipCache EXCEPT ![p] = ips[p]]
    /\ poolQ' = poolQ \cup {p}
    /\ UNCHANGED <<objects, subnet, poolCache, daemonFree, claimQ, workers, budget>>

\* A node's daemon has caches of its own (followed while it can still assign).
SyncDaemon(p) ==
    /\ budget.allocs > 0
    /\ daemonFree[p] # pool[p].free
    /\ daemonFree' = [daemonFree EXCEPT ![p] = pool[p].free]
    /\ UNCHANGED <<objects, subnet, poolCache, ipCache, claimQ, poolQ, workers, budget>>

\* The subnet controller counted the IPBlocks and the claim controller's
\* cache received the result; between two such steps the view is out of date.
RefreshSubnet ==
    /\ subnet # [ready |-> TRUE, free |-> FreeBlocks]
    /\ subnet' = [ready |-> TRUE, free |-> FreeBlocks]
    /\ UNCHANGED <<objects, poolCache, ipCache, daemonFree, claimQ, poolQ, workers, budget>>

\* The controller manager stops and a new one starts: Reconciles in progress
\* are lost, the caches are listed anew and every object is enqueued.
Restart ==
    /\ budget.faults > 0
    /\ budget' = [budget EXCEPT !.faults = @ - 1]
    /\ poolCache' = pool
    /\ ipCache' = ips
    /\ claimQ' = {p \in Pools : claim[p].st \in {"live", "terminating"}}
    /\ poolQ' = {p \in Pools : pool[p].st # "none"}
    /\ cr' = [p \in Pools |-> IdleCR]
    /\ pr' = [p \in Pools |-> IdlePR]
    /\ UNCHANGED <<objects, subnet, daemonFree>>
=============================================================================
