--------------------------- MODULE PoolController ---------------------------
(***************************************************************************)
(* The Reconcile of poolReconciler (pkg/controller/ippool_controller.go).  *)
(* It reads the IPPool and its IPs from the caches.  The status update is  *)
(* one step: its reads come from caches that are out of date already, so   *)
(* a delay between them and the patch is a later informer step.            *)
(***************************************************************************)
EXTENDS Cluster

DequeuePool(p) ==
    /\ p \in poolQ
    /\ pr[p].pc = "idle"
    /\ poolQ' = poolQ \ {p}

\* cleanUpIPool goes on: no IP refers to the IPPool, as its status says.
Cleanable(rp) == rp.st = "terminating" /\ rp.used = 0

ForgetPool(p) ==
    /\ DequeuePool(p)
    /\ poolCache[p].st = "none"
    /\ UNCHANGED <<objects, caches, claimQ, workers, budget>>

\* The status Reconcile computes from the cached IPPool and its cached IPs.
NewStatus(p) == [free |-> poolCache[p].ranges \ ipCache[p],
                 used |-> Cardinality(ipCache[p])]

\* A merge patch carries the fields in which the new status differs from the
\* cached one, and leaves the others as the API server has them.
MergeStatus(rp, old, new) ==
    [rp EXCEPT !.free = IF new.free = old.free THEN @ ELSE new.free,
               !.used = IF new.used = old.used THEN @ ELSE new.used]

\* Patching an IPPool that is gone fails, and changes nothing.
UpdateStatus(p) ==
    /\ DequeuePool(p)
    /\ poolCache[p].st # "none" /\ ~Cleanable(poolCache[p])
    /\ pool[p].st # "none"
    /\ pool' = [pool EXCEPT ![p] = MergeStatus(@, poolCache[p], NewStatus(p))]
    /\ UNCHANGED <<claim, workload, holder, ips, caches, claimQ, workers, budget>>

\* Mutant: the finalizer is removed without DeleteAllOf.
CleanUpPoolOnly(p) ==
    /\ DequeuePool(p)
    /\ Cleanable(poolCache[p])
    /\ pr' = [pr EXCEPT ![p] = [pc |-> "delete", seen |-> poolCache[p],
                                todo |-> {}]]
    /\ UNCHANGED <<objects, caches, claimQ, cr, budget>>

\* Mutant: DeleteAllOf without the labels that select the IPPool.
CleanUpAllPools(p) ==
    /\ DequeuePool(p)
    /\ Cleanable(poolCache[p])
    /\ pr' = [pr EXCEPT ![p] = [pc |-> "delete", seen |-> poolCache[p],
                                todo |-> Blocks \ FreeBlocks]]
    /\ UNCHANGED <<objects, caches, claimQ, cr, budget>>

\* cleanUpIPool: DeleteAllOf lists the IPBlocks ...
CleanUpPool(p) ==
    /\ DequeuePool(p)
    /\ Cleanable(poolCache[p])
    /\ pr' = [pr EXCEPT ![p] = [pc |-> "delete", seen |-> poolCache[p],
                                todo |-> Owned(p)]]
    /\ UNCHANGED <<objects, caches, claimQ, cr, budget>>

\* ... and deletes each by name, an absent one being no error.
DeletePoolBlock(p, b) ==
    /\ pr[p].pc = "delete"
    /\ b \in pr[p].todo
    /\ holder' = [holder EXCEPT ![b] = NoPool]
    /\ pr' = [pr EXCEPT ![p].todo = @ \ {b}]
    /\ UNCHANGED <<claim, workload, pool, ips, caches, claimQ, poolQ, cr, budget>>

\* The Update without the finalizer removes the IPPool.  The API server
\* accepts it only if the cached IPPool was the latest version.
RemovePoolFinalizer(p) ==
    /\ pr[p].pc = "delete"
    /\ pr[p].todo = {}
    /\ pr' = [pr EXCEPT ![p] = IdlePR]
    /\ IF pool[p] = pr[p].seen
       THEN /\ pool' = [pool EXCEPT ![p] = NoPoolObj]
            /\ UNCHANGED poolQ
       ELSE /\ poolQ' = poolQ \cup {p}
            /\ UNCHANGED pool
    /\ UNCHANGED <<claim, workload, holder, ips, caches, claimQ, cr, budget>>

\* The API server cannot be reached for the rest of this Reconcile.
PoolError(p) ==
    /\ pr[p].pc # "idle"
    /\ budget.faults > 0
    /\ budget' = [budget EXCEPT !.faults = @ - 1]
    /\ pr' = [pr EXCEPT ![p] = IdlePR]
    /\ poolQ' = poolQ \cup {p}
    /\ UNCHANGED <<objects, caches, claimQ, cr>>

PoolStep(p) ==
    \/ ForgetPool(p) \/ UpdateStatus(p) \/ CleanUpPool(p)
    \/ \E b \in Blocks : DeletePoolBlock(p, b)
    \/ RemovePoolFinalizer(p)
=============================================================================
