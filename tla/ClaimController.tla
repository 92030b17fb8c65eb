--------------------------- MODULE ClaimController ---------------------------
(***************************************************************************)
(* The Reconcile of claimReconciler (pkg/controller/ippoolclaim_controller *)
(* .go).  One action per API call that changes an object or reads one past *)
(* the cache; cr[p] keeps what the Reconcile of p carries from one call to *)
(* the next.  The work queue runs one Reconcile per name at a time, and    *)
(* those of different names concurrently.  A Reconcile that returns an     *)
(* error, or asks for a requeue, puts its name back on the queue; one that *)
(* would do so before it changed anything is not a step.                   *)
(***************************************************************************)
EXTENDS Cluster

Size(S) == Cardinality(S)

Continue(p, state) == cr' = [cr EXCEPT ![p] = state]

\* Mutant: the error is swallowed, so nothing is retried.
FailSilently(p) ==
    /\ Continue(p, IdleCR)
    /\ UNCHANGED claimQ

\* Reconcile returns an error.
Fail(p) ==
    /\ Continue(p, IdleCR)
    /\ claimQ' = claimQ \cup {p}

\* scale, and the early returns of scaleDown: the next call of a Reconcile
\* for n replicas of an IPPool with these ranges and this status.count.used.
ScaleStep(p, n, ranges, used) ==
    CASE n = Size(ranges) -> "finish"
      [] n > Size(ranges) -> "listUp"
      [] n < Size(ranges) ->
           IF used = NoCount \/ (p \in AutoCreated /\ used # n)
           THEN "finish" ELSE "patchDown"

\* What getIPBlockAllocation gathers, as far as the rest of Reconcile uses it:
\* scaling down reads the IPPool's status, scaling up the Subnet's.
Allocation(p, rp) ==
    LET n    == claim[p].replicas
        step == ScaleStep(p, n, rp.ranges, rp.used)
        base == [IdleCR EXCEPT !.pc = step, !.ranges = rp.ranges]
    IN  CASE step = "finish"    -> base
          [] step = "listUp"    -> [base EXCEPT !.n = n, !.view = subnet.free]
          [] step = "patchDown" -> [base EXCEPT !.n = n, !.free = rp.free,
                                                !.used = rp.used]

\* The Reconcile goes on to the claim's status.
Finishing(ranges) == [IdleCR EXCEPT !.pc = "finish", !.ranges = ranges]

\* The claim p is next on the queue and no Reconcile of p is running.
Dequeue(p) ==
    /\ p \in claimQ
    /\ cr[p].pc = "idle"
    /\ claimQ' = claimQ \ {p}

ClaimExists(p) == claim[p].st \in {"live", "terminating"}

\* A terminating claim whose owner is gone: Reconcile goes no further.
ClaimDone(p) == claim[p].st = "terminating" /\ OwnerGone(p)

\* Any other claim is reconciled, and one whose owner only the cache still has.
ClaimWanted(p) ==
    ClaimExists(p) /\ (claim[p].st = "terminating" => workload[p] # "none")

ForgetClaim(p) ==
    /\ Dequeue(p)
    /\ ~ClaimExists(p)
    /\ UNCHANGED <<objects, caches, poolQ, workers, budget>>

\* Without its finalizer the terminating claim disappears.
RemoveClaimFinalizer(p) ==
    /\ Dequeue(p)
    /\ ClaimDone(p)
    /\ claim' = [claim EXCEPT ![p].st = "gone"]
    /\ UNCHANGED <<workload, pool, holder, ips, caches, poolQ, workers, budget>>

\* selectSubnet accepts the Subnet for n replicas: its status is known and
\* the free IPBlocks it reports are enough.
SubnetFits(n) == subnet.ready /\ n <= Size(subnet.free) * BlockSize

\* getOrMarkIPPool finds no IPPool and creates an empty one.
MarkPool(p) ==
    /\ Dequeue(p)
    /\ ClaimWanted(p)
    /\ pool[p].st = "none"
    /\ SubnetFits(claim[p].replicas)
    /\ pool' = [pool EXCEPT ![p] = NewPoolObj]
    /\ Continue(p, Allocation(p, NewPoolObj))
    /\ UNCHANGED <<claim, workload, holder, ips, caches, poolQ, pr, budget>>

\* getOrMarkIPPool reads the IPPool past the cache.  It may be terminating.
GetPool(p) ==
    /\ Dequeue(p)
    /\ ClaimWanted(p)
    /\ pool[p].st # "none"
    /\ Continue(p, Allocation(p, pool[p]))
    /\ UNCHANGED <<objects, caches, poolQ, pr, budget>>

-----------------------------------------------------------------------------
\* The patch of spec.ranges.
PatchRanges(p, ranges) ==
    /\ pool[p].st # "none"
    /\ pool' = [pool EXCEPT ![p].ranges = ranges]

\* Mutant: IPBlocks that still have addresses in the ranges are not kept back.
ReleaseListed(ranges, listed) ==
    IF listed = {}
    THEN Finishing(ranges)
    ELSE [IdleCR EXCEPT !.pc = "release", !.ranges = ranges, !.blocks = listed]

\* releaseIPBlocks starts on the listed IPBlocks that share no address with
\* the ranges; without any, Reconcile goes on to the claim's status.
Release(ranges, listed) ==
    LET unused == {b \in listed : BlockIPs(b) \cap ranges = {}}
    IN  IF unused = {}
        THEN Finishing(ranges)
        ELSE [IdleCR EXCEPT !.pc = "release", !.ranges = ranges, !.blocks = unused]

\* total - replicas >= step, with total the addresses of the listed IPBlocks.
HasSurplus(listed, n) == Size(listed) * BlockSize - n >= BlockSize

ReleaseSurplus(n, ranges, listed) ==
    IF HasSurplus(listed, n) THEN Release(ranges, listed) ELSE Finishing(ranges)

\* scaleDown: the addresses that status.free does not list stay, and the
\* lowest free ones fill up to the replicas.
DownRanges(s) ==
    (s.ranges \ s.free) \cup
    (IF s.used < s.n THEN Lowest(s.free, s.n - s.used) ELSE {})

PatchDown(p) ==
    LET ranges == DownRanges(cr[p])
    IN  /\ cr[p].pc = "patchDown"
        /\ PatchRanges(p, ranges)
        /\ Continue(p, [IdleCR EXCEPT
                          !.pc = IF ranges = {} THEN "deleteAll" ELSE "listDown",
                          !.n = cr[p].n, !.ranges = ranges])
        /\ UNCHANGED <<claim, workload, holder, ips, caches, claimQ, poolQ, pr, budget>>

\* DeleteAllOf: the API server lists the IPBlocks, then deletes each by name.
DeleteAllBlocks(p) ==
    /\ cr[p].pc = "deleteAll"
    /\ Continue(p, Release({}, Owned(p)))
    /\ UNCHANGED <<objects, caches, claimQ, poolQ, pr, budget>>

ListDown(p) ==
    /\ cr[p].pc = "listDown"
    /\ Continue(p, ReleaseSurplus(cr[p].n, cr[p].ranges, Owned(p)))
    /\ UNCHANGED <<objects, caches, claimQ, poolQ, pr, budget>>

\* One IPBlock is deleted by its name, whoever holds it by now.  Only
\* releaseIPBlocks, not DeleteAllOf, takes an absent one for an error.  With
\* the last deletion all goroutines have returned.
DeleteBlock(p, b) ==
    LET left   == cr[p].blocks \ {b}
        failed == cr[p].failed \/ (holder[b] = NoPool /\ cr[p].ranges # {})
    IN  /\ cr[p].pc = "release"
        /\ b \in cr[p].blocks
        /\ holder' = [holder EXCEPT ![b] = NoPool]
        /\ \/ /\ left # {}
              /\ Continue(p, [cr[p] EXCEPT !.blocks = left, !.failed = failed])
              /\ UNCHANGED claimQ
           \/ /\ left = {} /\ ~failed
              /\ Continue(p, Finishing(cr[p].ranges))
              /\ UNCHANGED claimQ
           \/ /\ left = {} /\ failed
              /\ Fail(p)
        /\ UNCHANGED <<claim, workload, pool, ips, caches, poolQ, pr, budget>>

-----------------------------------------------------------------------------
\* Mutant: the index goes past the free IPBlock it was computed for.
StartAttemptsOffByOne(view, expect) ==
    {[i \in Goroutines |-> IF i <= expect
                          THEN [block |-> index[i] + 1, st |-> "first"]
                          ELSE NoAttempts[i]] :
       index \in [1 .. expect -> view]}

\* claimIPBlocks starts one goroutine for each missing IPBlock, at an index
\* into the Subnet's free IPBlocks that hashing makes arbitrary.
StartAttempts(view, expect) ==
    {[i \in Goroutines |-> IF i <= expect THEN [block |-> index[i], st |-> "first"]
                                          ELSE NoAttempts[i]] :
       index \in [1 .. expect -> view]}

\* scaleUp lists the IPBlocks the pool has and claims those it lacks.
ListUp(p) ==
    LET listed == Owned(p)
        expect == BlocksFor(cr[p].n - Size(listed) * BlockSize)
    IN  /\ cr[p].pc = "listUp"
        /\ \/ /\ cr[p].n <= Size(listed) * BlockSize
              /\ Continue(p, [cr[p] EXCEPT !.pc = "patchUp", !.view = {},
                                        !.blocks = listed])
              /\ UNCHANGED claimQ
           \/ /\ cr[p].n > Size(listed) * BlockSize
              /\ expect <= Size(cr[p].view)
              /\ \E a \in StartAttempts(cr[p].view, expect) :
                   Continue(p, [cr[p] EXCEPT !.pc = "claim", !.blocks = listed,
                                             !.attempts = a])
              /\ UNCHANGED claimQ
           \/ /\ cr[p].n > Size(listed) * BlockSize
              /\ expect > Size(cr[p].view)
              /\ Fail(p)
        /\ UNCHANGED <<objects, caches, poolQ, pr, budget>>

\* Mutant: AlreadyExists is ignored, as if the IPBlock were its own.
AfterCreateIgnoring(view, a) == [a EXCEPT !.st = "ok"]

\* What Create returns: success, AlreadyExists and then linear probing, or
\* AlreadyExists for the second time.
AfterCreate(view, a) ==
    CASE holder[a.block] = NoPool -> [a EXCEPT !.st = "ok"]
      [] holder[a.block] # NoPool /\ a.st = "first" ->
           [block |-> NextBlock(view, a.block), st |-> "probe"]
      [] holder[a.block] # NoPool /\ a.st = "probe" -> [a EXCEPT !.st = "err"]

\* claimIPBlock of goroutine i makes one of its at most two Create calls.
CreateBlock(p, i) ==
    LET a == cr[p].attempts[i]
    IN  /\ cr[p].pc = "claim"
        /\ a.st \in {"first", "probe"}
        /\ holder' = IF holder[a.block] = NoPool
                     THEN [holder EXCEPT ![a.block] = p] ELSE holder
        /\ Continue(p, [cr[p] EXCEPT !.attempts[i] = AfterCreate(cr[p].view, a)])
        /\ UNCHANGED <<claim, workload, pool, ips, caches, claimQ, poolQ, pr, budget>>

\* All goroutines have returned and none still has a call to make.
AllReturned(p) ==
    /\ cr[p].pc = "claim"
    /\ \A i \in Goroutines : cr[p].attempts[i].st \notin {"first", "probe"}

\* One error fails the Reconcile; what the other goroutines created is listed
\* again by the next one.
ClaimBlocksFailed(p) ==
    /\ AllReturned(p)
    /\ \E i \in Goroutines : cr[p].attempts[i].st = "err"
    /\ Fail(p)
    /\ UNCHANGED <<objects, caches, poolQ, pr, budget>>

\* The IPBlocks to scale up within: those listed, and those just created.
Claimed(s) ==
    s.blocks \cup
    {b \in Blocks : \E i \in Goroutines : s.attempts[i] = [block |-> b, st |-> "ok"]}

\* scaleUpWithinIPBlocks adds the lowest addresses the IPBlocks have to spare.
UpRanges(s) ==
    Lowest(IPsOf(Claimed(s)) \ s.ranges, s.n - Size(s.ranges)) \cup s.ranges

\* After it scaleUp releases a surplus of listed IPBlocks; there is none when
\* it just claimed those that were missing.
PatchUp(p) ==
    LET ranges == UpRanges(cr[p])
    IN  /\ \/ cr[p].pc = "patchUp"
           \/ /\ AllReturned(p)
              /\ \A i \in Goroutines : cr[p].attempts[i].st # "err"
        /\ PatchRanges(p, ranges)
        /\ Continue(p, ReleaseSurplus(cr[p].n, ranges, Claimed(cr[p])))
        /\ UNCHANGED <<claim, workload, holder, ips, caches, claimQ, poolQ, pr, budget>>

\* The claim's status gets the size of the ranges this Reconcile knows of;
\* if that changes the claim, the claim's own watch enqueues it again.
Finish(p) ==
    LET size == Size(cr[p].ranges)
    IN  /\ cr[p].pc = "finish"
        /\ claim' = [claim EXCEPT ![p].poolSize = size]
        /\ claimQ' = IF claim[p].poolSize = size THEN claimQ ELSE claimQ \cup {p}
        /\ Continue(p, IdleCR)
        /\ UNCHANGED <<workload, pool, holder, ips, caches, poolQ, pr, budget>>

\* The API server cannot be reached for the rest of this Reconcile.
ClaimError(p) ==
    /\ cr[p].pc # "idle"
    /\ budget.faults > 0
    /\ budget' = [budget EXCEPT !.faults = @ - 1]
    /\ Fail(p)
    /\ UNCHANGED <<objects, caches, poolQ, pr>>

ClaimStep(p) ==
    \/ ForgetClaim(p) \/ RemoveClaimFinalizer(p)
    \/ MarkPool(p) \/ GetPool(p)
    \/ PatchDown(p) \/ DeleteAllBlocks(p) \/ ListDown(p)
    \/ \E b \in Blocks : DeleteBlock(p, b)
    \/ ListUp(p)
    \/ \E i \in Goroutines : CreateBlock(p, i)
    \/ ClaimBlocksFailed(p) \/ PatchUp(p) \/ Finish(p)
=============================================================================
