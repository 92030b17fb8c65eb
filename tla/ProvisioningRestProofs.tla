----------------------- MODULE ProvisioningRestProofs -----------------------
(***************************************************************************)
(* What is proved of Provisioning at rest: the status of IPPools.          *)
(***************************************************************************)
EXTENDS ProvisioningProofs

\* A status that is in the cache and stored was computed from what is cached,
\* unless a Reconcile is queued or cleans up.
Described(p) ==
    pool[p].st # "none" /\ poolCache[p].st # "none" =>
        \/ p \in poolQ
        \/ pr[p].pc = "delete"
        \/ pool[p].free # poolCache[p].free
        \/ pool[p].used # poolCache[p].used
        \/ [free |-> poolCache[p].free, used |-> poolCache[p].used] = NewStatus(p)

\* No IPPool is cached before the first one of its name exists.
Pristine(p) ==
    claim[p].st # "gone" /\ pool[p].st = "none" => poolCache[p].st = "none"

RestInv == OwnershipInv /\ \A p \in Pools : Described(p) /\ Pristine(p)

\* A step that leaves alone what the status of an IPPool is computed from, and the
\* status itself.
LEMMA StatusUntouched ==
  ASSUME NEW q \in Pools, Described(q), Pristine(q),
         (pool'[q].st = "none") <=> (pool[q].st = "none"),
         pool'[q].free = pool[q].free, pool'[q].used = pool[q].used,
         poolCache'[q] = poolCache[q], ipCache'[q] = ipCache[q],
         q \in poolQ => q \in poolQ', pr'[q].pc = pr[q].pc,
         claim[q].st = "gone" => claim'[q].st = "gone"
  PROVE  Described(q)' /\ Pristine(q)'
<1>1. NewStatus(q)' = NewStatus(q)
  BY DEF NewStatus
<1>2. QED
  BY <1>1 DEF Described, Pristine

\* Users, the garbage collector, informers and failures: whatever reaches a cache
\* enqueues the IPPool.
LEMMA EnvironmentRests ==
  ASSUME TypeOK, Users \/ Platform \/ Failures,
         NEW q \in Pools, Described(q), Pristine(q)
  PROVE  Described(q)' /\ Pristine(q)'
<1> USE DEF objects, caches, workers
<1>1. /\ pool \in [Pools -> PoolObj] /\ pool[q] \in PoolObj
      /\ claim \in [Pools -> ClaimObj] /\ claim[q] \in ClaimObj
      /\ poolCache \in [Pools -> PoolObj] /\ ipCache \in [Pools -> SUBSET IPs]
      /\ pr \in [Pools -> PoolWorker]
  BY DEF TypeOK
<1>2. ASSUME UNCHANGED <<claim, pool, poolCache, ipCache, poolQ, pr>>
      PROVE  Described(q)' /\ Pristine(q)'
  BY <1>2, StatusUntouched
<1>3. ASSUME NEW p \in Pools, CreateClaim(p) \/ EditReplicas(p) \/ MarkClaimDeleted(p)
      PROVE  Described(q)' /\ Pristine(q)'
  <2>1. UNCHANGED <<pool, poolCache, ipCache, poolQ, pr>>
    BY <1>3 DEF CreateClaim, EditReplicas, MarkClaimDeleted
  <2>2. claim[q].st = "gone" => claim'[q].st = "gone"
    BY <1>1, <1>3 DEF CreateClaim, EditReplicas, MarkClaimDeleted, ClaimObj
  <2>3. QED
    BY <2>1, <2>2, StatusUntouched
<1>4. ASSUME NEW p \in Pools, DeleteClaim(p) \/ GCClaim(p)
      PROVE  Described(q)' /\ Pristine(q)'
  BY <1>3, <1>4 DEF DeleteClaim, GCClaim
<1>5. ASSUME NEW p \in Pools,
             \/ DeleteWorkload(p) \/ SyncDaemon(p) \/ ClaimError(p)
             \/ \E ip \in IPs : AssignIP(p, ip) \/ ReleaseIP(p, ip)
      PROVE  Described(q)' /\ Pristine(q)'
  BY <1>2, <1>5 DEF DeleteWorkload, SyncDaemon, ClaimError, AssignIP, ReleaseIP
<1>6. ASSUME NEW p \in Pools, GCPool(p)
      PROVE  Described(q)' /\ Pristine(q)'
  <2>1. UNCHANGED <<claim, poolCache, ipCache, poolQ, pr>>
    BY <1>6 DEF GCPool
  <2>2. /\ (pool'[q].st = "none") <=> (pool[q].st = "none")
        /\ pool'[q].free = pool[q].free /\ pool'[q].used = pool[q].used
    BY <1>1, <1>6 DEF GCPool, PoolObj
  <2>3. QED
    BY <2>1, <2>2, StatusUntouched
<1>7. ASSUME NEW p \in Pools, SyncPool(p) \/ SyncIP(p)
      PROVE  Described(q)' /\ Pristine(q)'
  <2>1. UNCHANGED <<claim, pool, pr>> /\ (q \in poolQ => q \in poolQ')
    BY <1>7 DEF SyncPool, SyncIP
  <2>2. CASE q = p
    <3>1. q \in poolQ' /\ (poolCache'[q] = poolCache[q] \/ poolCache'[q] = pool[q])
      BY <1>1, <1>7, <2>2 DEF SyncPool, SyncIP
    <3>2. QED
      BY <2>1, <3>1 DEF Described, Pristine
  <2>3. CASE q # p
    <3>1. poolCache'[q] = poolCache[q] /\ ipCache'[q] = ipCache[q]
      BY <1>1, <1>7, <2>3 DEF SyncPool, SyncIP
    <3>2. QED
      BY <2>1, <3>1, StatusUntouched
  <2>4. QED
    BY <2>2, <2>3
<1>8. ASSUME NEW p \in Pools, PoolError(p)
      PROVE  Described(q)' /\ Pristine(q)'
  <2>1. UNCHANGED <<claim, pool, poolCache, ipCache>> /\ (q \in poolQ => q \in poolQ')
    BY <1>8 DEF PoolError
  <2>2. q \in poolQ' \/ pr'[q] = pr[q]
    BY <1>1, <1>8 DEF PoolError
  <2>3. CASE q \in poolQ'
    BY <2>1, <2>3 DEF Described, Pristine
  <2>4. CASE pr'[q] = pr[q]
    BY <2>1, <2>4, StatusUntouched
  <2>5. QED
    BY <2>2, <2>3, <2>4
<1>9. CASE Restart
  <2>1. UNCHANGED <<claim, pool>> /\ poolCache' = pool /\ (pool[q].st # "none" => q \in poolQ')
    BY <1>9 DEF Restart
  <2>2. QED
    BY <2>1 DEF Described, Pristine
<1>10. CASE RefreshSubnet
  BY <1>2, <1>10 DEF RefreshSubnet
<1>11. QED
  BY <1>3, <1>4, <1>5, <1>6, <1>7, <1>8, <1>9, <1>10 DEF Users, Platform, Failures

\* The claim controller's patches send ranges only, and its IPPool is the first of
\* the name.
LEMMA ClaimStepRests ==
  ASSUME TypeOK, NEW p \in Pools, ClaimStep(p),
         NEW q \in Pools, Described(q), Pristine(q)
  PROVE  Described(q)' /\ Pristine(q)'
<1> USE DEF objects, caches, workers
<1>1. /\ pool \in [Pools -> PoolObj] /\ pool[q] \in PoolObj
      /\ claim \in [Pools -> ClaimObj] /\ claim[q] \in ClaimObj
  BY DEF TypeOK
<1>2. UNCHANGED <<poolCache, ipCache, poolQ, pr>>
  BY DEF ClaimStep, ForgetClaim, RemoveClaimFinalizer, MarkPool, GetPool, PatchDown,
         DeleteAllBlocks, ListDown, DeleteBlock, ListUp, CreateBlock, ClaimBlocksFailed,
         PatchUp, Finish
<1>3. claim[q].st = "gone" => claim'[q].st = "gone"
  <2>1. UNCHANGED claim \/ RemoveClaimFinalizer(p) \/ Finish(p)
    BY DEF ClaimStep, ForgetClaim, MarkPool, GetPool, PatchDown, DeleteAllBlocks, ListDown,
           DeleteBlock, ListUp, CreateBlock, ClaimBlocksFailed, PatchUp
  <2>2. CASE RemoveClaimFinalizer(p)
    BY <1>1, <2>2 DEF RemoveClaimFinalizer, ClaimObj
  <2>3. CASE Finish(p)
    BY <1>1, <2>3 DEF Finish, ClaimObj
  <2>4. QED
    BY <2>1, <2>2, <2>3
<1>4. CASE MarkPool(p) /\ q = p
  <2>1. pool[q].st = "none" /\ claim[q].st # "gone" /\ pool'[q].st = "live"
    BY <1>1, <1>4 DEF MarkPool, ClaimWanted, ClaimExists, NewPoolObj, NoPoolObj
  <2>2. poolCache'[q].st = "none"
    BY <1>2, <2>1 DEF Pristine
  <2>3. QED
    BY <2>1, <2>2 DEF Described, Pristine
<1>5. CASE ~(MarkPool(p) /\ q = p)
  <2>1. \/ pool'[q] = pool[q]
        \/ \E ranges : pool'[q] = [pool[q] EXCEPT !.ranges = ranges]
    <3>1. ASSUME NEW ranges, PatchRanges(p, ranges)
          PROVE  pool'[q] = pool[q] \/ pool'[q] = [pool[q] EXCEPT !.ranges = ranges]
      BY <1>1, <3>1 DEF PatchRanges
    <3>2. CASE PatchDown(p)
      BY <3>1, <3>2 DEF PatchDown
    <3>3. CASE PatchUp(p)
      BY <3>1, <3>3 DEF PatchUp
    <3>4. CASE MarkPool(p)
      BY <1>1, <1>5, <3>4 DEF MarkPool
    <3>5. CASE ~PatchDown(p) /\ ~PatchUp(p) /\ ~MarkPool(p)
      BY <3>5 DEF ClaimStep, ForgetClaim, RemoveClaimFinalizer, GetPool, DeleteAllBlocks,
                  ListDown, DeleteBlock, ListUp, CreateBlock, ClaimBlocksFailed, Finish
    <3>6. QED
      BY <3>2, <3>3, <3>4, <3>5
  <2>2. /\ pool'[q].st = pool[q].st /\ pool'[q].free = pool[q].free
        /\ pool'[q].used = pool[q].used
    BY <1>1, <2>1 DEF PoolObj
  <2>3. QED
    BY <1>2, <1>3, <2>2, StatusUntouched
<1>6. QED
  BY <1>4, <1>5

\* The pool controller leaves its queue with the status patched, or goes on to
\* clean up.
LEMMA PoolStepRests ==
  ASSUME TypeOK, NEW p \in Pools, Consistent(p), PoolStep(p),
         NEW q \in Pools, Described(q), Pristine(q)
  PROVE  Described(q)' /\ Pristine(q)'
<1> USE DEF objects, caches, workers
<1>1. /\ pool \in [Pools -> PoolObj] /\ pool[q] \in PoolObj /\ pool[p] \in PoolObj
      /\ pr \in [Pools -> PoolWorker] /\ pr[p] \in PoolWorker
  BY DEF TypeOK
<1>2. UNCHANGED <<claim, poolCache, ipCache>>
  BY DEF PoolStep, ForgetPool, UpdateStatus, CleanUpPool, DeletePoolBlock, RemovePoolFinalizer
<1>3. CASE q # p
  <2>1. pool'[q] = pool[q] /\ pr'[q] = pr[q] /\ (q \in poolQ => q \in poolQ')
    BY <1>1, <1>3 DEF PoolStep, ForgetPool, UpdateStatus, CleanUpPool, DeletePoolBlock,
                      RemovePoolFinalizer, DequeuePool
  <2>2. QED
    BY <1>2, <2>1, StatusUntouched
<1>4. CASE q = p /\ ForgetPool(p)
  BY <1>4 DEF ForgetPool, Described, Pristine
<1>5. CASE q = p /\ CleanUpPool(p)
  <2>1. pr'[q].pc = "delete" /\ UNCHANGED pool
    BY <1>1, <1>5 DEF CleanUpPool
  <2>2. QED
    BY <1>2, <2>1 DEF Described, Pristine
<1>6. ASSUME q = p, NEW b \in Blocks, DeletePoolBlock(p, b)
      PROVE  Described(q)' /\ Pristine(q)'
  <2>1. pr'[q].pc = pr[q].pc /\ UNCHANGED <<pool, poolQ>>
    BY <1>1, <1>6 DEF DeletePoolBlock, PoolWorker
  <2>2. QED
    BY <1>2, <2>1, StatusUntouched
<1>7. CASE q = p /\ RemovePoolFinalizer(p)
  <2>1. claim[q].st = "gone"
    BY <1>7 DEF RemovePoolFinalizer, Consistent
  <2>2. pool'[q].st = "none" \/ q \in poolQ'
    BY <1>1, <1>7 DEF RemovePoolFinalizer, NoPoolObj
  <2>3. QED
    BY <1>2, <2>1, <2>2 DEF Described, Pristine
<1>8. CASE q = p /\ UpdateStatus(p)
  <2> DEFINE new == NewStatus(p)
  <2>1. pool'[q] = MergeStatus(pool[q], poolCache[q], new) /\ UNCHANGED pr
        /\ pool[q].st # "none"
    BY <1>1, <1>8 DEF UpdateStatus
  <2> HIDE DEF new
  <2>2. /\ pool'[q].st = pool[q].st
        /\ pool'[q].free = IF new.free = poolCache[q].free THEN pool[q].free ELSE new.free
        /\ pool'[q].used = IF new.used = poolCache[q].used THEN pool[q].used ELSE new.used
    BY <1>1, <2>1 DEF MergeStatus, PoolObj
  <2>3. \/ pool'[q].free # poolCache[q].free \/ pool'[q].used # poolCache[q].used
        \/ new.free = poolCache[q].free /\ new.used = poolCache[q].used
    BY <2>2
  <2>4. new = [free |-> new.free, used |-> new.used] /\ NewStatus(q)' = new
    BY <1>2, <1>8 DEF NewStatus, new
  <2>5. QED
    BY <1>2, <2>1, <2>2, <2>3, <2>4 DEF Described, Pristine
<1>9. QED
  BY <1>3, <1>4, <1>5, <1>6, <1>7, <1>8 DEF PoolStep

\* RestInv is inductive.
LEMMA RestInit == Init => RestInv
<1> SUFFICES ASSUME Init PROVE RestInv
  OBVIOUS
<1>1. \A p \in Pools : pool[p].st = "none" /\ poolCache[p].st = "none"
  BY DEF Init, ClusterInit, NoPoolObj
<1>2. QED
  BY <1>1, InitConsistent DEF RestInv, Described, Pristine

LEMMA RestStep == RestInv /\ [Next]_vars => RestInv'
<1> SUFFICES ASSUME RestInv, [Next]_vars PROVE RestInv'
  OBVIOUS
<1>1. OwnershipInv' /\ TypeOK /\ \A q \in Pools : Consistent(q)
  BY StepConsistent, NameByName DEF RestInv, OwnershipInv
<1>2. ASSUME NEW q \in Pools PROVE Described(q)' /\ Pristine(q)'
  <2>1. Described(q) /\ Pristine(q)
    BY DEF RestInv
  <2>2. CASE Users \/ Platform \/ Failures
    BY <1>1, <2>1, <2>2, EnvironmentRests
  <2>3. CASE Controllers
    BY <1>1, <2>1, <2>3, ClaimStepRests, PoolStepRests DEF Controllers
  <2>4. CASE UNCHANGED vars
    BY <2>1, <2>4, StatusUntouched DEF vars, objects, caches, workers
  <2>5. QED
    BY <2>2, <2>3, <2>4 DEF Next
<1>3. QED
  BY <1>1, <1>2 DEF RestInv

\* At rest the last status is that of the IPPool and its IPs.
LEMMA RestIsExact == RestInv => StatusExact
<1> SUFFICES ASSUME RestInv, AtRest, NEW p \in Pools, pool[p].st # "none"
             PROVE  pool[p].free = pool[p].ranges \ ips[p] /\ pool[p].used = Cardinality(ips[p])
  BY DEF StatusExact
<1>1. p \notin poolQ /\ poolCache = pool /\ ipCache = ips /\ pr[p].pc # "delete"
  BY DEF AtRest, IdlePR
<1>2. [free |-> pool[p].free, used |-> pool[p].used] = NewStatus(p)
  BY <1>1 DEF RestInv, Described
<1>3. QED
  BY <1>1, <1>2 DEF NewStatus

\* Whatever order patches, informers and Reconciles came in, and whatever the merge
\* patches were relative to (updateStatus): at rest the status of an IPPool lists exactly
\* the addresses it has to spare, and counts those in use.
THEOREM StatusSettles == Spec => []StatusExact
<1>1. QED
  BY RestInit, RestStep, RestIsExact, PTL DEF Spec
=============================================================================
