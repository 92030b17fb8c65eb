------------------------- MODULE ProvisioningProofs -------------------------
(***************************************************************************)
(* Proofs about Provisioning, for any number of claims, IPBlocks, their    *)
(* size and any bounds.                                                    *)
(***************************************************************************)
EXTENDS Provisioning, AddressingProofs

-----------------------------------------------------------------------------
(* Types.                                                                  *)

\* The constants, and the values that reset a worker or a pool, have a type.
LEMMA ConstantTypes ==
  /\ 0 \in Blocks /\ NoCount \in Count /\ Nat \subseteq Count
  /\ NoAttempts \in [Goroutines -> Attempt]
  /\ IdleCR \in ClaimWorker /\ NoPoolObj \in PoolObj /\ NewPoolObj \in PoolObj
  /\ IdlePR \in PoolWorker
<1>1. 0 \in Blocks /\ NoCount \in Count /\ Nat \subseteq Count
  BY NumBlocksAssumption DEF Blocks, NoCount, Count
<1>2. NoAttempts \in [Goroutines -> Attempt]
  BY <1>1 DEF NoAttempts, Attempt
<1>3. IdleCR \in ClaimWorker
  BY <1>1, <1>2 DEF IdleCR, ClaimWorker
<1>4. NoPoolObj \in PoolObj /\ NewPoolObj \in PoolObj
  BY <1>1 DEF NoPoolObj, NewPoolObj, PoolObj
<1>5. IdlePR \in PoolWorker
  BY <1>4 DEF IdlePR, PoolWorker
<1>6. QED
  BY <1>1, <1>2, <1>3, <1>4, <1>5

\* The states a claim Reconcile goes on with are worker states.
LEMMA WorkerTypes ==
  ASSUME NEW ranges \in SUBSET IPs, NEW n \in Nat, NEW B \in SUBSET Blocks
  PROVE  /\ Finishing(ranges) \in ClaimWorker
         /\ Release(ranges, B) \in ClaimWorker
         /\ ReleaseSurplus(n, ranges, B) \in ClaimWorker
<1>1. Finishing(ranges) \in ClaimWorker
  BY ConstantTypes DEF Finishing, ClaimWorker
<1>2. Release(ranges, B) \in ClaimWorker
  BY <1>1, ConstantTypes DEF Release, ClaimWorker
<1>3. QED
  BY <1>1, <1>2 DEF ReleaseSurplus

\* What Reconcile begins with is a worker state.
LEMMA AllocationType ==
  ASSUME TypeOK, NEW p \in Pools, NEW rp \in PoolObj
  PROVE  Allocation(p, rp) \in ClaimWorker
<1> DEFINE step == ScaleStep(p, claim[p].replicas, rp.ranges, rp.used)
<1>1. /\ claim[p].replicas \in Nat /\ rp.ranges \in SUBSET IPs
      /\ rp.free \in SUBSET IPs /\ rp.used \in Count
      /\ subnet.free \in SUBSET Blocks
  BY DEF TypeOK, ClaimObj, PoolObj
<1>2. Size(rp.ranges) \in Nat
  BY <1>1, SizesAreNatural DEF Size
<1>3. step \in {"finish", "listUp", "patchDown"}
  BY <1>1, <1>2 DEF ScaleStep
<1>4. CASE step = "finish"
  BY <1>1, <1>4, ConstantTypes DEF Allocation, ClaimWorker
<1>5. CASE step = "listUp"
  BY <1>1, <1>5, ConstantTypes DEF Allocation, ClaimWorker
<1>6. CASE step = "patchDown"
  BY <1>1, <1>6, ConstantTypes DEF Allocation, ClaimWorker
<1>7. QED
  BY <1>3, <1>4, <1>5, <1>6

\* Updates of an IPPool's fields give an IPPool again.
LEMMA PoolUpdates ==
  ASSUME NEW rp \in PoolObj
  PROVE  /\ \A st \in {"none", "live", "terminating"} :
              [rp EXCEPT !.st = st] \in PoolObj
         /\ \A ranges \in SUBSET IPs : [rp EXCEPT !.ranges = ranges] \in PoolObj
         /\ \A free \in SUBSET IPs, used \in Count :
              [rp EXCEPT !.free = free, !.used = used] \in PoolObj
<1>1. PICK st0 \in {"none", "live", "terminating"}, ranges0 \in SUBSET IPs,
           free0 \in SUBSET IPs, used0 \in Count :
        rp = [st |-> st0, ranges |-> ranges0, free |-> free0, used |-> used0]
  BY DEF PoolObj
<1>2. QED
  BY <1>1 DEF PoolObj

\* The ranges a Reconcile patches, of either scaling, are addresses.
LEMMA PatchType ==
  ASSUME TypeOK, NEW p \in Pools, NEW ranges \in SUBSET IPs, PatchRanges(p, ranges)
  PROVE  pool' \in [Pools -> PoolObj]
<1>1. pool \in [Pools -> PoolObj]
  BY DEF TypeOK
<1>2. [pool[p] EXCEPT !.ranges = ranges] \in PoolObj
  BY <1>1, PoolUpdates
<1>3. pool' = [pool EXCEPT ![p] = [pool[p] EXCEPT !.ranges = ranges]]
  BY <1>1 DEF PatchRanges
<1>4. QED
  BY <1>1, <1>2, <1>3

\* Every step of a claim Reconcile keeps the types.
LEMMA ClaimStepType ==
  ASSUME TypeOK, Probing, NEW p \in Pools, ClaimStep(p)
  PROVE  TypeOK'
<1> USE DEF TypeOK, objects, caches, workers
<1>0. ASSUME NEW s \in ClaimWorker, Continue(p, s)
      PROVE  cr' \in [Pools -> ClaimWorker]
  BY <1>0 DEF Continue
<1>1. ASSUME Fail(p)
      PROVE  cr' \in [Pools -> ClaimWorker] /\ claimQ' \subseteq Pools
  BY <1>0, <1>1, ConstantTypes DEF Fail
<1>2. cr[p] \in ClaimWorker /\ Owned(p) \in SUBSET Blocks
  BY DEF Owned
<1>3. CASE ForgetClaim(p)
  BY <1>3 DEF ForgetClaim, Dequeue
<1>4. CASE RemoveClaimFinalizer(p)
  BY <1>4 DEF RemoveClaimFinalizer, Dequeue, ClaimObj
<1>5. CASE MarkPool(p)
  <2>1. Allocation(p, NewPoolObj) \in ClaimWorker
    BY AllocationType, ConstantTypes
  <2>2. QED
    BY <1>5, <1>0, <2>1, ConstantTypes DEF MarkPool, Dequeue
<1>6. CASE GetPool(p)
  <2>1. Allocation(p, pool[p]) \in ClaimWorker
    BY AllocationType
  <2>2. QED
    BY <1>6, <1>0, <2>1 DEF GetPool, Dequeue
<1>7. CASE PatchDown(p)
  <2> DEFINE ranges == DownRanges(cr[p])
             next   == [IdleCR EXCEPT
                          !.pc = IF ranges = {} THEN "deleteAll" ELSE "listDown",
                          !.n = cr[p].n, !.ranges = ranges]
  <2>1. ranges \in SUBSET IPs
    BY <1>2, LowestSelects DEF DownRanges, ClaimWorker
  <2>2. next \in ClaimWorker
    BY <2>1, <1>2, ConstantTypes DEF ClaimWorker
  <2>3. pool' \in [Pools -> PoolObj]
    BY <1>7, <2>1, PatchType DEF PatchDown
  <2>4. QED
    BY <1>7, <1>0, <2>2, <2>3 DEF PatchDown
<1>9. CASE DeleteAllBlocks(p)
  BY <1>9, <1>0, <1>2, WorkerTypes DEF DeleteAllBlocks
<1>10. CASE ListDown(p)
  BY <1>10, <1>0, <1>2, WorkerTypes DEF ListDown, ClaimWorker
<1>11. ASSUME NEW b \in Blocks, DeleteBlock(p, b)
       PROVE  TypeOK'
  <2>1. holder' \in [Blocks -> Pools \cup {NoPool}]
    BY <1>11 DEF DeleteBlock
  <2>2. cr' \in [Pools -> ClaimWorker] /\ claimQ' \subseteq Pools
    <3>1. Finishing(cr[p].ranges) \in ClaimWorker
      BY <1>2, WorkerTypes DEF ClaimWorker
    <3>2. ASSUME NEW f \in BOOLEAN, NEW B \in SUBSET Blocks
          PROVE  [cr[p] EXCEPT !.blocks = B, !.failed = f] \in ClaimWorker
      BY <1>2 DEF ClaimWorker
    <3>3. cr[p].blocks \ {b} \in SUBSET Blocks
          /\ (cr[p].failed \/ (holder[b] = NoPool /\ cr[p].ranges # {})) \in BOOLEAN
      BY <1>2 DEF ClaimWorker
    <3>4. QED
      BY <1>11, <1>0, <1>1, <3>1, <3>2, <3>3 DEF DeleteBlock
  <2>3. QED
    BY <1>11, <2>1, <2>2 DEF DeleteBlock
<1>12. CASE ListUp(p)
  <2>1. [cr[p] EXCEPT !.pc = "patchUp", !.view = {}, !.blocks = Owned(p)] \in ClaimWorker
    BY <1>2 DEF ClaimWorker
  <2>2. ASSUME NEW expect, NEW a \in StartAttempts(cr[p].view, expect)
        PROVE  [cr[p] EXCEPT !.pc = "claim", !.blocks = Owned(p), !.attempts = a]
                 \in ClaimWorker
    <3>1. a \in [Goroutines -> Attempt]
      <4>1. PICK index \in [1 .. expect -> cr[p].view] :
              a = [i \in Goroutines |->
                     IF i <= expect THEN [block |-> index[i], st |-> "first"]
                     ELSE NoAttempts[i]]
        BY <2>2 DEF StartAttempts
      <4>2. ASSUME NEW i \in Goroutines
            PROVE  a[i] \in Attempt
        BY <4>1, <1>2, ConstantTypes DEF Goroutines, Attempt, ClaimWorker
      <4>3. QED
        BY <4>1, <4>2
    <3>2. QED
      BY <3>1, <1>2 DEF ClaimWorker
  <2>3. cr' \in [Pools -> ClaimWorker] /\ claimQ' \subseteq Pools
    BY <1>12, <1>0, <1>1, <2>1, <2>2 DEF ListUp
  <2>4. QED
    BY <1>12, <2>3 DEF ListUp
<1>13. ASSUME NEW i \in Goroutines, CreateBlock(p, i)
       PROVE  TypeOK'
  <2> DEFINE a == cr[p].attempts[i]
             next == AfterCreate(cr[p].view, a)
  <2>1. a \in Attempt /\ cr[p].view \in SUBSET Blocks
    BY <1>2 DEF ClaimWorker
  <2>2. a.st \in {"first", "probe"} /\ a.block \in Blocks
    BY <1>13, <2>1 DEF CreateBlock, Attempt
  <2>3. a.block \in cr[p].view
    BY <2>2 DEF Probing
  <2>4. NextBlock(cr[p].view, a.block) \in Blocks
    BY <2>1, <2>2, <2>3, NextBlockIsFree
  <2>5. next \in Attempt
    <3> HIDE DEF a
    <3>1. QED
      BY <2>1, <2>2, <2>4 DEF AfterCreate, Attempt
  <2>6. [cr[p] EXCEPT !.attempts[i] = next] \in ClaimWorker
    <3> HIDE DEF next
    <3>1. QED
      BY <1>2, <2>5 DEF ClaimWorker
  <2>7. cr' \in [Pools -> ClaimWorker]
    BY <1>13, <1>0, <2>6 DEF CreateBlock
  <2>8. holder' \in [Blocks -> Pools \cup {NoPool}]
    BY <1>13 DEF CreateBlock
  <2>9. QED
    BY <1>13, <2>7, <2>8 DEF CreateBlock
<1>14. CASE ClaimBlocksFailed(p)
  BY <1>14, <1>1 DEF ClaimBlocksFailed
<1>15. CASE PatchUp(p)
  <2> DEFINE ranges == UpRanges(cr[p])
  <2>1. ranges \in SUBSET IPs /\ Claimed(cr[p]) \in SUBSET Blocks
    <3> DEFINE spare == IPsOf(Claimed(cr[p])) \ cr[p].ranges
               delta == cr[p].n - Size(cr[p].ranges)
    <3>1. cr[p].ranges \in SUBSET IPs /\ cr[p].blocks \in SUBSET Blocks
      BY <1>2 DEF ClaimWorker
    <3>2. spare \in SUBSET IPs
      BY IPsOfProperties
    <3>3. Lowest(spare, delta) \subseteq spare
      BY LowestSelects
    <3>4. Claimed(cr[p]) \in SUBSET Blocks
      BY <3>1 DEF Claimed
    <3>5. QED
      BY <3>1, <3>2, <3>3, <3>4 DEF UpRanges
  <2>2. ReleaseSurplus(cr[p].n, ranges, Claimed(cr[p])) \in ClaimWorker
    BY <2>1, <1>2, WorkerTypes DEF ClaimWorker
  <2>3. pool' \in [Pools -> PoolObj]
    BY <1>15, <2>1, PatchType DEF PatchUp
  <2>4. QED
    BY <1>15, <1>0, <2>2, <2>3 DEF PatchUp
<1>16. CASE Finish(p)
  <2>1. Size(cr[p].ranges) \in Count
    BY <1>2, SizesAreNatural, ConstantTypes DEF Size, ClaimWorker
  <2>2. claim' \in [Pools -> ClaimObj]
    BY <1>16, <2>1 DEF Finish, ClaimObj
  <2>3. QED
    BY <1>16, <1>0, <2>2, ConstantTypes DEF Finish
<1>17. QED
  BY <1>3, <1>4, <1>5, <1>6, <1>7, <1>9, <1>10, <1>11, <1>12, <1>13,
     <1>14, <1>15, <1>16 DEF ClaimStep

\* Every step of a pool Reconcile keeps the types.
LEMMA PoolStepType ==
  ASSUME TypeOK, NEW p \in Pools, PoolStep(p)
  PROVE  TypeOK'
<1> USE DEF TypeOK, objects, caches, workers
<1>1. CASE ForgetPool(p)
  BY <1>1 DEF ForgetPool, DequeuePool
<1>2. CASE UpdateStatus(p)
  <2> DEFINE rp == MergeStatus(pool[p], poolCache[p], NewStatus(p))
  <2>1. /\ NewStatus(p).free \in SUBSET IPs
        /\ NewStatus(p).used \in Count
    BY SizesAreNatural, ConstantTypes DEF NewStatus, PoolObj
  <2>2. rp \in PoolObj
    <3>1. \A free \in SUBSET IPs, used \in Count :
            [pool[p] EXCEPT !.free = free, !.used = used] \in PoolObj
      BY PoolUpdates
    <3>2. pool[p].free \in SUBSET IPs /\ pool[p].used \in Count
      BY DEF PoolObj
    <3>3. QED
      BY <2>1, <3>1, <3>2 DEF MergeStatus
  <2>3. pool' = [pool EXCEPT ![p] = rp]
    BY <1>2 DEF UpdateStatus
  <2>4. pool' \in [Pools -> PoolObj]
    BY <2>2, <2>3
  <2>5. QED
    BY <1>2, <2>4 DEF UpdateStatus, DequeuePool
<1>3. CASE CleanUpPool(p)
  BY <1>3 DEF CleanUpPool, DequeuePool, PoolWorker, Owned
<1>4. ASSUME NEW b \in Blocks, DeletePoolBlock(p, b)
      PROVE  TypeOK'
  <2>1. [pr[p] EXCEPT !.todo = @ \ {b}] \in PoolWorker
    BY DEF PoolWorker
  <2>2. pr' \in [Pools -> PoolWorker]
    BY <1>4, <2>1 DEF DeletePoolBlock
  <2>3. QED
    BY <1>4, <2>2 DEF DeletePoolBlock
<1>5. CASE RemovePoolFinalizer(p)
  BY <1>5, ConstantTypes DEF RemovePoolFinalizer
<1>6. QED
  BY <1>1, <1>2, <1>3, <1>4, <1>5 DEF PoolStep

\* Users, the platform and failures keep the types.
LEMMA EnvironmentType ==
  ASSUME TypeOK, Users \/ Platform \/ Failures
  PROVE  TypeOK'
<1> USE DEF TypeOK, objects, caches, workers
<1>1. ASSUME NEW p \in Pools, CreateClaim(p)
      PROVE  TypeOK'
  <2>1. PICK n \in Sizes[p] :
          claim' = [claim EXCEPT ![p] = [st |-> "live", replicas |-> n,
                                         poolSize |-> NoCount]]
    BY <1>1 DEF CreateClaim
  <2>2. n \in Nat
    BY <2>1, BoundsAssumption
  <2>3. NoCount \in Count
    BY ConstantTypes
  <2>4. claim' \in [Pools -> ClaimObj]
    BY <2>1, <2>2, <2>3 DEF ClaimObj
  <2>5. QED
    BY <1>1, <2>4 DEF CreateClaim
<1>2. ASSUME NEW p \in Pools, EditReplicas(p)
      PROVE  TypeOK'
  <2>0. Sizes[p] \subseteq Nat
    BY BoundsAssumption
  <2>1. claim' \in [Pools -> ClaimObj]
    BY <1>2, <2>0 DEF EditReplicas, ClaimObj
  <2>2. budget' \in [edits : Nat, allocs : Nat, faults : Nat]
    BY <1>2 DEF EditReplicas
  <2>3. QED
    BY <1>2, <2>1, <2>2 DEF EditReplicas
<1>3. ASSUME NEW p \in Pools, MarkClaimDeleted(p)
      PROVE  claim' \in [Pools -> ClaimObj] /\ claimQ' \subseteq Pools
  BY <1>3 DEF MarkClaimDeleted, ClaimObj
<1>4. ASSUME NEW p \in Pools, DeleteClaim(p)
      PROVE  TypeOK'
  <2>1. MarkClaimDeleted(p)
    BY <1>4 DEF DeleteClaim
  <2>2. budget' \in [edits : Nat, allocs : Nat, faults : Nat]
    BY <1>4 DEF DeleteClaim
  <2>3. QED
    BY <1>3, <2>1, <2>2 DEF MarkClaimDeleted
<1>5. ASSUME NEW p \in Pools, DeleteWorkload(p)
      PROVE  TypeOK'
  BY <1>5 DEF DeleteWorkload
<1>6. ASSUME NEW p \in Pools, NEW ip \in IPs, AssignIP(p, ip)
      PROVE  TypeOK'
  BY <1>6 DEF AssignIP
<1>7. ASSUME NEW p \in Pools, NEW ip \in IPs, ReleaseIP(p, ip)
      PROVE  TypeOK'
  BY <1>7 DEF ReleaseIP
<1>8. ASSUME NEW p \in Pools, GCClaim(p)
      PROVE  TypeOK'
  <2>1. MarkClaimDeleted(p) /\ UNCHANGED budget
    BY <1>8 DEF GCClaim
  <2>2. QED
    BY <1>3, <2>1 DEF MarkClaimDeleted
<1>9. ASSUME NEW p \in Pools, GCPool(p)
      PROVE  TypeOK'
  <2>1. [pool[p] EXCEPT !.st = "terminating"] \in PoolObj
    BY PoolUpdates
  <2>2. pool' = [pool EXCEPT ![p] = [pool[p] EXCEPT !.st = "terminating"]]
    BY <1>9 DEF GCPool
  <2>3. pool' \in [Pools -> PoolObj]
    BY <2>1, <2>2
  <2>4. QED
    BY <1>9, <2>3 DEF GCPool
<1>10. ASSUME NEW p \in Pools, SyncPool(p)
       PROVE  TypeOK'
  BY <1>10 DEF SyncPool
<1>11. ASSUME NEW p \in Pools, SyncIP(p)
       PROVE  TypeOK'
  BY <1>11 DEF SyncIP
<1>12. ASSUME NEW p \in Pools, SyncDaemon(p)
       PROVE  TypeOK'
  BY <1>12 DEF SyncDaemon, PoolObj
<1>13. CASE RefreshSubnet
  BY <1>13 DEF RefreshSubnet, FreeBlocks
<1>14. ASSUME NEW p \in Pools, ClaimError(p)
       PROVE  TypeOK'
  <2>1. budget' \in [edits : Nat, allocs : Nat, faults : Nat]
    BY <1>14 DEF ClaimError
  <2>2. QED
    BY <1>14, <2>1, ConstantTypes DEF ClaimError, Fail, Continue
<1>15. ASSUME NEW p \in Pools, PoolError(p)
       PROVE  TypeOK'
  <2>1. budget' \in [edits : Nat, allocs : Nat, faults : Nat]
    BY <1>15 DEF PoolError
  <2>2. QED
    BY <1>15, <2>1, ConstantTypes DEF PoolError
<1>16. CASE Restart
  <2>1. budget' \in [edits : Nat, allocs : Nat, faults : Nat]
    BY <1>16 DEF Restart
  <2>2. QED
    BY <1>16, <2>1, ConstantTypes DEF Restart
<1>17. QED
  BY <1>1, <1>2, <1>4, <1>5, <1>6, <1>7, <1>8, <1>9, <1>10, <1>11, <1>12,
     <1>13, <1>14, <1>15, <1>16 DEF Users, Platform, Failures

-----------------------------------------------------------------------------
(* The invariant, one name at a time.                                      *)

\* What OwnershipInv says of the objects and workers of one name.
Consistent(p) ==
    /\ cr[p].pc # "idle" => /\ ClaimExists(p) /\ pool[p].st = "live"
                            /\ cr[p].ranges = pool[p].ranges
    /\ pool[p].st = "terminating" => claim[p].st = "gone"
    /\ poolCache[p].st = "terminating" \/ pr[p].pc = "delete"
         => claim[p].st = "gone" /\ pool[p].st # "live"
    /\ cr[p].pc = "deleteAll" => cr[p].ranges = {}
    /\ cr[p].pc \in {"claim", "patchUp"} => Claimed(cr[p]) \subseteq Owned(p)
    /\ cr[p].pc = "release" => /\ cr[p].blocks \subseteq Owned(p)
                               /\ IPsOf(cr[p].blocks) \cap cr[p].ranges = {}
    /\ pr[p].pc = "delete" => pr[p].todo = Owned(p)
    /\ \A i \in Goroutines :
         /\ cr[p].attempts[i].st # "unused" => cr[p].pc = "claim"
         /\ cr[p].attempts[i].st \in {"first", "probe"}
              => cr[p].attempts[i].block \in cr[p].view
    /\ pool[p].st = "none" => Owned(p) = {}

\* OwnershipInv says the same of each name.
LEMMA NameByName ==
  TypeOK => (OwnershipInv <=> \A p \in Pools : Consistent(p))
<1> SUFFICES ASSUME TypeOK
             PROVE  OwnershipInv <=> \A p \in Pools : Consistent(p)
  OBVIOUS
<1>1. NoBlockLeak <=> \A p \in Pools : pool[p].st = "none" => Owned(p) = {}
  BY NoPoolAssumption DEF TypeOK, NoBlockLeak, Owned
<1>2. QED
  BY <1>1 DEF OwnershipInv, Lifecycle, SnapshotsHold, Probing, Consistent

\* The same in the state after a step.
LEMMA NameByNamePrimed ==
  TypeOK' => (OwnershipInv' <=> (\A p \in Pools : Consistent(p))')
<1>1. QED
  BY NameByName, PTL

\* A step that leaves alone what a name has keeps its part of the invariant.
LEMMA Untouched ==
  ASSUME NEW p \in Pools, Consistent(p),
         cr'[p] = cr[p], pr'[p] = pr[p], pool'[p].st = pool[p].st,
         pool'[p].ranges = pool[p].ranges, poolCache'[p] = poolCache[p],
         claim'[p].st = claim[p].st, Owned(p)' = Owned(p)
  PROVE  Consistent(p)'
BY DEF Consistent, ClaimExists, Claimed

\* The state of a Reconcile that has patched the ranges: it finishes, or has
\* IPBlocks out of B to delete, none with an address of the ranges.
GoesOn(s, ranges, B) ==
    /\ s.pc \in {"finish", "release"}
    /\ s.ranges = ranges /\ s.attempts = NoAttempts
    /\ s.blocks \subseteq B /\ IPsOf(s.blocks) \cap ranges = {}

\* releaseIPBlocks, and what leads to it, deletes only what the ranges spare.
LEMMA ReleaseSpares ==
  ASSUME NEW ranges, NEW B, NEW n
  PROVE  /\ GoesOn(Finishing(ranges), ranges, B)
         /\ GoesOn(Release(ranges, B), ranges, B)
         /\ GoesOn(ReleaseSurplus(n, ranges, B), ranges, B)
<1> DEFINE unused == {b \in B : BlockIPs(b) \cap ranges = {}}
<1>1. IPsOf({}) = {} /\ IPsOf(unused) \cap ranges = {}
  BY DEF IPsOf, BlockIPs
<1>2. GoesOn(Finishing(ranges), ranges, B)
  BY <1>1 DEF GoesOn, Finishing, IdleCR
<1>3. GoesOn(Release(ranges, B), ranges, B)
  <2>1. CASE unused = {}
    BY <1>2, <2>1 DEF Release
  <2>2. CASE unused # {}
    <3>1. Release(ranges, B) =
            [IdleCR EXCEPT !.pc = "release", !.ranges = ranges, !.blocks = unused]
      BY <2>2 DEF Release
    <3>2. QED
      BY <1>1, <3>1 DEF GoesOn, IdleCR
  <2>3. QED
    BY <2>1, <2>2
<1>4. QED
  BY <1>2, <1>3 DEF ReleaseSurplus

\* What Reconcile carries on from the IPPool it read.
LEMMA AllocationFields ==
  ASSUME TypeOK, NEW p \in Pools, NEW rp \in PoolObj
  PROVE  /\ Allocation(p, rp).pc \in {"finish", "listUp", "patchDown"}
         /\ Allocation(p, rp).ranges = rp.ranges
         /\ Allocation(p, rp).attempts = NoAttempts
<1> DEFINE step == ScaleStep(p, claim[p].replicas, rp.ranges, rp.used)
<1>1. claim[p].replicas \in Nat /\ rp.ranges \in SUBSET IPs
  BY DEF TypeOK, ClaimObj, PoolObj
<1>2. Size(rp.ranges) \in Nat
  BY <1>1, SizesAreNatural DEF Size
<1>3. step \in {"finish", "listUp", "patchDown"}
  BY <1>1, <1>2 DEF ScaleStep
<1>4. CASE step = "finish"
  BY <1>4 DEF Allocation, IdleCR
<1>5. CASE step = "listUp"
  BY <1>5 DEF Allocation, IdleCR
<1>6. CASE step = "patchDown"
  BY <1>6 DEF Allocation, IdleCR
<1>7. QED
  BY <1>3, <1>4, <1>5, <1>6

\* A claim Reconcile touches its own claim, IPPool and IPBlocks and no other:
\* what it creates was nobody's, what it deletes by name is still its own.
LEMMA ClaimStepIsLocal ==
  ASSUME TypeOK, NEW p \in Pools, Consistent(p), ClaimStep(p),
         NEW q \in Pools, q # p
  PROVE  /\ cr'[q] = cr[q] /\ pr'[q] = pr[q] /\ pool'[q] = pool[q]
         /\ poolCache'[q] = poolCache[q] /\ claim'[q] = claim[q]
         /\ Owned(q)' = Owned(q)
<1> USE DEF TypeOK, objects, caches, workers
<1>1. ASSUME NEW b \in Blocks, DeleteBlock(p, b)
      PROVE  Owned(q)' = Owned(q)
  <2>1. b \in Owned(p)
    BY <1>1 DEF DeleteBlock, Consistent
  <2>2. holder' = [holder EXCEPT ![b] = NoPool]
    BY <1>1 DEF DeleteBlock
  <2>3. QED
    BY <2>1, <2>2, NoPoolAssumption DEF Owned
<1>2. ASSUME NEW i \in Goroutines, CreateBlock(p, i)
      PROVE  Owned(q)' = Owned(q)
  BY <1>2, NoPoolAssumption DEF CreateBlock, Owned
<1>3. Owned(q)' = Owned(q)
  <2>1. CASE UNCHANGED holder
    BY <2>1 DEF Owned
  <2>2. QED
    BY <1>1, <1>2, <2>1 DEF ClaimStep, ForgetClaim, RemoveClaimFinalizer, MarkPool,
       GetPool, PatchDown, DeleteAllBlocks, ListDown, ListUp,
       ClaimBlocksFailed, PatchUp, Finish
<1>4. pr' = pr /\ poolCache' = poolCache
  BY DEF ClaimStep, ForgetClaim, RemoveClaimFinalizer, MarkPool, GetPool,
     PatchDown, DeleteAllBlocks, ListDown, DeleteBlock, ListUp,
     CreateBlock, ClaimBlocksFailed, PatchUp, Finish
<1>5. pool'[q] = pool[q] /\ claim'[q] = claim[q]
  BY DEF ClaimStep, ForgetClaim, RemoveClaimFinalizer, MarkPool, GetPool,
     PatchDown, DeleteAllBlocks, ListDown, DeleteBlock, ListUp,
     CreateBlock, ClaimBlocksFailed, PatchUp, Finish, PatchRanges
<1>6. cr'[q] = cr[q]
  BY DEF ClaimStep, ForgetClaim, RemoveClaimFinalizer, MarkPool, GetPool,
     PatchDown, DeleteAllBlocks, ListDown, DeleteBlock, ListUp,
     CreateBlock, ClaimBlocksFailed, PatchUp, Finish, Fail, Continue
<1>7. QED
  BY <1>3, <1>4, <1>5, <1>6

\* A step of its Reconcile keeps the claim's part of the invariant.
LEMMA ClaimStepConsistent ==
  ASSUME TypeOK, NEW p \in Pools, Consistent(p), ClaimStep(p)
  PROVE  Consistent(p)'
<1> USE DEF objects, caches, workers
<1>1. /\ cr \in [Pools -> ClaimWorker] /\ pr \in [Pools -> PoolWorker]
      /\ pool \in [Pools -> PoolObj] /\ claim \in [Pools -> ClaimObj]
      /\ cr[p] \in ClaimWorker /\ pool[p] \in PoolObj /\ claim[p] \in ClaimObj
      /\ Owned(p) \in SUBSET Blocks
      /\ cr[p].n \in Nat /\ cr[p].ranges \in SUBSET IPs
      /\ Claimed(cr[p]) \in SUBSET Blocks
  BY DEF TypeOK, Owned, Claimed, ClaimWorker
<1>2. /\ IdleCR.pc = "idle" /\ IdleCR.attempts = NoAttempts
      /\ \A i \in Goroutines : NoAttempts[i].st = "unused"
  BY DEF IdleCR, NoAttempts
\* The obligations of a step that starts a Reconcile ...
<1>3. ASSUME cr[p].pc = "idle", claim'[p] = claim[p], ClaimExists(p),
             pool'[p].st = "live", pr'[p] = pr[p], poolCache'[p] = poolCache[p],
             Owned(p)' = Owned(p),
             cr'[p].pc \in {"finish", "listUp", "patchDown"},
             cr'[p].attempts = NoAttempts, cr'[p].ranges = pool'[p].ranges
      PROVE  Consistent(p)'
  BY <1>2, <1>3 DEF Consistent, ClaimExists
\* ... and of one that goes on with it.
<1>4. ASSUME cr[p].pc # "idle", claim'[p].st = claim[p].st, pool'[p].st = pool[p].st,
             pr'[p] = pr[p], poolCache'[p] = poolCache[p],
             cr'[p].pc # "idle" => cr'[p].ranges = pool'[p].ranges,
             cr'[p].pc = "deleteAll" => cr'[p].ranges = {},
             cr'[p].pc \in {"claim", "patchUp"} => Claimed(cr'[p]) \subseteq Owned(p)',
             cr'[p].pc = "release" => /\ cr'[p].blocks \subseteq Owned(p)'
                                      /\ IPsOf(cr'[p].blocks) \cap cr'[p].ranges = {},
             \A i \in Goroutines :
               /\ cr'[p].attempts[i].st # "unused" => cr'[p].pc = "claim"
               /\ cr'[p].attempts[i].st \in {"first", "probe"}
                    => cr'[p].attempts[i].block \in cr'[p].view
      PROVE  Consistent(p)'
  BY <1>4 DEF Consistent, ClaimExists, Claimed
<1>5. ASSUME cr[p].pc # "idle", Fail(p), UNCHANGED <<claim, pool, poolCache, pr>>
      PROVE  Consistent(p)'
  <2>1. cr'[p] = IdleCR
    BY <1>1, <1>5 DEF Fail, Continue
  <2>2. QED
    BY <1>2, <1>4, <1>5, <2>1
<1>6. ASSUME cr[p].pc # "idle", GoesOn(cr'[p], pool'[p].ranges, Owned(p)'),
             claim'[p].st = claim[p].st, pool'[p].st = pool[p].st,
             pr'[p] = pr[p], poolCache'[p] = poolCache[p]
      PROVE  Consistent(p)'
  <2>1. cr'[p].pc \in {"finish", "release"} /\ cr'[p].ranges = pool'[p].ranges
    BY <1>6 DEF GoesOn
  <2>2. \A i \in Goroutines : cr'[p].attempts[i].st = "unused"
    BY <1>2, <1>6 DEF GoesOn
  <2>3. /\ cr'[p].blocks \subseteq Owned(p)'
        /\ IPsOf(cr'[p].blocks) \cap cr'[p].ranges = {}
    BY <1>6 DEF GoesOn
  <2>4. QED
    BY <1>4, <1>6, <2>1, <2>2, <2>3
<1>7. CASE ForgetClaim(p)
  BY <1>7, Untouched DEF ForgetClaim, Owned
<1>8. CASE RemoveClaimFinalizer(p)
  BY <1>1, <1>8 DEF RemoveClaimFinalizer, Dequeue, ClaimDone, Consistent,
     ClaimObj, Owned, ClaimExists
<1>9. CASE MarkPool(p)
  <2>1. cr'[p] = Allocation(p, NewPoolObj) /\ pool'[p] = NewPoolObj
    BY <1>1, <1>9 DEF MarkPool, Continue
  <2>2. NewPoolObj.st = "live"
    BY DEF NewPoolObj, NoPoolObj
  <2>3. /\ Allocation(p, NewPoolObj).pc \in {"finish", "listUp", "patchDown"}
        /\ Allocation(p, NewPoolObj).ranges = NewPoolObj.ranges
        /\ Allocation(p, NewPoolObj).attempts = NoAttempts
    BY AllocationFields, ConstantTypes
  <2>4. QED
    BY <1>3, <1>9, <2>1, <2>2, <2>3 DEF MarkPool, ClaimWanted, Dequeue,
       Owned
<1>10. CASE GetPool(p)
  <2>1. cr'[p] = Allocation(p, pool[p])
    BY <1>1, <1>10 DEF GetPool, Continue
  <2>2. pool[p].st = "live"
    BY <1>1, <1>10 DEF GetPool, ClaimWanted, ClaimExists, Consistent, PoolObj
  <2>3. /\ Allocation(p, pool[p]).pc \in {"finish", "listUp", "patchDown"}
        /\ Allocation(p, pool[p]).ranges = pool[p].ranges
        /\ Allocation(p, pool[p]).attempts = NoAttempts
    BY <1>1, AllocationFields
  <2>4. QED
    BY <1>3, <1>10, <2>1, <2>2, <2>3 DEF GetPool, ClaimWanted, Dequeue, Owned
<1>11. CASE PatchDown(p)
  <2> DEFINE ranges == DownRanges(cr[p])
             next   == [IdleCR EXCEPT
                          !.pc = IF ranges = {} THEN "deleteAll" ELSE "listDown",
                          !.n = cr[p].n, !.ranges = ranges]
  <2>1. cr'[p] = next /\ pool'[p] = [pool[p] EXCEPT !.ranges = ranges]
    BY <1>1, <1>11 DEF PatchDown, PatchRanges, Continue
  <2>2. /\ next.pc = (IF ranges = {} THEN "deleteAll" ELSE "listDown")
        /\ next.ranges = ranges /\ next.attempts = NoAttempts
    BY DEF IdleCR
  <2>3. pool'[p].ranges = ranges /\ pool'[p].st = pool[p].st
    BY <1>1, <2>1 DEF PoolObj
  <2>4. /\ cr[p].pc # "idle" /\ claim' = claim /\ pr' = pr
        /\ poolCache' = poolCache
    BY <1>11 DEF PatchDown
  <2> HIDE DEF ranges, next
  <2>5. QED
    BY <1>2, <1>4, <2>1, <2>2, <2>3, <2>4
<1>13. CASE DeleteAllBlocks(p)
  <2>1. cr'[p] = Release({}, Owned(p)) /\ cr[p].pc = "deleteAll"
    BY <1>1, <1>13 DEF DeleteAllBlocks, Continue
  <2>2. pool[p].ranges = {}
    BY <2>1 DEF Consistent
  <2>3. UNCHANGED <<claim, pool, pr, poolCache>> /\ Owned(p)' = Owned(p)
    BY <1>13 DEF DeleteAllBlocks, Owned
  <2>4. GoesOn(Release({}, Owned(p)), {}, Owned(p))
    BY ReleaseSpares
  <2>5. QED
    BY <1>6, <2>1, <2>2, <2>3, <2>4
<1>14. CASE ListDown(p)
  <2>1. /\ cr'[p] = ReleaseSurplus(cr[p].n, cr[p].ranges, Owned(p))
        /\ cr[p].pc = "listDown"
    BY <1>1, <1>14 DEF ListDown, Continue
  <2>2. cr[p].ranges = pool[p].ranges
    BY <2>1 DEF Consistent
  <2>3. UNCHANGED <<claim, pool, pr, poolCache>> /\ Owned(p)' = Owned(p)
    BY <1>14 DEF ListDown, Owned
  <2>4. GoesOn(ReleaseSurplus(cr[p].n, cr[p].ranges, Owned(p)), cr[p].ranges, Owned(p))
    BY ReleaseSpares
  <2>5. QED
    BY <1>6, <2>1, <2>2, <2>3, <2>4
<1>15. ASSUME NEW b \in Blocks, DeleteBlock(p, b)
       PROVE  Consistent(p)'
  <2> DEFINE left == cr[p].blocks \ {b}
             failed == cr[p].failed \/ (holder[b] = NoPool /\ cr[p].ranges # {})
  <2>1. /\ cr[p].pc = "release" /\ UNCHANGED <<claim, pool, pr, poolCache>>
        /\ cr[p].ranges = pool[p].ranges /\ cr[p].blocks \subseteq Owned(p)
        /\ IPsOf(cr[p].blocks) \cap cr[p].ranges = {}
    BY <1>15 DEF DeleteBlock, Consistent
  <2>2. Owned(p)' = Owned(p) \ {b}
    BY <1>1, <1>15, NoPoolAssumption DEF TypeOK, DeleteBlock, Owned
  <2>3. CASE Continue(p, [cr[p] EXCEPT !.blocks = left, !.failed = failed])
    <3>1. /\ cr'[p].pc = "release" /\ cr'[p].blocks = left
          /\ cr'[p].ranges = cr[p].ranges /\ cr'[p].attempts = cr[p].attempts
      BY <1>1, <2>1, <2>3 DEF Continue, ClaimWorker
    <3>2. IPsOf(left) \cap cr[p].ranges = {} /\ left \subseteq Owned(p)'
      <4>1. IPsOf(left) \subseteq IPsOf(cr[p].blocks)
        BY IPsOfProperties
      <4>2. QED
        BY <2>1, <2>2, <4>1
    <3>3. \A i \in Goroutines : cr'[p].attempts[i].st = "unused"
      BY <2>1, <3>1 DEF Consistent
    <3> HIDE DEF left
    <3>4. QED
      BY <1>4, <2>1, <2>2, <3>1, <3>2, <3>3
  <2>4. CASE Continue(p, Finishing(cr[p].ranges))
    <3>1. cr'[p] = Finishing(cr[p].ranges)
      BY <1>1, <2>4 DEF Continue
    <3>2. /\ cr'[p].pc = "finish" /\ cr'[p].ranges = cr[p].ranges
          /\ cr'[p].attempts = NoAttempts
      BY <3>1 DEF Finishing, IdleCR
    <3>3. QED
      BY <1>2, <1>4, <2>1, <3>2
  <2>5. CASE Fail(p)
    BY <1>5, <2>1, <2>5
  <2>6. QED
    BY <1>15, <2>3, <2>4, <2>5 DEF DeleteBlock
<1>16. CASE ListUp(p)
  <2>1. /\ cr[p].pc = "listUp" /\ UNCHANGED <<claim, pool, pr, poolCache>>
        /\ Owned(p)' = Owned(p) /\ cr[p].ranges = pool[p].ranges
        /\ \A i \in Goroutines : cr[p].attempts[i].st = "unused"
    BY <1>16 DEF ListUp, Owned, Consistent
  <2>2. CASE Continue(p, [cr[p] EXCEPT !.pc = "patchUp", !.view = {}, !.blocks = Owned(p)])
    <3>1. /\ cr'[p].pc = "patchUp" /\ cr'[p].blocks = Owned(p)
          /\ cr'[p].ranges = cr[p].ranges /\ cr'[p].attempts = cr[p].attempts
      BY <1>1, <2>2 DEF Continue, ClaimWorker
    <3>2. Claimed(cr'[p]) = Owned(p)
      BY <2>1, <3>1 DEF Claimed
    <3>3. QED
      BY <1>4, <2>1, <3>1, <3>2
  <2>3. ASSUME NEW expect, NEW a \in StartAttempts(cr[p].view, expect),
               Continue(p, [cr[p] EXCEPT !.pc = "claim", !.blocks = Owned(p),
                                         !.attempts = a])
        PROVE  Consistent(p)'
    <3>1. /\ cr'[p].pc = "claim" /\ cr'[p].blocks = Owned(p)
          /\ cr'[p].ranges = cr[p].ranges /\ cr'[p].view = cr[p].view
          /\ cr'[p].attempts = a
      BY <1>1, <2>3 DEF Continue, ClaimWorker
    <3>2. PICK index \in [1 .. expect -> cr[p].view] :
            a = [i \in Goroutines |->
                   IF i <= expect THEN [block |-> index[i], st |-> "first"]
                   ELSE NoAttempts[i]]
      BY <2>3 DEF StartAttempts
    <3>3. ASSUME NEW i \in Goroutines
          PROVE  /\ a[i].st \in {"first", "unused"}
                 /\ a[i].st = "first" => a[i].block \in cr[p].view
      BY <1>2, <3>2 DEF Goroutines
    <3>4. Claimed(cr'[p]) = Owned(p)
      <4>1. \A i \in Goroutines, b \in Blocks : a[i] # [block |-> b, st |-> "ok"]
        BY <3>3
      <4>2. QED
        BY <3>1, <4>1 DEF Claimed
    <3>5. QED
      BY <1>4, <2>1, <3>1, <3>3, <3>4
  <2>4. CASE Fail(p)
    BY <1>5, <2>1, <2>4
  <2>5. QED
    BY <1>16, <2>2, <2>3, <2>4 DEF ListUp
<1>17. ASSUME NEW i \in Goroutines, CreateBlock(p, i)
       PROVE  Consistent(p)'
  <2> DEFINE a == cr[p].attempts[i]
             next == AfterCreate(cr[p].view, a)
  <2>1. /\ cr[p].pc = "claim" /\ UNCHANGED <<claim, pool, pr, poolCache>>
        /\ a.st \in {"first", "probe"} /\ a.block \in cr[p].view
        /\ cr[p].ranges = pool[p].ranges /\ Claimed(cr[p]) \subseteq Owned(p)
    BY <1>17 DEF CreateBlock, Consistent
  <2>2. /\ cr[p].attempts \in [Goroutines -> Attempt]
        /\ a.block \in Blocks /\ cr[p].view \in SUBSET Blocks
    BY <1>1 DEF ClaimWorker, Attempt
  <2>3. cr'[p] = [cr[p] EXCEPT !.attempts = [cr[p].attempts EXCEPT ![i] = next]]
    BY <1>1, <1>17, <2>2 DEF CreateBlock, Continue, ClaimWorker
  <2>4. /\ cr'[p].pc = "claim" /\ cr'[p].blocks = cr[p].blocks
        /\ cr'[p].ranges = cr[p].ranges /\ cr'[p].view = cr[p].view
        /\ cr'[p].attempts = [cr[p].attempts EXCEPT ![i] = next]
    <3> HIDE DEF next
    <3>1. QED
      BY <1>1, <2>1, <2>3 DEF ClaimWorker
  <2>5. /\ Owned(p) \subseteq Owned(p)'
        /\ holder[a.block] = NoPool => a.block \in Owned(p)'
    BY <1>17, <2>2, NoPoolAssumption DEF TypeOK, CreateBlock, Owned
  <2>6. /\ next.st = "ok" => next.block = a.block /\ holder[a.block] = NoPool
        /\ next.st \in {"first", "probe"} => next.block \in cr[p].view
    <3>1. NextBlock(cr[p].view, a.block) \in cr[p].view
      BY <2>1, <2>2, NextBlockIsFree
    <3>2. a \in [block : Blocks, st : {"first", "probe"}]
      BY <2>1, <2>2 DEF Attempt
    <3> HIDE DEF a
    <3>3. QED
      BY <2>1, <3>1, <3>2 DEF AfterCreate
  <2>7. Claimed(cr'[p]) \subseteq Owned(p)'
    <3>1. ASSUME NEW b \in Blocks, NEW k \in Goroutines,
                 cr'[p].attempts[k] = [block |-> b, st |-> "ok"]
          PROVE  b \in Owned(p)'
      <4>1. CASE k = i
        <5>1. next.block = b /\ next.st = "ok"
          BY <2>2, <2>4, <3>1, <4>1
        <5>2. QED
          BY <2>5, <2>6, <5>1
      <4>2. CASE k # i
        <5>1. b \in Claimed(cr[p])
          BY <2>2, <2>4, <3>1, <4>2 DEF Claimed
        <5>2. QED
          BY <2>1, <2>5, <5>1
      <4>3. QED
        BY <4>1, <4>2
    <3>2. cr[p].blocks \subseteq Owned(p)'
      BY <2>1, <2>5 DEF Claimed
    <3>3. QED
      BY <2>4, <3>1, <3>2 DEF Claimed
  <2>8. \A k \in Goroutines :
          cr'[p].attempts[k].st \in {"first", "probe"}
            => cr'[p].attempts[k].block \in cr'[p].view
    <3> HIDE DEF next
    <3>1. QED
      BY <2>2, <2>4, <2>6 DEF Consistent
  <2>9. QED
    <3> HIDE DEF next
    <3>1. QED
      BY <1>4, <2>1, <2>4, <2>7, <2>8
<1>18. CASE ClaimBlocksFailed(p)
  BY <1>18, <1>5 DEF ClaimBlocksFailed, AllReturned
<1>19. CASE PatchUp(p)
  <2> DEFINE ranges == UpRanges(cr[p])
             next   == ReleaseSurplus(cr[p].n, ranges, Claimed(cr[p]))
  <2>1. cr'[p] = next /\ pool'[p] = [pool[p] EXCEPT !.ranges = ranges]
    BY <1>1, <1>19 DEF PatchUp, PatchRanges, Continue
  <2>2. /\ cr[p].pc \in {"claim", "patchUp"} /\ UNCHANGED <<claim, pr, poolCache>>
        /\ Owned(p)' = Owned(p)
    BY <1>19 DEF PatchUp, AllReturned, Owned
  <2>3. Claimed(cr[p]) \subseteq Owned(p)
    BY <2>2 DEF Consistent
  <2>4. pool'[p].ranges = ranges /\ pool'[p].st = pool[p].st
    BY <1>1, <2>1 DEF PoolObj
  <2>5. GoesOn(next, ranges, Claimed(cr[p]))
    BY ReleaseSpares
  <2> HIDE DEF ranges, next
  <2>6. GoesOn(next, ranges, Owned(p))
    BY <2>3, <2>5 DEF GoesOn
  <2>7. QED
    BY <1>6, <2>1, <2>2, <2>4, <2>6
<1>20. CASE Finish(p)
  <2>1. cr'[p] = IdleCR /\ claim'[p].st = claim[p].st
    BY <1>1, <1>20 DEF Finish, Continue, ClaimObj
  <2>2. cr[p].pc # "idle" /\ UNCHANGED <<pool, pr, poolCache>>
    BY <1>20 DEF Finish
  <2>3. QED
    BY <1>2, <1>4, <2>1, <2>2
<1>21. QED
  BY <1>7, <1>8, <1>9, <1>10, <1>11, <1>13, <1>14, <1>15, <1>16, <1>17,
     <1>18, <1>19, <1>20 DEF ClaimStep

\* A pool Reconcile, too, keeps to its own IPPool and IPBlocks.
LEMMA PoolStepIsLocal ==
  ASSUME TypeOK, NEW p \in Pools, Consistent(p), PoolStep(p),
         NEW q \in Pools, q # p
  PROVE  /\ cr'[q] = cr[q] /\ pr'[q] = pr[q] /\ pool'[q] = pool[q]
         /\ poolCache'[q] = poolCache[q] /\ claim'[q] = claim[q]
         /\ Owned(q)' = Owned(q)
<1> USE DEF TypeOK, objects, caches, workers
<1>1. ASSUME NEW b \in Blocks, DeletePoolBlock(p, b)
      PROVE  Owned(q)' = Owned(q)
  <2>1. b \in Owned(p)
    BY <1>1 DEF DeletePoolBlock, Consistent
  <2>2. holder' = [holder EXCEPT ![b] = NoPool]
    BY <1>1 DEF DeletePoolBlock
  <2>3. QED
    BY <2>1, <2>2, NoPoolAssumption DEF Owned
<1>2. Owned(q)' = Owned(q)
  <2>1. CASE UNCHANGED holder
    BY <2>1 DEF Owned
  <2>2. QED
    BY <1>1, <2>1 DEF PoolStep, ForgetPool, UpdateStatus, CleanUpPool, RemovePoolFinalizer
<1>3. QED
  BY <1>2 DEF PoolStep, ForgetPool, UpdateStatus, CleanUpPool, DeletePoolBlock,
     RemovePoolFinalizer

\* A pool Reconcile's step keeps its own name's part of the invariant.
LEMMA PoolStepConsistent ==
  ASSUME TypeOK, NEW p \in Pools, Consistent(p), PoolStep(p)
  PROVE  Consistent(p)'
<1> USE DEF objects, caches, workers
<1>1. /\ pr \in [Pools -> PoolWorker] /\ pool \in [Pools -> PoolObj]
      /\ pool[p] \in PoolObj /\ pr[p] \in PoolWorker
  BY DEF TypeOK
<1>2. CASE ForgetPool(p)
  BY <1>2, Untouched DEF ForgetPool, Owned
<1>3. CASE UpdateStatus(p)
  <2>1. pool'[p] = MergeStatus(pool[p], poolCache[p], NewStatus(p))
    BY <1>1, <1>3 DEF UpdateStatus
  <2>2. pool'[p].st = pool[p].st /\ pool'[p].ranges = pool[p].ranges
    BY <1>1, <2>1 DEF MergeStatus, PoolObj
  <2>3. QED
    BY <1>3, <2>2, Untouched DEF UpdateStatus, Owned
<1>4. CASE CleanUpPool(p)
  <2>1. pr'[p].pc = "delete" /\ pr'[p].todo = Owned(p)
    BY <1>1, <1>4 DEF CleanUpPool
  <2>2. claim[p].st = "gone" /\ pool[p].st # "live"
    BY <1>4 DEF CleanUpPool, Cleanable, Consistent
  <2>3. UNCHANGED <<cr, pool, poolCache, claim>> /\ Owned(p)' = Owned(p)
    BY <1>4 DEF CleanUpPool, Owned
  <2>4. QED
    BY <2>1, <2>2, <2>3 DEF Consistent, ClaimExists
<1>5. ASSUME NEW b \in Blocks, DeletePoolBlock(p, b)
      PROVE  Consistent(p)'
  <2>1. /\ pr[p].pc = "delete" /\ pr[p].todo = Owned(p)
        /\ claim[p].st = "gone" /\ pool[p].st # "live" /\ cr[p].pc = "idle"
    BY <1>5 DEF DeletePoolBlock, Consistent, ClaimExists
  <2>2. pr'[p].pc = "delete" /\ pr'[p].todo = Owned(p) \ {b}
    BY <1>1, <1>5, <2>1 DEF DeletePoolBlock, PoolWorker
  <2>3. Owned(p)' = Owned(p) \ {b}
    BY <1>5, NoPoolAssumption DEF TypeOK, DeletePoolBlock, Owned
  <2>4. UNCHANGED <<cr, pool, poolCache, claim>>
    BY <1>5 DEF DeletePoolBlock
  <2>5. QED
    BY <2>1, <2>2, <2>3, <2>4 DEF Consistent, ClaimExists
<1>6. CASE RemovePoolFinalizer(p)
  <2>1. /\ pr[p].pc = "delete" /\ Owned(p) = {}
        /\ claim[p].st = "gone" /\ pool[p].st # "live" /\ cr[p].pc = "idle"
    BY <1>6 DEF RemovePoolFinalizer, Consistent, ClaimExists
  <2>2. pr'[p].pc = "idle" /\ pool'[p].st \in {pool[p].st, "none"}
    BY <1>1, <1>6 DEF RemovePoolFinalizer, IdlePR, NoPoolObj
  <2>3. UNCHANGED <<cr, poolCache, claim>> /\ Owned(p)' = Owned(p)
    BY <1>6 DEF RemovePoolFinalizer, Owned
  <2>4. QED
    BY <2>1, <2>2, <2>3 DEF Consistent, ClaimExists
<1>7. QED
  BY <1>2, <1>3, <1>4, <1>5, <1>6 DEF PoolStep

\* Users, the platform and failures do not disturb it either.
LEMMA EnvironmentConsistent ==
  ASSUME TypeOK, Users \/ Platform \/ Failures,
         NEW q \in Pools, Consistent(q)
  PROVE  Consistent(q)'
<1> USE DEF objects, caches, workers
<1>1. /\ cr \in [Pools -> ClaimWorker] /\ pr \in [Pools -> PoolWorker]
      /\ pool \in [Pools -> PoolObj] /\ claim \in [Pools -> ClaimObj]
      /\ poolCache \in [Pools -> PoolObj]
      /\ pool[q] \in PoolObj /\ claim[q] \in ClaimObj
  BY DEF TypeOK
\* Deletions keep the claim, edits keep its state.
<1>2. ASSUME \/ claim'[q].st = claim[q].st
             \/ claim[q].st = "unborn" /\ claim'[q].st = "live"
             \/ claim[q].st = "live" /\ claim'[q].st = "terminating",
             UNCHANGED <<pool, poolCache, cr, pr>>, Owned(q)' = Owned(q)
      PROVE  Consistent(q)'
  BY <1>2 DEF Consistent, ClaimExists, Claimed
<1>3. ASSUME NEW p \in Pools, CreateClaim(p) \/ EditReplicas(p) \/ MarkClaimDeleted(p)
      PROVE  Consistent(q)'
  <2>1. UNCHANGED <<pool, poolCache, cr, pr>> /\ Owned(q)' = Owned(q)
    BY <1>3 DEF CreateClaim, EditReplicas, MarkClaimDeleted, Owned
  <2>2. \/ claim'[q].st = claim[q].st
        \/ claim[q].st = "unborn" /\ claim'[q].st = "live"
        \/ claim[q].st = "live" /\ claim'[q].st = "terminating"
    BY <1>1, <1>3 DEF CreateClaim, EditReplicas, MarkClaimDeleted, ClaimObj
  <2>3. QED
    BY <1>2, <2>1, <2>2
<1>4. ASSUME NEW p \in Pools, DeleteClaim(p) \/ GCClaim(p)
      PROVE  Consistent(q)'
  BY <1>3, <1>4 DEF DeleteClaim, GCClaim
<1>5. ASSUME UNCHANGED <<claim, pool, poolCache, holder, cr, pr>>
      PROVE  Consistent(q)'
  BY <1>5, Untouched DEF Owned
<1>6. ASSUME NEW p \in Pools,
             DeleteWorkload(p) \/ (\E ip \in IPs : AssignIP(p, ip) \/ ReleaseIP(p, ip))
      PROVE  Consistent(q)'
  BY <1>5, <1>6 DEF DeleteWorkload, AssignIP, ReleaseIP
<1>7. ASSUME NEW p \in Pools, SyncIP(p) \/ SyncDaemon(p)
      PROVE  Consistent(q)'
  BY <1>5, <1>7 DEF SyncIP, SyncDaemon
<1>8. ASSUME NEW p \in Pools, GCPool(p)
      PROVE  Consistent(q)'
  <2>1. UNCHANGED <<claim, poolCache, cr, pr>> /\ Owned(q)' = Owned(q)
    BY <1>8 DEF GCPool, Owned
  <2>2. \/ pool'[q] = pool[q]
        \/ /\ claim[q].st = "gone" /\ pool[q].st = "live"
           /\ pool'[q].st = "terminating"
    BY <1>1, <1>8 DEF GCPool, PoolObj
  <2>3. QED
    BY <2>1, <2>2 DEF Consistent, ClaimExists, Claimed
<1>9. ASSUME NEW p \in Pools, SyncPool(p)
      PROVE  Consistent(q)'
  <2>1. UNCHANGED <<claim, pool, cr, pr>> /\ Owned(q)' = Owned(q)
    BY <1>9 DEF SyncPool, Owned
  <2>2. poolCache'[q] = poolCache[q] \/ poolCache'[q] = pool[q]
    BY <1>1, <1>9 DEF SyncPool
  <2>3. QED
    BY <2>1, <2>2 DEF Consistent, ClaimExists, Claimed
<1>10. ASSUME NEW p \in Pools, ClaimError(p)
       PROVE  Consistent(q)'
  <2>1. UNCHANGED <<claim, pool, poolCache, pr>> /\ Owned(q)' = Owned(q)
    BY <1>10 DEF ClaimError, Owned
  <2>2. cr'[q] = cr[q] \/ cr'[q] = IdleCR
    BY <1>1, <1>10 DEF ClaimError, Fail, Continue
  <2>3. IdleCR.pc = "idle" /\ \A i \in Goroutines : IdleCR.attempts[i].st = "unused"
    BY DEF IdleCR, NoAttempts
  <2>4. QED
    BY <2>1, <2>2, <2>3 DEF Consistent, ClaimExists, Claimed
<1>11. ASSUME NEW p \in Pools, PoolError(p)
       PROVE  Consistent(q)'
  <2>1. UNCHANGED <<claim, pool, poolCache, cr>> /\ Owned(q)' = Owned(q)
    BY <1>11 DEF PoolError, Owned
  <2>2. pr'[q] = pr[q] \/ pr'[q].pc = "idle"
    BY <1>1, <1>11 DEF PoolError, IdlePR
  <2>3. QED
    BY <2>1, <2>2 DEF Consistent, ClaimExists, Claimed
<1>12. CASE Restart
  <2>1. UNCHANGED <<claim, pool>> /\ Owned(q)' = Owned(q)
    BY <1>12 DEF Restart, Owned
  <2>2. poolCache'[q] = pool[q] /\ cr'[q] = IdleCR /\ pr'[q].pc = "idle"
    BY <1>12 DEF Restart, IdlePR
  <2>3. IdleCR.pc = "idle" /\ \A i \in Goroutines : IdleCR.attempts[i].st = "unused"
    BY DEF IdleCR, NoAttempts
  <2>4. QED
    BY <2>1, <2>2, <2>3 DEF Consistent, ClaimExists, Claimed
<1>13. CASE RefreshSubnet
  BY <1>5, <1>13 DEF RefreshSubnet
<1>14. QED
  BY <1>3, <1>4, <1>6, <1>7, <1>8, <1>9, <1>10, <1>11, <1>12, <1>13
     DEF Users, Platform, Failures
-----------------------------------------------------------------------------
(* The theorems.                                                           *)

\* The initial state satisfies the invariant.
LEMMA InitConsistent ==
  Init => OwnershipInv
<1> SUFFICES ASSUME Init
             PROVE  OwnershipInv
  OBVIOUS
<1> USE DEF Init, ClusterInit
<1>1. TypeOK
  <2>1. claim \in [Pools -> ClaimObj]
    BY ConstantTypes DEF ClaimObj
  <2>2. budget \in [edits : Nat, allocs : Nat, faults : Nat]
    BY BoundsAssumption
  <2>3. QED
    BY <2>1, <2>2, ConstantTypes DEF TypeOK
<1>2. ASSUME NEW p \in Pools
      PROVE  Consistent(p)
  <2>1. IdleCR.pc = "idle" /\ \A i \in Goroutines : IdleCR.attempts[i].st = "unused"
    BY DEF IdleCR, NoAttempts
  <2>2. NoPoolObj.st = "none" /\ IdlePR.pc = "idle" /\ Owned(p) = {}
    BY NoPoolAssumption DEF NoPoolObj, IdlePR, Owned
  <2>3. QED
    BY <2>1, <2>2 DEF Consistent
<1>3. QED
  BY <1>1, <1>2, NameByName

\* OwnershipInv is inductive.
LEMMA StepConsistent ==
  OwnershipInv /\ [Next]_vars => OwnershipInv'
<1> SUFFICES ASSUME OwnershipInv, [Next]_vars
             PROVE  OwnershipInv'
  OBVIOUS
<1>1. TypeOK /\ Probing /\ \A q \in Pools : Consistent(q)
  BY NameByName DEF OwnershipInv
<1>2. TypeOK' /\ (\A q \in Pools : Consistent(q))' => OwnershipInv'
  BY NameByNamePrimed
<1>3. CASE Users \/ Platform \/ Failures
  BY <1>1, <1>2, <1>3, EnvironmentType, EnvironmentConsistent
<1>4. ASSUME NEW p \in Pools, ClaimStep(p)
      PROVE  OwnershipInv'
  <2>1. TypeOK'
    BY <1>1, <1>4, ClaimStepType
  <2>2. ASSUME NEW q \in Pools, q # p
        PROVE  Consistent(q)'
    BY <1>1, <1>4, <2>2, ClaimStepIsLocal, Untouched
  <2>3. Consistent(p)'
    BY <1>1, <1>4, ClaimStepConsistent
  <2>4. QED
    BY <1>2, <2>1, <2>2, <2>3
<1>5. ASSUME NEW p \in Pools, PoolStep(p)
      PROVE  OwnershipInv'
  <2>1. TypeOK'
    BY <1>1, <1>5, PoolStepType
  <2>2. ASSUME NEW q \in Pools, q # p
        PROVE  Consistent(q)'
    BY <1>1, <1>5, <2>2, PoolStepIsLocal, Untouched
  <2>3. Consistent(p)'
    BY <1>1, <1>5, PoolStepConsistent
  <2>4. QED
    BY <1>2, <2>1, <2>2, <2>3
<1>6. CASE UNCHANGED vars
  <2>1. TypeOK'
    BY <1>1, <1>6 DEF vars, objects, caches, workers, TypeOK
  <2>2. ASSUME NEW q \in Pools
        PROVE  Consistent(q)'
    BY <1>1, <1>6, Untouched DEF vars, objects, caches, workers, Owned
  <2>3. QED
    BY <1>2, <2>1, <2>2
<1>7. QED
  BY <1>3, <1>4, <1>5, <1>6 DEF Next, Controllers

\* Everything the Reconciles rely on holds throughout, whatever the order of
\* their API calls, and however old the caches they read.
THEOREM OwnershipHolds == Spec => []OwnershipInv
<1>1. QED
  BY InitConsistent, StepConsistent, PTL DEF Spec

\* Every variable keeps its type.
THEOREM TypeCorrect == Spec => []TypeOK
<1>1. OwnershipInv => TypeOK
  BY DEF OwnershipInv
<1>2. QED
  BY <1>1, OwnershipHolds, PTL

\* No IPBlock outlives its IPPool, as getOrMarkIPPool promises: the finalizers
\* of the claim and of the IPPool order creation before use and use before
\* clean-up, even across restarts.
THEOREM BlocksNeverLeak == Spec => []NoBlockLeak
<1>1. OwnershipInv => NoBlockLeak
  BY DEF OwnershipInv
<1>2. QED
  BY <1>1, OwnershipHolds, PTL

\* A step of the claim controller that takes an IPBlock from its IPPool is one
\* of the IPPool's own Reconciles ...
LEMMA ClaimStepDeletesOwn ==
  ASSUME TypeOK, NEW p \in Pools, Consistent(p), ClaimStep(p),
         NEW b \in Blocks, holder[b] # NoPool, holder'[b] = NoPool
  PROVE  holder[b] = p /\ cr'[p] # cr[p]
<1> USE DEF TypeOK, objects
<1>1. ~UNCHANGED holder
  OBVIOUS
<1>2. ASSUME NEW i \in Goroutines, CreateBlock(p, i)
      PROVE  FALSE
  BY <1>2, NoPoolAssumption DEF CreateBlock
<1>3. PICK c \in Blocks : DeleteBlock(p, c)
  BY <1>1, <1>2 DEF ClaimStep, ForgetClaim, RemoveClaimFinalizer, MarkPool, GetPool,
     PatchDown, DeleteAllBlocks, ListDown, ListUp, ClaimBlocksFailed,
     PatchUp, Finish
<1>4. /\ cr[p].pc = "release" /\ c \in cr[p].blocks /\ b = c
      /\ cr[p].blocks \subseteq Owned(p)
  BY <1>3 DEF DeleteBlock, Consistent
<1>5. holder[b] = p
  BY <1>4 DEF Owned
<1>6. cr'[p] # cr[p]
  <2>1. ASSUME NEW failed,
               Continue(p, [cr[p] EXCEPT !.blocks = cr[p].blocks \ {c}, !.failed = failed])
        PROVE  cr'[p] # cr[p]
    <3>1. cr'[p].blocks = cr[p].blocks \ {c}
      BY <2>1 DEF Continue, ClaimWorker
    <3>2. QED
      BY <1>4, <3>1
  <2>2. CASE Continue(p, Finishing(cr[p].ranges))
    BY <1>4, <2>2 DEF Continue, Finishing, IdleCR
  <2>3. CASE Fail(p)
    BY <1>4, <2>3 DEF Fail, Continue, IdleCR
  <2>4. QED
    BY <1>3, <2>1, <2>2, <2>3 DEF DeleteBlock
<1>7. QED
  BY <1>5, <1>6

\* ... and so is one of the pool controller.
LEMMA PoolStepDeletesOwn ==
  ASSUME TypeOK, NEW p \in Pools, Consistent(p), PoolStep(p),
         NEW b \in Blocks, holder[b] # NoPool, holder'[b] = NoPool
  PROVE  holder[b] = p /\ pr'[p] # pr[p]
<1> USE DEF TypeOK, objects
<1>1. ~UNCHANGED holder
  OBVIOUS
<1>2. PICK c \in Blocks : DeletePoolBlock(p, c)
  BY <1>1 DEF PoolStep, ForgetPool, UpdateStatus, CleanUpPool, RemovePoolFinalizer
<1>3. c \in pr[p].todo /\ b = c /\ pr[p].todo = Owned(p)
  BY <1>2 DEF DeletePoolBlock, Consistent
<1>4. pr'[p].todo = pr[p].todo \ {c}
  BY <1>2 DEF DeletePoolBlock, PoolWorker
<1>5. QED
  BY <1>3, <1>4 DEF Owned

\* Deleting IPBlocks by name from a list that may be out of date never hits an
\* IPBlock that has found another IPPool since.
THEOREM OnlyOwnBlocksDeleted == Spec => OwnBlocksDeleted
<1> DEFINE Own(b) == holder[b] # NoPool /\ holder'[b] = NoPool
                       => \/ cr'[holder[b]] # cr[holder[b]]
                          \/ pr'[holder[b]] # pr[holder[b]]
<1>1. ASSUME OwnershipInv, [Next]_vars, NEW b \in Blocks
      PROVE  Own(b)
  <2>1. TypeOK /\ \A q \in Pools : Consistent(q)
    BY <1>1, NameByName DEF OwnershipInv
  <2>2. ASSUME NEW p \in Pools, ClaimStep(p)
        PROVE  Own(b)
    BY <2>1, <2>2, ClaimStepDeletesOwn
  <2>3. ASSUME NEW p \in Pools, PoolStep(p)
        PROVE  Own(b)
    BY <2>1, <2>3, PoolStepDeletesOwn
  <2>4. CASE UNCHANGED holder
    BY <2>4
  <2>5. CASE Users \/ Platform \/ Failures
    <3>1. UNCHANGED holder
      BY <2>5 DEF Users, Platform, Failures, CreateClaim, EditReplicas, DeleteClaim,
         MarkClaimDeleted, DeleteWorkload, AssignIP, ReleaseIP, GCClaim, GCPool,
         SyncPool, SyncIP, SyncDaemon, RefreshSubnet, ClaimError, PoolError, Restart,
         objects
    <3>2. QED
      BY <3>1, <2>4
  <2>6. QED
    BY <1>1, <2>2, <2>3, <2>4, <2>5 DEF Next, Controllers, vars, objects
<1>2. OwnershipInv /\ [Next]_vars
        => [\A b \in Blocks : Own(b)]_vars
  BY <1>1
<1>3. QED
  BY <1>2, OwnershipHolds, PTL DEF Spec, OwnBlocksDeleted

-----------------------------------------------------------------------------
(* Scale-downs paced: the ranges, and the specification Leasing.           *)

\* The inductive invariant of PacedSpec.
PacedInv == OwnershipInv /\ FreeIsCurrent /\ RangesBacked

\* RangesBacked is the invariant of Leasing: offers come out of leases.
LEMMA BackedOffers ==
  ASSUME TypeOK
  PROVE  RangesBacked <=> \A p \in Pools : Offers[p] \subseteq IPsOf(Owned(p))
BY DEF RangesBacked, Offers

\* Slicing and patching: what each scaling makes of the ranges.
LEMMA ScaledRanges ==
  ASSUME NEW s
  PROVE  /\ s.free \subseteq s.ranges => DownRanges(s) \subseteq s.ranges
         /\ UpRanges(s) \subseteq s.ranges \cup IPsOf(Claimed(s))
<1>1. Lowest(s.free, s.n - s.used) \subseteq s.free
  BY LowestSelects
<1>2. Lowest(IPsOf(Claimed(s)) \ s.ranges, s.n - Size(s.ranges))
        \subseteq IPsOf(Claimed(s)) \ s.ranges
  BY LowestSelects
<1>3. QED
  BY <1>1, <1>2 DEF DownRanges, UpRanges

\* Both specifications mean the same addresses and IPBlocks.
LEMMA SameAddresses ==
  /\ Lease!Blocks = Blocks /\ Lease!IPs = IPs
  /\ \A B : Lease!IPsOf(B) = IPsOf(B)
  /\ \A b : Lease!BlockIPs(b) = BlockIPs(b)
  /\ \A p : Lease!Leased(p) = Owned(p)
BY DEF Lease!Blocks, Blocks, Lease!IPs, IPs, Lease!IPsOf, IPsOf, Lease!BlockIPs,
   BlockIPs, Lease!BlockOf, BlockOf, Lease!Leased, Owned

\* A step that changes one IPPool's offer, within its leases, is Leasing's Offer.
LEMMA OfferStep ==
  ASSUME TypeOK, NEW p \in Pools, UNCHANGED holder,
         \A q \in Pools \ {p} : pool'[q] = pool[q],
         pool'[p].st = "live" => pool'[p].ranges \subseteq IPsOf(Owned(p))
  PROVE  Lease!Next
<1> DEFINE S == IF pool'[p].st = "live" THEN pool'[p].ranges ELSE {}
<1>1. S \subseteq IPsOf(Owned(p)) /\ S \in SUBSET IPs
  BY IPsOfProperties
<1>2. Offers' = [Offers EXCEPT ![p] = S]
  BY DEF Offers
<1> HIDE DEF S
<1>3. Lease!Offer(p, S)
  BY <1>1, <1>2, SameAddresses DEF Lease!Offer
<1>4. QED
  BY <1>1, <1>3, SameAddresses DEF Lease!Next

\* One API call takes or gives back at most one lease.
LEMMA LeaseSteps ==
  ASSUME TypeOK, NEW p \in Pools, NEW b \in Blocks, UNCHANGED pool
  PROVE  /\ holder[b] = NoPool /\ holder' = [holder EXCEPT ![b] = p] => Lease!Next
         /\ /\ holder[b] = p /\ BlockIPs(b) \cap Offers[p] = {}
            /\ holder' = [holder EXCEPT ![b] = NoPool]
            => Lease!Next
<1>1. Offers' = Offers
  BY DEF Offers
<1>2. holder[b] = NoPool /\ holder' = [holder EXCEPT ![b] = p] => Lease!Acquire(p, b)
  BY <1>1 DEF Lease!Acquire
<1>3. /\ holder[b] = p /\ BlockIPs(b) \cap Offers[p] = {}
      /\ holder' = [holder EXCEPT ![b] = NoPool]
      => Lease!Relinquish(p, b)
  BY <1>1, SameAddresses DEF Lease!Relinquish
<1>4. QED
  BY <1>2, <1>3, SameAddresses DEF Lease!Next

\* Every step of a claim Reconcile is a step of Leasing, or none.
LEMMA ClaimStepLeases ==
  ASSUME PacedInv, NEW p \in Pools, ClaimStep(p)
  PROVE  Lease!Next \/ UNCHANGED <<holder, Offers>>
<1> USE DEF objects, caches
<1>1. TypeOK /\ Consistent(p)
  BY NameByName DEF PacedInv, OwnershipInv
<1>2. pool[p].st = "live" => pool[p].ranges \subseteq IPsOf(Owned(p))
  BY DEF PacedInv, RangesBacked
<1>3. pool \in [Pools -> PoolObj] /\ pool[p] \in PoolObj /\ cr[p] \in ClaimWorker
  BY <1>1 DEF TypeOK
<1>4. ASSUME UNCHANGED <<holder, pool>>
      PROVE  UNCHANGED <<holder, Offers>>
  BY <1>4 DEF Offers
<1>5. ASSUME NEW ranges, PatchRanges(p, ranges)
      PROVE  /\ \A q \in Pools \ {p} : pool'[q] = pool[q]
             /\ pool'[p].ranges = ranges
  BY <1>3, <1>5 DEF PatchRanges, PoolObj
<1>6. CASE MarkPool(p)
  <2>1. pool' = [pool EXCEPT ![p] = NewPoolObj] /\ UNCHANGED holder
    BY <1>6 DEF MarkPool
  <2>2. pool'[p].ranges = {}
    BY <1>3, <2>1 DEF NewPoolObj, NoPoolObj
  <2>3. QED
    BY <1>1, <2>1, <2>2, OfferStep
<1>7. CASE PatchDown(p)
  <2>1. /\ cr[p].free \subseteq cr[p].ranges /\ UNCHANGED holder
        /\ PatchRanges(p, DownRanges(cr[p]))
        /\ pool[p].st = "live" /\ cr[p].ranges = pool[p].ranges
    BY <1>1, <1>7 DEF PacedInv, FreeIsCurrent, PatchDown, Consistent
  <2>2. DownRanges(cr[p]) \subseteq IPsOf(Owned(p))
    BY <1>2, <2>1, ScaledRanges
  <2>3. QED
    BY <1>1, <1>5, <2>1, <2>2, OfferStep
<1>8. CASE PatchUp(p)
  <2>1. /\ cr[p].pc \in {"claim", "patchUp"} /\ UNCHANGED holder
        /\ PatchRanges(p, UpRanges(cr[p]))
    BY <1>8 DEF PatchUp, AllReturned
  <2>2. /\ pool[p].st = "live" /\ cr[p].ranges = pool[p].ranges
        /\ Claimed(cr[p]) \subseteq Owned(p)
    BY <1>1, <2>1 DEF Consistent
  <2>3. UpRanges(cr[p]) \subseteq IPsOf(Owned(p))
    BY <1>2, <2>2, ScaledRanges, IPsOfProperties
  <2>4. QED
    BY <1>1, <1>5, <2>1, <2>3, OfferStep
<1>9. ASSUME NEW b \in Blocks, DeleteBlock(p, b)
      PROVE  Lease!Next
  <2>1. /\ cr[p].pc = "release" /\ b \in cr[p].blocks /\ UNCHANGED pool
        /\ holder' = [holder EXCEPT ![b] = NoPool]
    BY <1>9 DEF DeleteBlock
  <2>2. /\ cr[p].blocks \subseteq Owned(p) /\ IPsOf(cr[p].blocks) \cap pool[p].ranges = {}
    BY <1>1, <2>1 DEF Consistent
  <2>3. BlockIPs(b) \subseteq IPsOf(cr[p].blocks)
    BY <2>1 DEF BlockIPs, IPsOf
  <2>4. BlockIPs(b) \cap Offers[p] = {}
    BY <2>2, <2>3 DEF Offers
  <2>5. holder[b] = p
    BY <2>1, <2>2 DEF Owned
  <2>6. QED
    BY <1>1, <2>1, <2>4, <2>5, LeaseSteps
<1>10. ASSUME NEW i \in Goroutines, CreateBlock(p, i)
       PROVE  Lease!Next \/ UNCHANGED <<holder, Offers>>
  <2> DEFINE b == cr[p].attempts[i].block
  <2>1. b \in Blocks
    BY <1>3 DEF ClaimWorker, Attempt
  <2>2. /\ UNCHANGED pool
        /\ holder' = IF holder[b] = NoPool THEN [holder EXCEPT ![b] = p] ELSE holder
    BY <1>10 DEF CreateBlock
  <2> HIDE DEF b
  <2>3. QED
    BY <1>1, <1>4, <2>1, <2>2, LeaseSteps
<1>11. QED
  <2>1. CASE UNCHANGED <<holder, pool>>
    BY <1>4, <2>1
  <2>2. QED
    BY <1>6, <1>7, <1>8, <1>9, <1>10, <2>1 DEF ClaimStep, ForgetClaim,
       RemoveClaimFinalizer, GetPool, DeleteAllBlocks, ListDown, ListUp,
       ClaimBlocksFailed, Finish

\* So is every step of a pool Reconcile.
LEMMA PoolStepLeases ==
  ASSUME PacedInv, NEW p \in Pools, PoolStep(p)
  PROVE  Lease!Next \/ UNCHANGED <<holder, Offers>>
<1> USE DEF objects, caches
<1>1. TypeOK /\ Consistent(p)
  BY NameByName DEF PacedInv, OwnershipInv
<1>2. pool \in [Pools -> PoolObj] /\ pool[p] \in PoolObj
  BY <1>1 DEF TypeOK
<1>3. ASSUME UNCHANGED <<holder, pool>>
      PROVE  UNCHANGED <<holder, Offers>>
  BY <1>3 DEF Offers
<1>4. CASE UpdateStatus(p)
  <2>1. /\ UNCHANGED holder
        /\ pool' = [pool EXCEPT ![p] = MergeStatus(@, poolCache[p], NewStatus(p))]
    BY <1>4 DEF UpdateStatus
  <2>2. pool'[p].st = pool[p].st /\ pool'[p].ranges = pool[p].ranges
    BY <1>2, <2>1 DEF MergeStatus, PoolObj
  <2>3. \A q \in Pools : Offers'[q] = Offers[q]
    BY <1>2, <2>1, <2>2 DEF Offers
  <2>4. QED
    BY <2>1, <2>3 DEF Offers
<1>5. ASSUME NEW b \in Blocks, DeletePoolBlock(p, b)
      PROVE  Lease!Next
  <2>1. /\ UNCHANGED pool /\ holder' = [holder EXCEPT ![b] = NoPool]
        /\ pool[p].st # "live" /\ b \in Owned(p)
    BY <1>1, <1>5 DEF DeletePoolBlock, Consistent
  <2>2. BlockIPs(b) \cap Offers[p] = {} /\ holder[b] = p
    BY <2>1 DEF Offers, Owned
  <2>3. QED
    BY <1>1, <2>1, <2>2, LeaseSteps
<1>6. CASE RemovePoolFinalizer(p)
  <2>1. UNCHANGED holder /\ pool[p].st # "live"
    BY <1>1, <1>6 DEF RemovePoolFinalizer, Consistent
  <2>2. pool' = pool \/ pool' = [pool EXCEPT ![p] = NoPoolObj]
    BY <1>6 DEF RemovePoolFinalizer
  <2>3. \A q \in Pools : Offers'[q] = Offers[q]
    BY <1>2, <2>1, <2>2 DEF Offers, NoPoolObj
  <2>4. QED
    BY <2>1, <2>3 DEF Offers
<1>7. QED
  BY <1>3, <1>4, <1>5, <1>6 DEF PoolStep, ForgetPool, CleanUpPool

\* Nothing else changes offers or leases, except that an IPPool offers
\* nothing once it is deleted.
LEMMA EnvironmentLeases ==
  ASSUME PacedInv, Users \/ Platform \/ Failures
  PROVE  Lease!Next \/ UNCHANGED <<holder, Offers>>
<1> USE DEF objects
<1>1. TypeOK
  BY DEF PacedInv, OwnershipInv
<1>2. ASSUME NEW p \in Pools, GCPool(p)
      PROVE  Lease!Next
  <2>1. UNCHANGED holder /\ pool' = [pool EXCEPT ![p].st = "terminating"]
    BY <1>2 DEF GCPool
  <2>2. pool'[p].st = "terminating" /\ \A q \in Pools \ {p} : pool'[q] = pool[q]
    BY <1>1, <2>1 DEF TypeOK, PoolObj
  <2>3. QED
    BY <1>1, <2>1, <2>2, OfferStep
<1>3. CASE UNCHANGED <<holder, pool>>
  BY <1>3 DEF Offers
<1>4. QED
  BY <1>2, <1>3 DEF Users, Platform, Failures, CreateClaim, EditReplicas, DeleteClaim,
     MarkClaimDeleted, DeleteWorkload, AssignIP, ReleaseIP, GCClaim,
     SyncPool, SyncIP, SyncDaemon, RefreshSubnet, ClaimError, PoolError, Restart

\* Every step is one of Leasing's, or none.
LEMMA StepLeases ==
  PacedInv /\ [PacedNext]_vars => [Lease!Next]_<<holder, Offers>>
<1> SUFFICES ASSUME PacedInv, [PacedNext]_vars
             PROVE  Lease!Next \/ UNCHANGED <<holder, Offers>>
  OBVIOUS
<1>1. CASE UNCHANGED vars
  BY <1>1 DEF vars, objects, Offers
<1>2. QED
  BY <1>1, ClaimStepLeases, PoolStepLeases, EnvironmentLeases DEF PacedNext, Next,
     Controllers

\* Offers stay within leases, whichever step of Leasing is taken.
LEMMA LeaseStepBacked ==
  ASSUME TypeOK, TypeOK', RangesBacked, [Lease!Next]_<<holder, Offers>>
  PROVE  RangesBacked'
<1>1. \A q \in Pools : Offers[q] \subseteq IPsOf(Owned(q))
  BY BackedOffers
<1>2. ASSUME \A q \in Pools : Offers'[q] \subseteq IPsOf(Owned(q)')
      PROVE  RangesBacked'
  BY <1>2 DEF RangesBacked, Offers
<1>3. CASE UNCHANGED <<holder, Offers>>
  BY <1>1, <1>2, <1>3 DEF Owned
<1>4. ASSUME NEW p \in Pools, NEW b \in Blocks, Lease!Acquire(p, b)
      PROVE  RangesBacked'
  <2>1. Offers' = Offers /\ \A q \in Pools : Owned(q) \subseteq Owned(q)'
    BY <1>4, NoPoolAssumption DEF Lease!Acquire, Owned
  <2>2. QED
    BY <1>1, <1>2, <2>1, IPsOfProperties
<1>5. ASSUME NEW p \in Pools, NEW b \in Blocks, Lease!Relinquish(p, b)
      PROVE  RangesBacked'
  <2>1. /\ Offers' = Offers /\ BlockIPs(b) \cap Offers[p] = {}
        /\ \A q \in Pools : Owned(q)' = IF q = p THEN Owned(q) \ {b} ELSE Owned(q)
    BY <1>5, NoPoolAssumption, SameAddresses DEF TypeOK, Lease!Relinquish, Owned
  <2>2. IPsOf(Owned(p) \ {b}) = IPsOf(Owned(p)) \ BlockIPs(b)
    BY IPsOfProperties
  <2>3. QED
    BY <1>1, <1>2, <2>1, <2>2
<1>6. ASSUME NEW p \in Pools, NEW S \in SUBSET IPs, Lease!Offer(p, S)
      PROVE  RangesBacked'
  <2>1. /\ Offers' = [Offers EXCEPT ![p] = S] /\ S \subseteq IPsOf(Owned(p))
        /\ \A q \in Pools : Owned(q)' = Owned(q)
    BY <1>6, SameAddresses DEF Lease!Offer, Owned
  <2>2. \A q \in Pools : Offers'[q] = IF q = p THEN S ELSE Offers[q]
    BY <2>1 DEF Offers
  <2>3. QED
    BY <1>1, <1>2, <2>1, <2>2
<1>7. QED
  BY <1>3, <1>4, <1>5, <1>6, SameAddresses DEF Lease!Next

\* PacedInv is inductive under PacedSpec.
LEMMA InitPaced ==
  Init => PacedInv
<1> SUFFICES ASSUME Init
             PROVE  PacedInv
  OBVIOUS
<1>1. OwnershipInv
  BY InitConsistent
<1>2. FreeIsCurrent
  BY DEF Init, ClusterInit, FreeIsCurrent, IdleCR
<1>3. RangesBacked
  BY DEF Init, ClusterInit, RangesBacked, NoPoolObj
<1>4. QED
  BY <1>1, <1>2, <1>3 DEF PacedInv

\* A paced step keeps PacedInv.
LEMMA StepPaced ==
  PacedInv /\ [PacedNext]_vars => PacedInv'
<1> SUFFICES ASSUME PacedInv, [PacedNext]_vars
             PROVE  PacedInv'
  OBVIOUS
<1>1. OwnershipInv'
  BY StepConsistent DEF PacedInv, PacedNext
<1>2. FreeIsCurrent'
  BY DEF PacedInv, PacedNext, FreeIsCurrent, vars, workers
<1>3. RangesBacked'
  BY <1>1, StepLeases, LeaseStepBacked DEF PacedInv, OwnershipInv
<1>4. QED
  BY <1>1, <1>2, <1>3 DEF PacedInv

\* PacedInv holds in every state of PacedSpec.
LEMMA PacedInvariant == PacedSpec => []PacedInv
<1>1. QED
  BY InitPaced, StepPaced, PTL DEF PacedSpec

\* Pods are offered only addresses of IPBlocks their IPPool holds.
THEOREM RangesAlwaysBacked == PacedSpec => []RangesBacked
<1>1. PacedInv => RangesBacked
  BY DEF PacedInv
<1>2. QED
  BY <1>1, PacedInvariant, PTL

\* No address is offered twice, by whatever IPPools of whatever namespaces: this
\* is what creating IPBlocks by name is for.
THEOREM RangesNeverOverlap == PacedSpec => []DisjointRanges
<1>1. PacedInv => DisjointRanges
  <2> SUFFICES ASSUME PacedInv, NEW p \in Pools, NEW q \in Pools, p # q,
                      pool[p].st = "live", pool[q].st = "live"
               PROVE  pool[p].ranges \cap pool[q].ranges = {}
    BY DEF DisjointRanges
  <2>1. /\ pool[p].ranges \subseteq IPsOf(Owned(p))
        /\ pool[q].ranges \subseteq IPsOf(Owned(q))
    BY DEF PacedInv, RangesBacked
  <2>2. Owned(p) \cap Owned(q) = {}
    BY DEF Owned
  <2>3. IPsOf(Owned(p)) \cap IPsOf(Owned(q)) = {}
    BY <2>2, IPsOfProperties
  <2>4. QED
    BY <2>1, <2>3
<1>2. QED
  BY <1>1, PacedInvariant, PTL

\* Nothing is leased or offered at first.
LEMMA InitLeases == Init => Lease!Init
BY SameAddresses DEF Init, ClusterInit, Lease!Init, Offers, NoPoolObj

\* Provisioning implements Leasing: an IPPool acquires one free IPBlock at a
\* time, offers only what it leases, and returns an IPBlock only when it offers
\* nothing of it.
THEOREM ProvisioningLeases == PacedSpec => Leases
<1>1. QED
  BY InitLeases, StepLeases, PacedInvariant, PTL DEF PacedSpec, Leases, Lease!Spec
=============================================================================
