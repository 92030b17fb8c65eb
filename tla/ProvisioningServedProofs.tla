---------------------- MODULE ProvisioningServedProofs ----------------------
(***************************************************************************)
(* What is proved of claims at rest: each has the addresses it asks for.   *)
(***************************************************************************)
EXTENDS ProvisioningRestProofs

\* The stored status is not the cached one: the event of its patch is to come.
StatusOnItsWay(p) ==
    \/ pool[p].free # poolCache[p].free
    \/ pool[p].used # poolCache[p].used

\* The ranges a scale-down to n of this IPPool leaves.
DownTo(n, rp) ==
    DownRanges([ranges |-> rp.ranges, free |-> rp.free, used |-> rp.used, n |-> n])

\* Another Reconcile would leave the ranges as they are, unless status.free is
\* of other ranges.
Sated(p) ==
    LET rp == pool[p]
        n  == claim[p].replicas
    IN  rp.free \subseteq rp.ranges =>
          \/ ScaleStep(p, n, rp.ranges, rp.used) = "finish"
          \/ n < Size(rp.ranges) /\ DownTo(n, rp) = rp.ranges

\* What is true of a Reconcile that works for the present replicas.
Working(p) ==
    LET r == cr[p]
        n == claim[p].replicas
    IN  /\ r.pc = "idle" =>
             /\ pool[p].st = "live"
             /\ claim[p].poolSize = Size(pool[p].ranges)
        /\ r.pc \in {"idle", "finish", "deleteAll", "listDown", "release"} => Sated(p)
        /\ r.pc = "patchDown" =>
             r.n = n /\ r.free = pool[p].free /\ r.used = pool[p].used /\ n < Size(pool[p].ranges)
        /\ r.pc \in {"listUp", "claim", "patchUp"} => r.n = n /\ n > Size(pool[p].ranges)

\* A live claim is queued, or will be when a status arrives, or is worked on.
Attended(p) ==
    claim[p].st = "live" => p \in claimQ \/ StatusOnItsWay(p) \/ Working(p)

\* claimIPBlocks runs a goroutine for each missing IPBlock, and no two of them
\* have created the same one.
Gathering(p) ==
    LET r == cr[p]
    IN  /\ r.pc = "patchUp" => r.n <= Size(r.blocks) * BlockSize
        /\ r.pc = "claim" =>
             /\ r.n > Size(r.blocks) * BlockSize
             /\ BlocksFor(r.n - Size(r.blocks) * BlockSize) <= NumBlocks
             /\ \A i \in Goroutines :
                  i <= BlocksFor(r.n - Size(r.blocks) * BlockSize)
                    => r.attempts[i].st # "unused"
             /\ \A i, j \in Goroutines :
                  r.attempts[i].st = "ok" =>
                    /\ r.attempts[i].block \notin r.blocks
                    /\ i # j /\ r.attempts[j].st = "ok"
                         => r.attempts[i].block # r.attempts[j].block

ServedInv ==
    RestInv /\ \A p \in Pools : Attended(p) /\ Gathering(p)
-----------------------------------------------------------------------------
(* What a patch of the ranges leaves.                                      *)

\* scaleUp: with addresses enough in the IPBlocks, the ranges get the size asked for.
LEMMA UpRangesSize ==
  ASSUME NEW s \in ClaimWorker, Size(s.ranges) < s.n, s.n <= Size(Claimed(s)) * BlockSize
  PROVE  Size(UpRanges(s)) = s.n
<1> DEFINE ranges == s.ranges
           all    == IPsOf(Claimed(s))
           spare  == all \ ranges
           lack   == s.n - Size(ranges)
           added  == Lowest(spare, lack)
<1>1. ranges \in SUBSET IPs /\ s.n \in Nat /\ Claimed(s) \in SUBSET Blocks
  BY DEF ClaimWorker, Claimed
<1>2. IsFiniteSet(ranges) /\ Cardinality(ranges) \in Nat
  BY <1>1, SizesAreNatural
<1>3. IsFiniteSet(all) /\ Cardinality(all) \in Nat /\ s.n <= Cardinality(all)
  BY <1>1, SizesAreNatural, IPsOfProperties, IPsOfSize DEF Size
<1>4. lack \in Nat
  BY <1>1, <1>2 DEF Size
<1> HIDE DEF all
<1>5. IsFiniteSet(spare) /\ lack <= Cardinality(spare)
  <2>1. Cardinality(all \cap ranges) \in Nat /\ Cardinality(all \cap ranges) <= Cardinality(ranges)
    BY <1>2, <1>3, FS_Intersection, FS_CardinalityType
  <2>2. IsFiniteSet(spare) /\ Cardinality(spare) = Cardinality(all) - Cardinality(all \cap ranges)
    BY <1>3, FS_Difference
  <2>3. QED
    BY <1>1, <1>2, <1>3, <2>1, <2>2 DEF Size
<1>6. spare \in SUBSET Nat
  BY IPsOfProperties, NumBlocksAssumption, BlockSizeAssumption DEF all, IPs
<1>7. Cardinality(added) = lack /\ added \subseteq spare
  <2> HIDE DEF lack, spare
  <2>1. QED
    BY <1>4, <1>5, <1>6, LowestSize, LowestSelects
<1>8. IsFiniteSet(added) /\ added \cap ranges = {}
  BY <1>5, <1>7, FS_Subset
<1>9. Cardinality(added \cup ranges) = Cardinality(added) + Cardinality(ranges) - 0
  <2> HIDE DEF added
  <2>1. Cardinality(added \cap ranges) = 0
    BY <1>8, FS_EmptySet
  <2>2. Cardinality(added \cup ranges)
          = Cardinality(added) + Cardinality(ranges) - Cardinality(added \cap ranges)
    BY <1>2, <1>8, FS_Union
  <2>3. QED
    BY <2>1, <2>2
<1>10. UpRanges(s) = added \cup ranges
  BY DEF UpRanges, all
<1>11. QED
  BY <1>1, <1>2, <1>7, <1>9, <1>10 DEF Size

\* scaleUp: once each goroutine has an IPBlock, the claimed ones are enough.
LEMMA ClaimedIsEnough ==
  ASSUME NEW p \in Pools, cr[p] \in ClaimWorker, Gathering(p),
         \/ cr[p].pc = "patchUp"
         \/ AllReturned(p) /\ \A i \in Goroutines : cr[p].attempts[i].st # "err"
  PROVE  cr[p].n <= Size(Claimed(cr[p])) * BlockSize
<1> DEFINE r      == cr[p]
           listed == r.blocks
           all    == Claimed(r)
<1>1. /\ r.n \in Nat /\ listed \in SUBSET Blocks /\ all \in SUBSET Blocks
      /\ listed \subseteq all /\ r.attempts \in [Goroutines -> Attempt]
  BY DEF ClaimWorker, Claimed
<1>2. /\ IsFiniteSet(listed) /\ IsFiniteSet(all)
      /\ Size(listed) \in Nat /\ Size(all) \in Nat /\ Size(listed) <= Size(all)
      /\ BlockSize \in Nat \ {0}
  BY <1>1, SizesAreNatural, FS_Subset, BlockSizeAssumption DEF Size
<1>3. CASE r.pc = "patchUp"
  <2>1. r.n <= Size(listed) * BlockSize
    BY <1>3 DEF Gathering
  <2>2. Size(listed) * BlockSize <= Size(all) * BlockSize
    BY <1>2
  <2>3. Size(listed) * BlockSize \in Nat /\ Size(all) * BlockSize \in Nat
    BY <1>2
  <2> HIDE DEF r, all
  <2>4. QED
    BY <1>1, <2>1, <2>2, <2>3 DEF r, all
<1>4. CASE r.pc = "claim" /\ AllReturned(p) /\ \A i \in Goroutines : r.attempts[i].st # "err"
  <2> DEFINE lack   == r.n - Size(listed) * BlockSize
             expect == BlocksFor(lack)
             block  == [i \in 1 .. expect |-> r.attempts[i].block]
  <2>1. /\ r.n > Size(listed) * BlockSize /\ expect <= NumBlocks
        /\ \A i \in Goroutines : i <= expect => r.attempts[i].st # "unused"
        /\ \A i, j \in Goroutines :
             r.attempts[i].st = "ok" =>
               /\ r.attempts[i].block \notin listed
               /\ i # j /\ r.attempts[j].st = "ok" => r.attempts[i].block # r.attempts[j].block
    BY <1>4 DEF Gathering
  <2>2. Size(listed) * BlockSize \in Nat /\ lack \in Nat \ {0}
    BY <1>1, <1>2, <2>1
  <2>3. expect \in Nat \ {0} /\ lack <= expect * BlockSize
    <3> HIDE DEF lack
    <3>1. QED
      BY <2>2, BlocksForEnough
  <2> HIDE DEF lack, expect
  <2>4. 1 .. expect \subseteq Goroutines
    BY <2>1, <2>3, NumBlocksAssumption DEF Goroutines
  <2>5. ASSUME NEW i \in 1 .. expect
        PROVE  r.attempts[i].st = "ok" /\ r.attempts[i].block \in all \ listed
    <3>1. i \in Goroutines /\ i <= expect /\ r.attempts[i] \in Attempt
      BY <1>1, <2>3, <2>4
    <3>2. r.attempts[i].st = "ok"
      BY <1>4, <2>1, <3>1 DEF AllReturned, Attempt
    <3>3. r.attempts[i] = [block |-> r.attempts[i].block, st |-> "ok"] /\ r.attempts[i].block \in Blocks
      BY <3>1, <3>2 DEF Attempt
    <3>4. r.attempts[i].block \in all
      BY <3>1, <3>3 DEF Claimed
    <3>5. QED
      BY <2>1, <3>1, <3>2, <3>4
  <2>6. block \in Injection(1 .. expect, all \ listed)
    <3>1. block \in [1 .. expect -> all \ listed]
      BY <2>5
    <3>2. \A i, j \in 1 .. expect : block[i] = block[j] => i = j
      BY <2>1, <2>4, <2>5
    <3> HIDE DEF block, all
    <3>3. QED
      BY <3>1, <3>2, Fun_IsInj
  <2>7. IsFiniteSet(all \ listed) /\ Cardinality(all \ listed) = Size(all) - Size(listed)
    <3>1. all \cap listed = listed
      BY <1>1
    <3>2. QED
      BY <1>2, <3>1, FS_Difference DEF Size
  <2>8. Cardinality(1 .. expect) = expect
    BY <2>3, FS_Interval
  <2>9. expect <= Size(all) - Size(listed)
    <3> HIDE DEF block, all, r
    <3>1. QED
      BY <2>6, <2>7, <2>8, FS_Injection
  <2>10. \A l, a \in Nat : expect <= a - l => expect * BlockSize <= a * BlockSize - l * BlockSize
    BY <1>2, <2>3
  <2>11. expect * BlockSize <= Size(all) * BlockSize - Size(listed) * BlockSize
    BY <1>2, <2>9, <2>10
  <2>12. Size(all) * BlockSize \in Nat /\ expect * BlockSize \in Nat
    BY <1>2, <2>3
  <2> HIDE DEF all
  <2>13. QED
    BY <1>1, <2>2, <2>3, <2>11, <2>12 DEF lack, all
<1>5. QED
  BY <1>3, <1>4 DEF AllReturned

\* scaleDown: when the free addresses of the status are those of the ranges that are
\* left, none was given up, and scaling down again would give up none.
LEMMA DownIsSated ==
  ASSUME NEW p \in Pools, NEW rp \in PoolObj, NEW n \in Nat, n < Size(rp.ranges),
         NEW ranges, ranges = DownTo(n, rp), rp.free \subseteq ranges
  PROVE  /\ n < Size(ranges)
         /\ DownTo(n, [rp EXCEPT !.ranges = ranges]) = ranges
<1> DEFINE kept == IF rp.used < n THEN Lowest(rp.free, n - rp.used) ELSE {}
           next == [rp EXCEPT !.ranges = ranges]
<1>1. ranges = (rp.ranges \ rp.free) \cup kept /\ kept \subseteq rp.free
  BY LowestSelects DEF DownTo, DownRanges
<1>2. next.ranges = ranges /\ next.free = rp.free /\ next.used = rp.used
  BY DEF PoolObj
<1>3. DownTo(n, next) = (ranges \ rp.free) \cup kept
  BY <1>2 DEF DownTo, DownRanges
<1> HIDE DEF kept, next
<1>4. kept = rp.free /\ rp.ranges \subseteq ranges /\ ranges \subseteq IPs /\ rp.ranges \in SUBSET IPs
  BY <1>1 DEF PoolObj
<1>5. n < Size(ranges)
  <2>1. IsFiniteSet(ranges) /\ Cardinality(ranges) \in Nat /\ Cardinality(rp.ranges) \in Nat
    BY <1>4, SizesAreNatural
  <2>2. Cardinality(rp.ranges) <= Cardinality(ranges)
    BY <1>4, <2>1, FS_Subset
  <2>3. QED
    BY <2>1, <2>2 DEF Size
<1>6. QED
  BY <1>1, <1>3, <1>4, <1>5 DEF next
-----------------------------------------------------------------------------
(* ServedInv is inductive.                                                 *)

\* A step that leaves the claim, the stored IPPool and the Reconcile of it alone, and
\* the cached one, unless it queues the claim.
LEMMA ServedUntouched ==
  ASSUME NEW q \in Pools, Attended(q), Gathering(q),
         claim'[q] = claim[q], pool'[q] = pool[q], poolCache'[q] = poolCache[q],
         cr'[q] = cr[q], q \in claimQ => q \in claimQ'
  PROVE  Attended(q)' /\ Gathering(q)'
<1>1. Gathering(q)'
  BY DEF Gathering
<1>2. Sated(q)' = Sated(q)
  BY DEF Sated
<1>3. Working(q) => Working(q)'
  BY <1>2 DEF Working
<1>4. StatusOnItsWay(q)' = StatusOnItsWay(q)
  BY DEF StatusOnItsWay
<1>5. QED
  BY <1>1, <1>3, <1>4 DEF Attended

\* Whatever a status patch comes to, it is not what the cache has.
LEMMA StatusStaysOnItsWay ==
  ASSUME NEW q \in Pools, pool \in [Pools -> PoolObj], NEW new,
         pool'[q] = MergeStatus(pool[q], poolCache[q], new), poolCache'[q] = poolCache[q]
  PROVE  /\ StatusOnItsWay(q) => StatusOnItsWay(q)'
         /\ pool'[q] # pool[q] => StatusOnItsWay(q)'
<1>1. pool[q] \in PoolObj
  OBVIOUS
<1>2. /\ pool'[q].free = IF new.free = poolCache[q].free THEN pool[q].free ELSE new.free
      /\ pool'[q].used = IF new.used = poolCache[q].used THEN pool[q].used ELSE new.used
  BY <1>1 DEF MergeStatus, PoolObj
<1>3. StatusOnItsWay(q) => StatusOnItsWay(q)'
  BY <1>2 DEF StatusOnItsWay
<1>4. ASSUME ~StatusOnItsWay(q), ~StatusOnItsWay(q)' PROVE pool'[q] = pool[q]
  <2>1. pool'[q].free = pool[q].free /\ pool'[q].used = pool[q].used
    BY <1>2, <1>4 DEF StatusOnItsWay
  <2>2. pool'[q] = [pool[q] EXCEPT !.free = pool'[q].free, !.used = pool'[q].used]
    BY <1>1, <1>2 DEF MergeStatus
  <2>3. PICK st0, ranges0, free0, used0 :
          pool[q] = [st |-> st0, ranges |-> ranges0, free |-> free0, used |-> used0]
    BY <1>1 DEF PoolObj
  <2>4. QED
    BY <2>1, <2>2, <2>3
<1>5. QED
  BY <1>3, <1>4

\* Users, the garbage collector, informers and failures: an edit queues the claim, and
\* so does a status that arrives.
LEMMA EnvironmentServes ==
  ASSUME TypeOK, Users \/ Platform \/ Failures,
         NEW q \in Pools, Consistent(q), Attended(q), Gathering(q)
  PROVE  Attended(q)' /\ Gathering(q)'
<1> USE DEF objects, caches, workers
<1>1. /\ pool \in [Pools -> PoolObj] /\ pool[q] \in PoolObj
      /\ claim \in [Pools -> ClaimObj] /\ claim[q] \in ClaimObj
      /\ poolCache \in [Pools -> PoolObj] /\ cr \in [Pools -> ClaimWorker]
      /\ claimQ \subseteq Pools
  BY DEF TypeOK
<1>2. ASSUME UNCHANGED <<claim, pool, poolCache, claimQ, cr>>
      PROVE  Attended(q)' /\ Gathering(q)'
  BY <1>2, ServedUntouched
<1>3. ASSUME cr'[q] = cr[q] \/ cr'[q] = IdleCR, q \in claimQ' \/ claim'[q].st # "live"
      PROVE  Attended(q)' /\ Gathering(q)'
  <2>1. Gathering(q)'
    BY <1>3 DEF Gathering, IdleCR
  <2>2. QED
    BY <1>3, <2>1 DEF Attended
<1>4. ASSUME NEW p \in Pools, CreateClaim(p) \/ EditReplicas(p) \/ MarkClaimDeleted(p)
      PROVE  Attended(q)' /\ Gathering(q)'
  <2>1. UNCHANGED <<pool, poolCache, cr>> /\ claimQ' = claimQ \cup {p}
    BY <1>4 DEF CreateClaim, EditReplicas, MarkClaimDeleted
  <2>2. CASE q = p
    BY <1>3, <2>1, <2>2
  <2>3. CASE q # p
    <3>1. claim'[q] = claim[q]
      BY <1>1, <1>4, <2>3 DEF CreateClaim, EditReplicas, MarkClaimDeleted
    <3>2. QED
      BY <2>1, <3>1, ServedUntouched
  <2>4. QED
    BY <2>2, <2>3
<1>5. ASSUME NEW p \in Pools, DeleteClaim(p) \/ GCClaim(p)
      PROVE  Attended(q)' /\ Gathering(q)'
  BY <1>4, <1>5 DEF DeleteClaim, GCClaim
<1>6. ASSUME NEW p \in Pools,
             \/ DeleteWorkload(p) \/ SyncDaemon(p) \/ SyncIP(p) \/ PoolError(p)
             \/ \E ip \in IPs : AssignIP(p, ip) \/ ReleaseIP(p, ip)
      PROVE  Attended(q)' /\ Gathering(q)'
  BY <1>2, <1>6 DEF DeleteWorkload, SyncDaemon, SyncIP, PoolError, AssignIP, ReleaseIP
<1>7. ASSUME NEW p \in Pools, GCPool(p)
      PROVE  Attended(q)' /\ Gathering(q)'
  <2>1. UNCHANGED <<claim, poolCache, claimQ, cr>> /\ claim[p].st = "gone"
    BY <1>7 DEF GCPool
  <2>2. CASE q = p
    <3>1. cr'[q] = cr[q] /\ claim'[q].st # "live"
      BY <2>1, <2>2
    <3>2. QED
      BY <1>3, <3>1
  <2>3. CASE q # p
    <3>1. pool'[q] = pool[q]
      BY <1>1, <1>7, <2>3 DEF GCPool
    <3>2. QED
      BY <2>1, <3>1, ServedUntouched
  <2>4. QED
    BY <2>2, <2>3
<1>8. ASSUME NEW p \in Pools, SyncPool(p)
      PROVE  Attended(q)' /\ Gathering(q)'
  <2>1. UNCHANGED <<claim, pool, cr>> /\ claimQ' = claimQ \cup {p}
    BY <1>8 DEF SyncPool
  <2>2. CASE q = p
    BY <1>3, <2>1, <2>2
  <2>3. CASE q # p
    <3>1. poolCache'[q] = poolCache[q]
      BY <1>1, <1>8, <2>3 DEF SyncPool
    <3>2. QED
      BY <2>1, <3>1, ServedUntouched
  <2>4. QED
    BY <2>2, <2>3
<1>9. ASSUME NEW p \in Pools, ClaimError(p)
      PROVE  Attended(q)' /\ Gathering(q)'
  <2>1. UNCHANGED <<claim, pool, poolCache>> /\ claimQ' = claimQ \cup {p}
        /\ cr' = [cr EXCEPT ![p] = IdleCR]
    BY <1>9 DEF ClaimError, Fail, Continue
  <2>2. CASE q = p
    BY <1>1, <1>3, <2>1, <2>2
  <2>3. CASE q # p
    BY <1>1, <2>1, <2>3, ServedUntouched
  <2>4. QED
    BY <2>2, <2>3
<1>10. CASE Restart
  <2>1. cr'[q] = IdleCR /\ claim' = claim /\ (claim[q].st = "live" => q \in claimQ')
    BY <1>10 DEF Restart
  <2>2. QED
    BY <1>3, <2>1
<1>11. CASE RefreshSubnet
  BY <1>2, <1>11 DEF RefreshSubnet
<1>12. QED
  BY <1>4, <1>5, <1>6, <1>7, <1>8, <1>9, <1>10, <1>11 DEF Users, Platform, Failures

\* The pool controller patches a status that the claim controller will hear of.
LEMMA PoolStepServes ==
  ASSUME TypeOK, NEW p \in Pools, Consistent(p), PoolStep(p),
         NEW q \in Pools, Consistent(q), Attended(q), Gathering(q)
  PROVE  Attended(q)' /\ Gathering(q)'
<1> USE DEF objects, caches, workers
<1>1. pool \in [Pools -> PoolObj] /\ pool[p] \in PoolObj /\ claim \in [Pools -> ClaimObj]
  BY DEF TypeOK
<1>2. UNCHANGED <<claim, poolCache, claimQ, cr>>
  BY DEF PoolStep, ForgetPool, UpdateStatus, CleanUpPool, DeletePoolBlock, RemovePoolFinalizer
<1>3. CASE pool'[q] = pool[q]
  BY <1>2, <1>3, ServedUntouched
<1>4. CASE pool'[q] # pool[q]
  <2>1. q = p /\ (UpdateStatus(p) \/ RemovePoolFinalizer(p))
    BY <1>1, <1>4 DEF PoolStep, ForgetPool, UpdateStatus, CleanUpPool, DeletePoolBlock,
                      RemovePoolFinalizer
  <2>2. Gathering(q)'
    BY <1>2 DEF Gathering
  <2>3. CASE UpdateStatus(p)
    <3>1. pool'[q] = MergeStatus(pool[q], poolCache[q], NewStatus(q))
      BY <1>1, <2>1, <2>3 DEF UpdateStatus
    <3>2. StatusOnItsWay(q)'
      BY <1>1, <1>2, <1>4, <3>1, StatusStaysOnItsWay
    <3>3. QED
      BY <2>2, <3>2 DEF Attended
  <2>4. CASE RemovePoolFinalizer(p)
    <3>1. claim[q].st = "gone"
      BY <2>1, <2>4 DEF RemovePoolFinalizer, Consistent
    <3>2. QED
      BY <1>2, <2>2, <3>1 DEF Attended
  <2>5. QED
    BY <2>1, <2>3, <2>4
<1>5. QED
  BY <1>3, <1>4
\* claimIPBlocks: the goroutines that have returned hold different IPBlocks, for Create
\* succeeds once only.
LEMMA CreateBlockGathers ==
  ASSUME TypeOK, NEW p \in Pools, Consistent(p), NEW k \in Goroutines, CreateBlock(p, k),
         Gathering(p)
  PROVE  Gathering(p)'
<1> DEFINE a    == cr[p].attempts[k]
           next == AfterCreate(cr[p].view, a)
<1>1. cr \in [Pools -> ClaimWorker] /\ cr[p] \in ClaimWorker
  BY DEF TypeOK
<1>2. /\ cr[p].attempts \in [Goroutines -> Attempt] /\ a \in Attempt /\ a.block \in Blocks
      /\ cr[p].pc = "claim" /\ a.st \in {"first", "probe"} /\ Claimed(cr[p]) \subseteq Owned(p)
  BY <1>1 DEF ClaimWorker, Attempt, CreateBlock, Consistent
<1>3. cr'[p] = [cr[p] EXCEPT !.attempts = [cr[p].attempts EXCEPT ![k] = next]]
  BY <1>1, <1>2 DEF CreateBlock, Continue, ClaimWorker
<1>4. /\ next.st \in {"ok", "probe", "err"}
      /\ next.st = "ok" => next.block = a.block /\ holder[a.block] = NoPool
  <2>1. a \in [block : Blocks, st : {"first", "probe"}]
    BY <1>2 DEF Attempt
  <2> HIDE DEF a
  <2>2. QED
    BY <2>1 DEF AfterCreate
<1> HIDE DEF next
<1>5. /\ cr'[p].pc = "claim" /\ cr'[p].blocks = cr[p].blocks /\ cr'[p].n = cr[p].n
      /\ cr'[p].attempts[k] = next
      /\ \A i \in Goroutines : i # k => cr'[p].attempts[i] = cr[p].attempts[i]
  BY <1>1, <1>2, <1>3 DEF ClaimWorker
<1>6. next.st = "ok" => next.block \notin Claimed(cr[p])
  BY <1>2, <1>4, NoPoolAssumption DEF Owned
<1>7. \A i \in Goroutines :
        cr[p].attempts[i].st = "ok" => cr[p].attempts[i].block \in Claimed(cr[p])
  <2>1. ASSUME NEW i \in Goroutines, cr[p].attempts[i].st = "ok"
        PROVE  cr[p].attempts[i].block \in Claimed(cr[p])
    <3>1. cr[p].attempts[i] = [block |-> cr[p].attempts[i].block, st |-> "ok"]
          /\ cr[p].attempts[i].block \in Blocks
      BY <1>2, <2>1 DEF Attempt
    <3>2. QED
      BY <3>1 DEF Claimed
  <2>2. QED
    BY <2>1
<1>8. cr[p].blocks \subseteq Claimed(cr[p])
  BY DEF Claimed
<1>9. ASSUME NEW i \in Goroutines, NEW j \in Goroutines, cr'[p].attempts[i].st = "ok"
      PROVE  /\ cr'[p].attempts[i].block \notin cr[p].blocks
             /\ i # j /\ cr'[p].attempts[j].st = "ok"
                  => cr'[p].attempts[i].block # cr'[p].attempts[j].block
  <2>1. CASE i = k
    BY <1>5, <1>6, <1>7, <1>8, <1>9, <2>1
  <2>2. CASE i # k
    <3>1. cr[p].attempts[i].st = "ok" /\ cr[p].attempts[i].block \notin cr[p].blocks
          /\ cr'[p].attempts[i] = cr[p].attempts[i]
      BY <1>2, <1>5, <1>9, <2>2 DEF Gathering
    <3>2. CASE j = k
      BY <1>5, <1>6, <1>7, <3>1, <3>2
    <3>3. CASE j # k
      BY <1>2, <1>5, <3>1, <3>3 DEF Gathering
    <3>4. QED
      BY <3>1, <3>2, <3>3
  <2>3. QED
    BY <2>1, <2>2
<1>10. \A i \in Goroutines :
         i <= BlocksFor(cr[p].n - Size(cr[p].blocks) * BlockSize) => cr'[p].attempts[i].st # "unused"
  BY <1>2, <1>4, <1>5 DEF Gathering
<1>11. /\ cr[p].n > Size(cr[p].blocks) * BlockSize
       /\ BlocksFor(cr[p].n - Size(cr[p].blocks) * BlockSize) <= NumBlocks
  BY <1>2 DEF Gathering
<1>12. QED
  BY <1>5, <1>9, <1>10, <1>11 DEF Gathering

\* scaleUp claims only when the listed IPBlocks are too few, with a goroutine for each
\* one missing.
LEMMA ListUpGathers ==
  ASSUME TypeOK, NEW p \in Pools, ListUp(p)
  PROVE  Gathering(p)'
<1> DEFINE listed == Owned(p)
           expect == BlocksFor(cr[p].n - Size(listed) * BlockSize)
<1>1. cr \in [Pools -> ClaimWorker] /\ cr[p] \in ClaimWorker
  BY DEF TypeOK
<1>2. CASE cr[p].n <= Size(listed) * BlockSize
           /\ Continue(p, [cr[p] EXCEPT !.pc = "patchUp", !.view = {}, !.blocks = listed])
  <2>1. cr'[p].pc = "patchUp" /\ cr'[p].n = cr[p].n /\ cr'[p].blocks = listed
    BY <1>1, <1>2 DEF Continue, ClaimWorker
  <2>2. QED
    BY <1>2, <2>1 DEF Gathering
<1>3. ASSUME cr[p].n > Size(listed) * BlockSize, expect <= Size(cr[p].view),
             NEW a \in StartAttempts(cr[p].view, expect),
             Continue(p, [cr[p] EXCEPT !.pc = "claim", !.blocks = listed, !.attempts = a])
      PROVE  Gathering(p)'
  <2>1. cr'[p].pc = "claim" /\ cr'[p].n = cr[p].n /\ cr'[p].blocks = listed /\ cr'[p].attempts = a
    BY <1>1, <1>3 DEF Continue, ClaimWorker
  <2>2. /\ Size(cr[p].view) \in Nat /\ Size(cr[p].view) <= NumBlocks
        /\ cr[p].n - Size(listed) * BlockSize \in Nat \ {0}
    <3>1. cr[p].view \in SUBSET Blocks /\ listed \in SUBSET Blocks /\ cr[p].n \in Nat
      BY <1>1 DEF ClaimWorker, Owned
    <3>2. Size(cr[p].view) \in Nat /\ Size(listed) \in Nat
      BY <3>1, SizesAreNatural DEF Size
    <3>3. IsFiniteSet(Blocks) /\ Cardinality(Blocks) = NumBlocks
      BY UpTo, NumBlocksAssumption DEF Blocks
    <3>4. Size(cr[p].view) <= NumBlocks
      BY <3>1, <3>3, FS_Subset DEF Size
    <3>5. Size(listed) * BlockSize \in Nat
      BY <3>2, BlockSizeAssumption
    <3>6. QED
      BY <1>3, <3>1, <3>2, <3>4, <3>5
  <2>3. expect \in Nat
    BY <2>2, BlocksForEnough
  <2> HIDE DEF expect
  <2>4. PICK index \in [1 .. expect -> cr[p].view] :
          a = [i \in Goroutines |->
                 IF i <= expect THEN [block |-> index[i], st |-> "first"] ELSE NoAttempts[i]]
    BY <1>3 DEF StartAttempts
  <2>5. \A i \in Goroutines : a[i].st = IF i <= expect THEN "first" ELSE "unused"
    BY <2>4 DEF NoAttempts
  <2>6. expect <= NumBlocks
    BY <1>3, <2>2, <2>3, NumBlocksAssumption
  <2>7. QED
    BY <1>3, <2>1, <2>5, <2>6 DEF Gathering, expect
<1>4. CASE Fail(p)
  BY <1>1, <1>4 DEF Fail, Continue, Gathering, IdleCR
<1>5. QED
  BY <1>2, <1>3, <1>4 DEF ListUp
\* What a Reconcile starts with: the replicas as they are, and the next call for them.
LEMMA AllocationWorks ==
  ASSUME TypeOK, NEW p \in Pools, NEW rp \in PoolObj,
         pool'[p] = rp, cr'[p] = Allocation(p, rp), claim'[p] = claim[p]
  PROVE  Working(p)' /\ Gathering(p)'
<1> DEFINE n    == claim[p].replicas
           step == ScaleStep(p, n, rp.ranges, rp.used)
<1>1. n \in Nat /\ Size(rp.ranges) \in Nat
  BY SizesAreNatural DEF TypeOK, ClaimObj, PoolObj, Size
<1>2. CASE step = "finish"
  <2>1. cr'[p].pc = "finish"
    BY <1>2 DEF Allocation, IdleCR
  <2>2. Sated(p)'
    BY <1>2 DEF Sated
  <2>3. QED
    BY <2>1, <2>2 DEF Working, Gathering
<1>3. CASE step = "listUp"
  <2>1. cr'[p].pc = "listUp" /\ cr'[p].n = n
    BY <1>3 DEF Allocation, IdleCR
  <2>2. n > Size(rp.ranges)
    BY <1>1, <1>3 DEF ScaleStep
  <2>3. QED
    BY <2>1, <2>2 DEF Working, Gathering
<1>4. CASE step = "patchDown"
  <2>1. cr'[p].pc = "patchDown" /\ cr'[p].n = n /\ cr'[p].free = rp.free /\ cr'[p].used = rp.used
    BY <1>4 DEF Allocation, IdleCR
  <2>2. n < Size(rp.ranges)
    BY <1>1, <1>4 DEF ScaleStep
  <2>3. QED
    BY <2>1, <2>2 DEF Working, Gathering
<1>5. step \in {"finish", "listUp", "patchDown"}
  BY <1>1 DEF ScaleStep
<1>6. QED
  BY <1>2, <1>3, <1>4, <1>5

\* A Reconcile that has patched the ranges, or found nothing to do, is in its last part.
LEMMA TailPc ==
  ASSUME NEW ranges, NEW B, NEW n
  PROVE  /\ Release(ranges, B).pc \in {"finish", "release"}
         /\ ReleaseSurplus(n, ranges, B).pc \in {"finish", "release"}
BY ReleaseSpares DEF GoesOn

\* The Reconcile of a claim works for it until it has what it asks for.
LEMMA ClaimStepServes ==
  ASSUME TypeOK, NEW p \in Pools, Consistent(p), ClaimStep(p), Attended(p), Gathering(p)
  PROVE  Attended(p)' /\ Gathering(p)'
<1> USE DEF objects, caches, workers
<1>1. /\ cr \in [Pools -> ClaimWorker] /\ pool \in [Pools -> PoolObj]
      /\ claim \in [Pools -> ClaimObj] /\ claimQ \subseteq Pools
      /\ cr[p] \in ClaimWorker /\ pool[p] \in PoolObj /\ claim[p] \in ClaimObj
      /\ claim[p].replicas \in Nat
  BY DEF TypeOK, ClaimObj
\* A step that leaves the objects alone and goes on with the same part of the Reconcile.
<1>2. ASSUME UNCHANGED <<claim, pool, poolCache, claimQ>>,
             cr[p].pc \in {"deleteAll", "listDown", "release"},
             cr'[p].pc \in {"finish", "release"}
      PROVE  Attended(p)' /\ Gathering(p)'
  <2>1. Sated(p)' = Sated(p) /\ StatusOnItsWay(p)' = StatusOnItsWay(p)
    BY <1>2 DEF Sated, StatusOnItsWay
  <2>2. Working(p) => Working(p)'
    BY <1>2, <2>1 DEF Working
  <2>3. QED
    BY <1>2, <2>1, <2>2 DEF Attended, Gathering
\* A step whose patch satisfies the claim if it was attended to by this Reconcile.
<1>3. ASSUME NEW ranges, PatchRanges(p, ranges), UNCHANGED <<claim, poolCache, claimQ>>,
             cr'[p].pc \in {"deleteAll", "listDown", "finish", "release"},
             Working(p) => Sated(p)'
      PROVE  Attended(p)' /\ Gathering(p)'
  <2>1. pool'[p].free = pool[p].free /\ pool'[p].used = pool[p].used
    BY <1>1, <1>3 DEF PatchRanges, PoolObj
  <2>2. StatusOnItsWay(p)' = StatusOnItsWay(p)
    BY <1>3, <2>1 DEF StatusOnItsWay
  <2>3. Working(p) => Working(p)'
    BY <1>3 DEF Working
  <2>4. QED
    BY <1>3, <2>2, <2>3 DEF Attended, Gathering
\* A step that fails, or that finds the claim gone.
<1>4. ASSUME Fail(p)
      PROVE  Attended(p)' /\ Gathering(p)'
  <2>1. cr'[p] = IdleCR /\ p \in claimQ'
    BY <1>1, <1>4 DEF Fail, Continue
  <2>2. QED
    BY <2>1 DEF Attended, Gathering, IdleCR
<1>5. CASE ForgetClaim(p) \/ RemoveClaimFinalizer(p)
  <2>1. claim'[p].st # "live" /\ cr' = cr
    BY <1>1, <1>5 DEF ForgetClaim, RemoveClaimFinalizer, ClaimExists, ClaimObj
  <2>2. QED
    BY <2>1 DEF Attended, Gathering
<1>6. CASE MarkPool(p)
  <2>1. /\ cr'[p] = Allocation(p, NewPoolObj) /\ pool'[p] = NewPoolObj /\ claim' = claim
        /\ NewPoolObj \in PoolObj
    BY <1>1, <1>6, ConstantTypes DEF MarkPool, Continue
  <2>2. QED
    BY <2>1, AllocationWorks DEF Attended
<1>7. CASE GetPool(p)
  <2>1. cr'[p] = Allocation(p, pool[p]) /\ pool' = pool /\ claim' = claim
    BY <1>1, <1>7 DEF GetPool, Continue
  <2>2. QED
    BY <1>1, <2>1, AllocationWorks DEF Attended
<1>8. CASE PatchDown(p)
  <2> DEFINE ranges == DownRanges(cr[p])
             next   == [IdleCR EXCEPT !.pc = IF ranges = {} THEN "deleteAll" ELSE "listDown",
                                      !.n = cr[p].n, !.ranges = ranges]
             n      == claim[p].replicas
  <2>1. /\ cr[p].pc = "patchDown" /\ PatchRanges(p, ranges) /\ cr'[p] = next
        /\ UNCHANGED <<claim, poolCache, claimQ>>
    BY <1>1, <1>8 DEF PatchDown, Continue
  <2>2. next.pc \in {"deleteAll", "listDown"}
    BY DEF IdleCR
  <2>3. cr[p].ranges = pool[p].ranges
    BY <2>1 DEF Consistent
  <2>4. pool'[p] = [pool[p] EXCEPT !.ranges = ranges]
    BY <1>1, <2>1 DEF PatchRanges
  <2>5. pool'[p].ranges = ranges /\ pool'[p].free = pool[p].free
    BY <1>1, <2>4 DEF PoolObj
  <2>6. ASSUME Working(p) PROVE Sated(p)'
    <3>1. cr[p].n = n /\ cr[p].free = pool[p].free /\ cr[p].used = pool[p].used
          /\ n < Size(pool[p].ranges)
      BY <2>1, <2>6 DEF Working
    <3>2. ranges = DownTo(n, pool[p])
      BY <2>3, <3>1 DEF DownTo, DownRanges
    <3> HIDE DEF ranges
    <3>3. pool[p].free \subseteq ranges
            => n < Size(ranges) /\ DownTo(n, pool'[p]) = ranges
      BY <1>1, <2>4, <3>1, <3>2, DownIsSated
    <3>4. QED
      BY <2>1, <2>5, <3>3 DEF Sated
  <2> HIDE DEF ranges, next
  <2>7. QED
    BY <1>3, <2>1, <2>2, <2>6
<1>9. CASE DeleteAllBlocks(p)
  <2>1. cr'[p] = Release({}, Owned(p)) /\ cr[p].pc = "deleteAll"
        /\ UNCHANGED <<claim, pool, poolCache, claimQ>>
    BY <1>1, <1>9 DEF DeleteAllBlocks, Continue
  <2>2. QED
    BY <1>2, <2>1, TailPc
<1>10. CASE ListDown(p)
  <2>1. cr'[p] = ReleaseSurplus(cr[p].n, cr[p].ranges, Owned(p)) /\ cr[p].pc = "listDown"
        /\ UNCHANGED <<claim, pool, poolCache, claimQ>>
    BY <1>1, <1>10 DEF ListDown, Continue
  <2>2. QED
    BY <1>2, <2>1, TailPc
<1>11. ASSUME NEW b \in Blocks, DeleteBlock(p, b)
       PROVE  Attended(p)' /\ Gathering(p)'
  <2>1. cr[p].pc = "release" /\ UNCHANGED <<claim, pool, poolCache>>
    BY <1>11 DEF DeleteBlock
  <2>2. CASE Fail(p)
    BY <1>4, <2>2
  <2>3. ASSUME NEW left, NEW failed,
               Continue(p, [cr[p] EXCEPT !.blocks = left, !.failed = failed]), UNCHANGED claimQ
        PROVE  Attended(p)' /\ Gathering(p)'
    <3>1. cr'[p].pc = "release"
      BY <1>1, <2>1, <2>3 DEF Continue, ClaimWorker
    <3>2. QED
      BY <1>2, <2>1, <2>3, <3>1
  <2>4. CASE Continue(p, Finishing(cr[p].ranges)) /\ UNCHANGED claimQ
    <3>1. cr'[p].pc = "finish"
      BY <1>1, <2>4 DEF Continue, Finishing, IdleCR
    <3>2. QED
      BY <1>2, <2>1, <2>4, <3>1
  <2>5. QED
    BY <1>11, <2>2, <2>3, <2>4 DEF DeleteBlock
<1>12. CASE ListUp(p)
  <2>1. Gathering(p)'
    BY <1>12, ListUpGathers
  <2>2. cr[p].pc = "listUp" /\ UNCHANGED <<claim, pool, poolCache>>
    BY <1>12 DEF ListUp
  <2>3. CASE Fail(p)
    BY <1>4, <2>3
  <2>4. CASE ~Fail(p)
    <3>1. UNCHANGED claimQ /\ cr'[p].pc \in {"patchUp", "claim"} /\ cr'[p].n = cr[p].n
      <4>1. CASE Continue(p, [cr[p] EXCEPT !.pc = "patchUp", !.view = {}, !.blocks = Owned(p)])
                 /\ UNCHANGED claimQ
        BY <1>1, <4>1 DEF Continue, ClaimWorker
      <4>2. ASSUME NEW a,
                   Continue(p, [cr[p] EXCEPT !.pc = "claim", !.blocks = Owned(p), !.attempts = a]),
                   UNCHANGED claimQ
            PROVE  cr'[p].pc = "claim" /\ cr'[p].n = cr[p].n
        BY <1>1, <4>2 DEF Continue, ClaimWorker
      <4>3. QED
        BY <1>12, <2>4, <4>1, <4>2 DEF ListUp
    <3>2. Working(p) => Working(p)'
      BY <2>2, <3>1 DEF Working
    <3>3. StatusOnItsWay(p)' = StatusOnItsWay(p)
      BY <2>2 DEF StatusOnItsWay
    <3>4. QED
      BY <2>1, <2>2, <3>1, <3>2, <3>3 DEF Attended
  <2>5. QED
    BY <2>3, <2>4
<1>13. ASSUME NEW i \in Goroutines, CreateBlock(p, i)
       PROVE  Attended(p)' /\ Gathering(p)'
  <2>1. Gathering(p)'
    BY <1>13, CreateBlockGathers
  <2>2. cr[p].pc = "claim" /\ UNCHANGED <<claim, pool, poolCache, claimQ>>
    BY <1>13 DEF CreateBlock
  <2>3. cr'[p].pc = "claim" /\ cr'[p].n = cr[p].n
    BY <1>1, <1>13, <2>2 DEF CreateBlock, Continue, ClaimWorker
  <2>4. Working(p) => Working(p)'
    BY <2>2, <2>3 DEF Working
  <2>5. StatusOnItsWay(p)' = StatusOnItsWay(p)
    BY <2>2 DEF StatusOnItsWay
  <2>6. QED
    BY <2>1, <2>2, <2>4, <2>5 DEF Attended
<1>14. CASE ClaimBlocksFailed(p)
  BY <1>4, <1>14 DEF ClaimBlocksFailed
<1>15. CASE PatchUp(p)
  <2> DEFINE ranges == UpRanges(cr[p])
             next   == ReleaseSurplus(cr[p].n, ranges, Claimed(cr[p]))
             n      == claim[p].replicas
  <2>1. /\ cr[p].pc \in {"claim", "patchUp"} /\ PatchRanges(p, ranges) /\ cr'[p] = next
        /\ UNCHANGED <<claim, poolCache, claimQ>>
    BY <1>1, <1>15 DEF PatchUp, Continue, AllReturned
  <2>2. next.pc \in {"finish", "release"}
    BY TailPc
  <2>3. cr[p].ranges = pool[p].ranges
    BY <2>1 DEF Consistent
  <2>4. pool'[p].ranges = ranges
    BY <1>1, <2>1 DEF PatchRanges, PoolObj
  <2>5. cr[p].n <= Size(Claimed(cr[p])) * BlockSize
    BY <1>1, <1>15, ClaimedIsEnough DEF PatchUp
  <2>6. ASSUME Working(p) PROVE Sated(p)'
    <3>1. cr[p].n = n /\ n > Size(pool[p].ranges)
      BY <2>1, <2>6 DEF Working
    <3>2. Size(cr[p].ranges) < cr[p].n
      <4>1. Size(pool[p].ranges) \in Nat
        BY <1>1, SizesAreNatural DEF PoolObj, Size
      <4>2. QED
        BY <1>1, <2>3, <3>1, <4>1
    <3>3. Size(ranges) = n
      BY <1>1, <2>5, <3>1, <3>2, UpRangesSize
    <3> HIDE DEF ranges
    <3>4. QED
      <4>1. ScaleStep(p, n, ranges, pool'[p].used) = "finish"
        BY <1>1, <3>3 DEF ScaleStep
      <4>2. QED
        BY <2>1, <2>4, <4>1 DEF Sated
  <2> HIDE DEF ranges, next
  <2>7. QED
    BY <1>3, <2>1, <2>2, <2>6
<1>16. CASE Finish(p)
  <2>1. /\ cr[p].pc = "finish" /\ cr'[p] = IdleCR /\ UNCHANGED <<pool, poolCache>>
        /\ pool[p].st = "live" /\ cr[p].ranges = pool[p].ranges
        /\ claim'[p].poolSize = Size(pool[p].ranges)
        /\ claim'[p].replicas = claim[p].replicas /\ claim'[p].st = claim[p].st
        /\ p \in claimQ => p \in claimQ'
    BY <1>1, <1>16 DEF Finish, Continue, Consistent, ClaimObj
  <2>2. cr'[p].pc = "idle"
    BY <2>1 DEF IdleCR
  <2>3. Sated(p)' = Sated(p)
    BY <2>1 DEF Sated
  <2>4. Working(p) => Working(p)'
    BY <2>1, <2>2, <2>3 DEF Working
  <2>5. StatusOnItsWay(p)' = StatusOnItsWay(p)
    BY <2>1 DEF StatusOnItsWay
  <2>6. QED
    BY <2>1, <2>2, <2>4, <2>5 DEF Attended, Gathering
<1>17. QED
  BY <1>5, <1>6, <1>7, <1>8, <1>9, <1>10, <1>11, <1>12, <1>13, <1>14, <1>15, <1>16
  DEF ClaimStep

-----------------------------------------------------------------------------
(* The invariant, and what it says at rest.                                *)

LEMMA ServedInit == Init => ServedInv
<1> SUFFICES ASSUME Init PROVE ServedInv
  OBVIOUS
<1>1. \A p \in Pools : claim[p].st = "unborn" /\ cr[p] = IdleCR
  BY DEF Init, ClusterInit
<1>2. QED
  BY <1>1, RestInit DEF ServedInv, Attended, Gathering, IdleCR

LEMMA ServedStep == ServedInv /\ [Next]_vars => ServedInv'
<1> SUFFICES ASSUME ServedInv, [Next]_vars PROVE ServedInv'
  OBVIOUS
<1>1. RestInv /\ TypeOK /\ \A q \in Pools : Consistent(q) /\ Attended(q) /\ Gathering(q)
  BY NameByName DEF ServedInv, RestInv, OwnershipInv
<1>2. RestInv'
  BY <1>1, RestStep
<1>3. ASSUME NEW q \in Pools PROVE Attended(q)' /\ Gathering(q)'
  <2>1. CASE Users \/ Platform \/ Failures
    BY <1>1, <2>1, EnvironmentServes
  <2>2. ASSUME NEW p \in Pools, ClaimStep(p)
        PROVE  Attended(q)' /\ Gathering(q)'
    <3>1. CASE q = p
      BY <1>1, <2>2, <3>1, ClaimStepServes
    <3>2. CASE q # p
      <4>1. /\ cr'[q] = cr[q] /\ pool'[q] = pool[q]
            /\ poolCache'[q] = poolCache[q] /\ claim'[q] = claim[q]
        BY <1>1, <2>2, <3>2, ClaimStepIsLocal
      <4>2. q \in claimQ => q \in claimQ'
        BY <2>2, <3>2 DEF ClaimStep, ForgetClaim, RemoveClaimFinalizer, MarkPool, GetPool,
           PatchDown, DeleteAllBlocks, ListDown, DeleteBlock, ListUp, CreateBlock,
           ClaimBlocksFailed, PatchUp, Finish, Dequeue, Fail
      <4>3. QED
        BY <1>1, <4>1, <4>2, ServedUntouched
    <3>3. QED
      BY <3>1, <3>2
  <2>3. ASSUME NEW p \in Pools, PoolStep(p)
        PROVE  Attended(q)' /\ Gathering(q)'
    BY <1>1, <2>3, PoolStepServes
  <2>4. CASE UNCHANGED vars
    BY <1>1, <2>4, ServedUntouched DEF vars, objects, caches, workers
  <2>5. QED
    BY <2>1, <2>2, <2>3, <2>4 DEF Next, Controllers
<1>4. QED
  BY <1>2, <1>3 DEF ServedInv

\* At rest a satisfied claim has the addresses it asks for, and none too many if no Pod
\* keeps them from being given up.
LEMMA RestIsService == ServedInv /\ StatusExact => ClaimServed
<1> SUFFICES ASSUME ServedInv, StatusExact, AtRest, NEW p \in Pools, claim[p].st = "live"
             PROVE  /\ pool[p].st = "live"
                    /\ claim[p].poolSize = Size(pool[p].ranges)
                    /\ Size(pool[p].ranges) >= claim[p].replicas
                    /\ Converged(p) => Size(pool[p].ranges) = claim[p].replicas
  BY DEF ClaimServed
<1> DEFINE ranges == pool[p].ranges
           n      == claim[p].replicas
<1>1. p \notin claimQ /\ ~StatusOnItsWay(p) /\ cr[p].pc = "idle"
  BY DEF AtRest, StatusOnItsWay, IdleCR
<1>2. Working(p)
  BY <1>1 DEF ServedInv, Attended
<1>3. pool[p].st = "live" /\ claim[p].poolSize = Size(ranges) /\ Sated(p)
  BY <1>1, <1>2 DEF Working
<1>4. pool[p].free = ranges \ ips[p] /\ pool[p].used = Cardinality(ips[p])
  BY <1>3 DEF StatusExact
<1>5. /\ n \in Nat /\ ranges \in SUBSET IPs /\ ips[p] \in SUBSET IPs
      /\ IsFiniteSet(ranges) /\ Size(ranges) \in Nat
      /\ IsFiniteSet(ips[p]) /\ Cardinality(ips[p]) \in Nat
  BY SizesAreNatural DEF ServedInv, RestInv, OwnershipInv, TypeOK, ClaimObj, PoolObj, Size
<1>6. CASE ScaleStep(p, n, ranges, pool[p].used) = "finish"
  <2>1. n <= Size(ranges) /\ (n < Size(ranges) => p \in AutoCreated /\ pool[p].used # n)
    BY <1>4, <1>5, <1>6 DEF ScaleStep, NoCount
  <2>2. QED
    BY <1>3, <1>4, <1>5, <2>1 DEF Converged
<1>7. CASE n < Size(ranges) /\ DownTo(n, pool[p]) = ranges
  <2>1. ranges = (ranges \ pool[p].free) \cup
                 (IF pool[p].used < n THEN Lowest(pool[p].free, n - pool[p].used) ELSE {})
    BY <1>7 DEF DownTo, DownRanges
  <2>2. ASSUME Converged(p) PROVE FALSE
    <3>1. CASE p \in AutoCreated
      <4>1. pool[p].used = n
        BY <1>4, <2>2, <3>1 DEF Converged
      <4>2. ranges \subseteq ips[p]
        BY <1>4, <1>5, <2>1, <4>1
      <4>3. Size(ranges) <= n
        <5>1. Cardinality(ranges) <= Cardinality(ips[p])
          BY <1>5, <4>2, FS_Subset
        <5>2. QED
          BY <1>4, <1>5, <4>1, <5>1 DEF Size
      <4>4. QED
        BY <1>5, <1>7, <4>3
    <3>2. CASE p \notin AutoCreated
      <4>1. ips[p] = {}
        BY <2>2, <3>2 DEF Converged
      <4>2. pool[p].used = 0 /\ pool[p].free = ranges
        BY <1>4, <4>1, FS_EmptySet
      <4>3. ranges = IF 0 < n THEN Lowest(ranges, n) ELSE {}
        <5>1. ~(0 < n) \/ n - 0 = n
          BY <1>5
        <5>2. ranges = {} \cup (IF 0 < n THEN Lowest(ranges, n - 0) ELSE {})
          BY <2>1, <4>2
        <5>3. QED
          BY <5>1, <5>2
      <4>4. ranges \in SUBSET Nat
        BY <1>5, NumBlocksAssumption, BlockSizeAssumption DEF IPs
      <4>5. CASE 0 < n
        <5>1. Size(Lowest(ranges, n)) = n
          <6> HIDE DEF ranges
          <6>1. QED
            BY <1>5, <1>7, <4>4, LowestSize DEF Size
        <5>2. QED
          BY <1>5, <1>7, <4>3, <4>5, <5>1
      <4>6. CASE ~(0 < n)
        BY <1>5, <1>7, <4>3, <4>6, FS_EmptySet DEF Size
      <4>7. QED
        BY <4>5, <4>6
    <3>3. QED
      BY <3>1, <3>2
  <2>3. QED
    BY <1>3, <1>5, <1>7, <2>2
<1>8. QED
  BY <1>3, <1>4, <1>6, <1>7 DEF Sated

\* Whatever users, Pods, failures and the order of watch events did, work that ends leaves
\* no live claim short: no event that the claim controller does not watch, no stale status
\* and no half-done Reconcile is what a claim at rest would still need.
THEOREM ClaimsAreServed == Spec => []ClaimServed
<1>1. Spec => []ServedInv
  BY ServedInit, ServedStep, PTL DEF Spec
<1>2. QED
  BY <1>1, RestIsService, StatusSettles, PTL

-----------------------------------------------------------------------------
(* What the Subnet controller and the daemons are told are only hints.     *)

\* The status of the Subnet that the claim controller has cached, and the status.free
\* that the daemons have, may be anything.
AnyHint ==
    /\ subnet' \in [ready : BOOLEAN, free : SUBSET Blocks]
    /\ daemonFree' \in [Pools -> SUBSET IPs]
    /\ UNCHANGED <<objects, poolCache, ipCache, claimQ, poolQ, workers, budget>>

HintedSpec == Init /\ [][Next \/ AnyHint]_vars
HintedPacedSpec == Init /\ [][PacedNext \/ AnyHint]_vars

\* Neither is in the invariants but by its type.
LEMMA AnyHintOwns ==
  ASSUME OwnershipInv, AnyHint
  PROVE  OwnershipInv'
<1>1. TypeOK /\ \A q \in Pools : Consistent(q)
  BY NameByName DEF OwnershipInv
<1>2. TypeOK'
  BY <1>1 DEF TypeOK, AnyHint, objects, workers
<1>3. ASSUME NEW q \in Pools PROVE Consistent(q)'
  BY <1>1, Untouched DEF AnyHint, objects, workers, Owned
<1>4. QED
  BY <1>2, <1>3, NameByNamePrimed

\* ... nor in what is claimed at rest.
LEMMA AnyHintServes ==
  ASSUME ServedInv, AnyHint
  PROVE  ServedInv'
<1>1. UNCHANGED <<claim, pool, poolCache, ipCache, claimQ, poolQ, cr, pr>>
  BY DEF AnyHint, objects, workers
<1>2. ASSUME NEW q \in Pools
      PROVE  Described(q)' /\ Pristine(q)' /\ Attended(q)' /\ Gathering(q)'
  BY <1>1, StatusUntouched, ServedUntouched DEF ServedInv, RestInv
<1>3. OwnershipInv'
  BY AnyHintOwns DEF ServedInv, RestInv
<1>4. QED
  BY <1>2, <1>3 DEF ServedInv, RestInv

\* However late, or wrong, the Subnet controller counts and the IPPool's status.free reaches
\* a daemon: no IPBlock leaks, the statuses of IPPools settle, and a claim that comes to
\* rest has what it asks for.  Only Create decides who has an IPBlock.
THEOREM StatusIsOnlyAHint == HintedSpec => []NoBlockLeak /\ []StatusExact /\ []ClaimServed
<1>1. ServedInv /\ [Next \/ AnyHint]_vars => ServedInv'
  BY ServedStep, AnyHintServes
<1>2. ServedInv => NoBlockLeak /\ StatusExact
  BY RestIsExact DEF ServedInv, RestInv, OwnershipInv
<1>3. QED
  BY <1>1, <1>2, ServedInit, RestIsService, PTL DEF HintedSpec

\* ... and IPPools lease their IPBlocks, and return them, as Leasing says.
THEOREM LeasesWithoutHints == HintedPacedSpec => Leases
<1>1. ASSUME PacedInv, AnyHint PROVE PacedInv' /\ UNCHANGED <<holder, Offers>>
  <2>1. UNCHANGED <<pool, holder, cr>>
    BY <1>1 DEF AnyHint, objects, workers
  <2>2. OwnershipInv'
    BY <1>1, AnyHintOwns DEF PacedInv
  <2>3. FreeIsCurrent' /\ RangesBacked' /\ UNCHANGED <<holder, Offers>>
    BY <1>1, <2>1 DEF PacedInv, FreeIsCurrent, RangesBacked, Offers, Owned
  <2>4. QED
    BY <2>2, <2>3 DEF PacedInv
<1>2. PacedInv /\ [PacedNext \/ AnyHint]_vars =>
        PacedInv' /\ [Lease!Next]_<<holder, Offers>>
  BY <1>1, StepPaced, StepLeases
<1>3. QED
  BY <1>2, InitPaced, InitLeases, PTL DEF HintedPacedSpec, Leases, Lease!Spec
=============================================================================
