-------------------------- MODULE SubnettingProofs --------------------------
(***************************************************************************)
(* Theorems about Subnetting: for any address space, Subnets, requests,    *)
(* claims and numbers of changes, scale-downs and restarts.                *)
(***************************************************************************)
EXTENDS Subnetting, Counting

-----------------------------------------------------------------------------
(* Numbers and sets of addresses.                                          *)

\* A whole number of IPBlocks.
LEMMA Division == ASSUME NEW n \in Nat, NEW size \in Nat \ {0} PROVE n \div size \in Nat
OBVIOUS

\* What is left of a budget, and of a Reconcile, after one of it has been used.
LEMMA OneLess ==
    /\ \A bud \in [requests : Nat, events : Nat] :
         /\ bud.requests > 0 => [bud EXCEPT !.requests = @ - 1] \in [requests : Nat, events : Nat]
         /\ bud.events > 0 => [bud EXCEPT !.events = @ - 1] \in [requests : Nat, events : Nat]
    /\ \A w \in Worker : w.left > 0 => [left |-> w.left - 1, view |-> w.view] \in Worker
BY DEF Worker

USE SpaceAssumption, CIDRsAssumption, NoPoolAssumption, SubnetNamesAssumption,
    ClaimsAssumption, LimitsAssumption, RequestsAssumption

\* There are finitely many addresses and CIDRs.
LEMMA Finite ==
    /\ \A S \in SUBSET Space : IsFiniteSet(S) /\ Cardinality(S) \in Nat
    /\ \A B \in SUBSET CIDRs : IsFiniteSet(B) /\ Cardinality(B) \in Nat
<1>1. ASSUME NEW S \in SUBSET Space PROVE IsFiniteSet(S) /\ Cardinality(S) \in Nat
  BY FS_Subset, FS_CardinalityType
<1>2. ASSUME NEW B \in SUBSET CIDRs PROVE IsFiniteSet(B) /\ Cardinality(B) \in Nat
  BY FS_Subset, FS_CardinalityType
<1> QED BY <1>1, <1>2

\* An IPBlock count is a natural number.
LEMMA MissingType ==
    ASSUME NEW c \in Claims, NEW size \in Nat \ {0}
    PROVE  Missing(c, size) \in Nat
<1> DEFINE n == Cardinality(Owned(c))
<1> DEFINE total == n * size
<1>1. n \in Nat
  BY Finite DEF Owned
<1>2. total \in Nat
  BY <1>1
<1>3. Replicas[c] \in Nat
  OBVIOUS
<1> HIDE DEF n, total
<1>4. CASE Replicas[c] > total
  <2>1. Replicas[c] - total + size - 1 \in Nat
    BY <1>2, <1>3, <1>4
  <2> QED BY <1>4, <2>1, <1>2, <1>3, Division DEF Missing, total, n
<1>5. CASE ~(Replicas[c] > total)
  BY <1>2, <1>3, <1>5 DEF Missing, total, n
<1> QED BY <1>4, <1>5

\* What getTotalIPRanges returns lies inside the CIDR.
LEMMA TotalInside ==
    ASSUME NEW spec \in SubnetSpec
    PROVE  Total(spec) \subseteq spec.cidr /\ Total(spec) \in SUBSET Space
BY DEF SubnetSpec, Total

\* A computed status has its type.
LEMMA StatusType ==
    ASSUME NEW spec \in SubnetSpec, NEW blocks \in SUBSET CIDRs
    PROVE  StatusFor(spec, blocks) \in SubnetStatus
<1> DEFINE total == Total(spec)
<1> DEFINE used == UNION blocks
<1>1. total \in SUBSET Space /\ used \in SUBSET Space /\ spec.size \in Nat \ {0}
  BY TotalInside DEF SubnetSpec
<1> HIDE DEF total, used
<1>2. /\ Cardinality(total) \div spec.size \in Nat
      /\ Cardinality(used) \div spec.size \in Nat
      /\ Cardinality(total \ used) \div spec.size \in Nat
  <2>1. \A S \in SUBSET Space : Cardinality(S) \div spec.size \in Nat
    <3> SUFFICES ASSUME NEW S \in SUBSET Space PROVE Cardinality(S) \div spec.size \in Nat
      OBVIOUS
    <3>1. Cardinality(S) \in Nat
      BY Finite
    <3> QED BY <1>1, <3>1, Division
  <2>2. total \ used \in SUBSET Space
    BY <1>1
  <2> QED BY <1>1, <2>1, <2>2
<1> QED BY <1>1, <1>2 DEF StatusFor, SubnetStatus, total, used

\* A merge patch of statuses is a status.
LEMMA MergeType ==
    ASSUME NEW stored \in SubnetStatus, NEW old \in SubnetStatus, NEW new \in SubnetStatus
    PROVE  MergeStatus(stored, old, new) \in SubnetStatus
<1>1. DOMAIN new = {"ready", "free", "total", "used", "spare"}
  BY DEF SubnetStatus
<1>2. \A field \in DOMAIN new : MergeStatus(stored, old, new)[field] \in {stored[field], new[field]}
  BY DEF MergeStatus
<1>3. MergeStatus(stored, old, new) =
        [ready |-> MergeStatus(stored, old, new).ready, free |-> MergeStatus(stored, old, new).free,
         total |-> MergeStatus(stored, old, new).total, used |-> MergeStatus(stored, old, new).used,
         spare |-> MergeStatus(stored, old, new).spare]
  BY <1>1 DEF MergeStatus
<1>4. /\ MergeStatus(stored, old, new).ready \in BOOLEAN
      /\ MergeStatus(stored, old, new).free \in SUBSET Space
      /\ MergeStatus(stored, old, new).total \in Nat
      /\ MergeStatus(stored, old, new).used \in Nat
      /\ MergeStatus(stored, old, new).spare \in Nat
  BY <1>1, <1>2 DEF SubnetStatus
<1> QED BY <1>3, <1>4 DEF SubnetStatus

-----------------------------------------------------------------------------
(* Types.                                                                  *)

\* Every variable starts with its type.
LEMMA TypeInit == Init => TypeOK
<1> SUFFICES ASSUME Init PROVE TypeOK
  OBVIOUS
<1> USE DEF Init, SubnetsInit
<1>1. (CHOOSE s \in SubnetNames : TRUE) \in SubnetNames
  OBVIOUS
<1>2. pool \in [Claims -> PoolObj]
  BY <1>1 DEF PoolObj
<1>3. Idle \in Worker
  BY DEF Idle, Worker
<1>4. budget \in [requests : Nat, events : Nat]
  OBVIOUS
<1> QED BY <1>2, <1>3, <1>4 DEF TypeOK, MaybeSubnet

\* What mutate makes of a request is a spec, if it is valid.
LEMMA MutatedType ==
    ASSUME NEW s \in SubnetNames, NEW r \in Requests[s]
    PROVE  Mutated(r) \in SubnetSpec
<1>1. r \in Request
  OBVIOUS
<1>2. VersionOf(r.cidr) \in Versions
  BY DEF VersionOf, Versions
<1> QED BY <1>1, <1>2 DEF Mutated, Request, SubnetSpec, DefaultSize

\* Steps of users keep the types: the webhook admits specs only.
LEMMA TypeUsers == TypeOK /\ Users => TypeOK'
<1> SUFFICES ASSUME TypeOK, Users PROVE TypeOK'
  OBVIOUS
<1> USE DEF objects, caches
<1>1. ASSUME NEW s \in SubnetNames, DeleteSubnet(s) PROVE TypeOK'
  <2>1. subnet[s] \in SubnetObj
    BY <1>1 DEF DeleteSubnet, TypeOK, MaybeSubnet, NoSubnet
  <2>2. [subnet[s] EXCEPT !.st = "terminating"] \in MaybeSubnet
    BY <2>1 DEF SubnetObj, MaybeSubnet
  <2>3. subnet' \in [SubnetNames -> MaybeSubnet]
    BY <1>1, <2>2 DEF DeleteSubnet, TypeOK
  <2> QED BY <1>1, <2>3 DEF DeleteSubnet, TypeOK
<1>2. ASSUME NEW s \in SubnetNames, NEW r \in Requests[s], AdmitCreate(s, r) \/ AdmitUpdate(s, r)
      PROVE  TypeOK'
  <2>1. Admit(s, r)
    BY <1>2 DEF AdmitCreate, AdmitUpdate
  <2>2. [name |-> s, old |-> subnet[s], spec |-> Mutated(r)]
          \in [name : SubnetNames, old : MaybeSubnet, spec : SubnetSpec]
    BY MutatedType DEF TypeOK
  <2>3. budget' \in [requests : Nat, events : Nat]
    <3>1. budget.requests > 0 /\ budget' = [budget EXCEPT !.requests = @ - 1]
      BY <2>1 DEF Admit
    <3> QED BY <3>1, OneLess DEF TypeOK
  <2> QED BY <2>1, <2>2, <2>3 DEF Admit, TypeOK
<1>3. ASSUME NEW q \in admitted, Store(q) PROVE TypeOK'
  <2>1. q.name \in SubnetNames /\ q.old \in MaybeSubnet /\ q.spec \in SubnetSpec
    BY DEF TypeOK
  <2>2. Exists(q.old) => [q.old EXCEPT !.spec = q.spec] \in MaybeSubnet
    BY <2>1 DEF MaybeSubnet, SubnetObj, NoSubnet, Exists
  <2>3. [st |-> "live", spec |-> q.spec, status |-> NoStatus] \in MaybeSubnet
    BY <2>1 DEF MaybeSubnet, SubnetObj, SubnetStatus, NoStatus
  <2>4. subnet' \in [SubnetNames -> MaybeSubnet]
    BY <1>3, <2>1, <2>2, <2>3 DEF Store, TypeOK
  <2> QED BY <1>3, <2>4 DEF Store, TypeOK
<1>4. ASSUME NEW c \in Claims, DeleteClaim(c) \/ RemovePool(c) PROVE TypeOK'
  <2>1. pool[c] \in PoolObj
    BY DEF TypeOK
  <2>2. /\ [pool[c] EXCEPT !.st = "terminating"] \in PoolObj
        /\ [pool[c] EXCEPT !.st = "gone"] \in PoolObj
    BY <2>1 DEF PoolObj
  <2>3. PICK st \in {"terminating", "gone"} : pool' = [pool EXCEPT ![c].st = st]
    BY <1>4 DEF DeleteClaim, RemovePool
  <2>4. pool' \in [Claims -> PoolObj]
    BY <2>2, <2>3 DEF TypeOK
  <2> QED BY <1>4, <2>4 DEF DeleteClaim, RemovePool, TypeOK
<1>5. ASSUME NEW c \in Claims, NEW b \in CIDRs, ScaleDown(c, b) PROVE TypeOK'
  <2>1. budget' \in [requests : Nat, events : Nat]
    <3>1. budget.events > 0 /\ budget' = [budget EXCEPT !.events = @ - 1]
      BY <1>5 DEF ScaleDown
    <3> QED BY <3>1, OneLess DEF TypeOK
  <2> QED BY <1>5, <2>1 DEF ScaleDown, TypeOK
<1>6. ASSUME NEW c \in Claims, NEW b \in CIDRs, ReleaseBlock(c, b) PROVE TypeOK'
  BY <1>6 DEF ReleaseBlock, TypeOK
<1> QED BY <1>1, <1>2, <1>3, <1>4, <1>5, <1>6 DEF Users

\* So do informers and restarts.
LEMMA TypePlatform == TypeOK /\ Platform => TypeOK'
<1> SUFFICES ASSUME TypeOK, Platform PROVE TypeOK'
  OBVIOUS
<1> USE DEF objects
<1>1. \A s \in SubnetNames : PoolsOf(s) \in SUBSET Claims /\ BlocksOf(s) \in SUBSET CIDRs
  BY DEF PoolsOf, BlocksOf
<1>2. ASSUME NEW s \in SubnetNames, SyncSubnet(s) PROVE TypeOK'
  BY <1>2 DEF SyncSubnet, TypeOK
<1>3. ASSUME NEW s \in SubnetNames, SyncBlocks(s) PROVE TypeOK'
  BY <1>1, <1>3 DEF SyncBlocks, TypeOK
<1>4. ASSUME NEW s \in SubnetNames, SyncPools(s) PROVE TypeOK'
  BY <1>1, <1>4 DEF SyncPools, TypeOK
<1>5. CASE RestartManager
  <2>1. budget' \in [requests : Nat, events : Nat] /\ Idle \in Worker
    <3>1. budget.events > 0 /\ budget' = [budget EXCEPT !.events = @ - 1]
      BY <1>5 DEF RestartManager
    <3> QED BY <3>1, OneLess DEF TypeOK, Idle, Worker
  <2> QED BY <1>1, <1>5, <2>1 DEF RestartManager, TypeOK
<1> QED BY <1>2, <1>3, <1>4, <1>5 DEF Platform

\* StartWork begins a Reconcile that counts IPBlocks.
LEMMA WorkType ==
    ASSUME TypeOK, NEW c \in Claims, NEW rn \in SubnetObj, StartWork(c, rn)
    PROVE  cr' \in [Claims -> Worker]
<1>1. rn.spec.size \in Nat \ {0} /\ BlocksIn(rn.status.free, rn.spec.size) \in SUBSET CIDRs
  BY DEF SubnetObj, SubnetSpec, BlocksIn
<1>2. Missing(c, rn.spec.size) \in Nat
  BY <1>1, MissingType
<1> QED BY <1>1, <1>2 DEF StartWork, TypeOK, Idle, Worker

\* And so do the controllers.
LEMMA TypeControllers == TypeOK /\ Controllers => TypeOK'
<1> SUFFICES ASSUME TypeOK, Controllers PROVE TypeOK'
  OBVIOUS
<1> USE DEF objects, caches
<1>1. ASSUME NEW s \in SubnetNames, ForgetSubnet(s) PROVE TypeOK'
  BY <1>1 DEF ForgetSubnet, Dequeue, TypeOK
<1>2. ASSUME NEW s \in SubnetNames, RemoveSubnetFinalizer(s) PROVE TypeOK'
  BY <1>2 DEF RemoveSubnetFinalizer, Dequeue, TypeOK, MaybeSubnet
<1>3. ASSUME NEW s \in SubnetNames, UpdateSubnetStatus(s) PROVE TypeOK'
  <2> DEFINE new == StatusFor(seen[s].spec, blocksSeen[s])
  <2> DEFINE merged == MergeStatus(subnet[s].status, seen[s].status, new)
  <2>1. subnet[s] \in SubnetObj /\ seen[s] \in SubnetObj
    BY <1>3 DEF UpdateSubnetStatus, TypeOK, MaybeSubnet, NoSubnet, Exists
  <2>2. new \in SubnetStatus
    BY <2>1, StatusType DEF SubnetObj, TypeOK
  <2>3. merged \in SubnetStatus
    BY <2>1, <2>2, MergeType DEF SubnetObj
  <2>4. subnet' = [subnet EXCEPT ![s].status = merged]
    BY <1>3 DEF UpdateSubnetStatus
  <2> HIDE DEF merged
  <2>5. [subnet[s] EXCEPT !.status = merged] \in MaybeSubnet
    BY <2>1, <2>3 DEF SubnetObj, MaybeSubnet
  <2>6. subnet' \in [SubnetNames -> MaybeSubnet]
    BY <2>4, <2>5 DEF TypeOK
  <2> QED BY <1>3, <2>6 DEF UpdateSubnetStatus, Dequeue, TypeOK
<1>4. ASSUME NEW c \in Claims, NEW s \in SubnetNames, MarkPool(c, s) PROVE TypeOK'
  <2>1. seen[s] \in SubnetObj
    BY <1>4 DEF MarkPool, Selects, Skipped, TypeOK, MaybeSubnet, NoSubnet, Exists
  <2>2. cr' \in [Claims -> Worker]
    BY <1>4, <2>1, WorkType DEF MarkPool
  <2> QED BY <1>4, <2>2 DEF MarkPool, TypeOK, PoolObj
<1>5. ASSUME NEW c \in Claims, GetPool(c) PROVE TypeOK'
  <2>1. seen[pool[c].subnet] \in SubnetObj
    BY <1>5 DEF GetPool, TypeOK, MaybeSubnet, NoSubnet, Exists, PoolObj
  <2>2. cr' \in [Claims -> Worker]
    BY <1>5, <2>1, WorkType DEF GetPool
  <2> QED BY <1>5, <2>2 DEF GetPool, TypeOK
<1>6. ASSUME NEW c \in Claims, NEW b \in CIDRs, CreateBlock(c, b) PROVE TypeOK'
  <2>1. cr[c] \in Worker /\ cr[c].left > 0
    BY <1>6 DEF CreateBlock, TypeOK
  <2> DEFINE less == [left |-> cr[c].left - 1, view |-> cr[c].view]
  <2>2. less \in Worker /\ Idle \in Worker
    BY <2>1, OneLess DEF Worker, Idle
  <2>3. cr' = [cr EXCEPT ![c] = IF cr[c].left = 1 THEN Idle ELSE less]
    BY <1>6 DEF CreateBlock
  <2> HIDE DEF less
  <2>4. cr' \in [Claims -> Worker]
    <3> DEFINE w == IF cr[c].left = 1 THEN Idle ELSE less
    <3>1. w \in Worker
      BY <2>2
    <3>2. cr \in [Claims -> Worker] /\ cr' = [cr EXCEPT ![c] = w]
      BY <2>3 DEF TypeOK
    <3> HIDE DEF w
    <3> QED BY <3>1, <3>2
  <2> QED BY <1>6, <2>4 DEF CreateBlock, TypeOK
<1>7. ASSUME NEW c \in Claims, EndClaim(c) PROVE TypeOK'
  BY <1>7 DEF EndClaim, TypeOK, Idle, Worker
<1> QED BY <1>1, <1>2, <1>3, <1>4, <1>5, <1>6, <1>7 DEF Controllers, SubnetStep, ClaimStep

\* The type invariant is inductive.
LEMMA TypeStep == TypeOK /\ [Next]_vars => TypeOK'
<1>1. TypeOK /\ UNCHANGED vars => TypeOK'
  BY DEF TypeOK, vars, objects, caches
<1> QED BY <1>1, TypeUsers, TypePlatform, TypeControllers DEF Next

\* Every variable keeps its type, whatever the pace of changes: no counter of a status
\* (cleanUpSubnet, updateStatus) or of a Reconcile (claimIPBlocks) becomes negative.
THEOREM TypeCorrect == Spec => []TypeOK
<1> QED BY TypeInit, TypeStep, PTL DEF Spec

-----------------------------------------------------------------------------
(* What steps do to Subnets.                                               *)

\* Only storing a request creates a Subnet or changes a spec.
LEMMA SpecsKept ==
    ASSUME TypeOK, Next, \A q \in admitted : ~Store(q)
    PROVE  \A t \in SubnetNames :
             Exists(subnet'[t]) => Exists(subnet[t]) /\ subnet'[t].spec = subnet[t].spec
<1> USE DEF objects, Exists
<1>1. CASE UNCHANGED subnet
  BY <1>1
<1>2. ASSUME NEW s \in SubnetNames, DeleteSubnet(s)
      PROVE  \A t \in SubnetNames :
               Exists(subnet'[t]) => Exists(subnet[t]) /\ subnet'[t].spec = subnet[t].spec
  <2>1. subnet[s] \in SubnetObj /\ subnet' = [subnet EXCEPT ![s].st = "terminating"]
    BY <1>2 DEF DeleteSubnet, TypeOK, MaybeSubnet, NoSubnet
  <2>2. subnet'[s] = [subnet[s] EXCEPT !.st = "terminating"]
        /\ \A t \in SubnetNames \ {s} : subnet'[t] = subnet[t]
    BY <2>1 DEF TypeOK
  <2>3. subnet'[s].spec = subnet[s].spec /\ subnet[s].st # "none"
    BY <2>1, <2>2 DEF SubnetObj
  <2> QED BY <2>2, <2>3
<1>3. ASSUME NEW s \in SubnetNames, RemoveSubnetFinalizer(s)
      PROVE  \A t \in SubnetNames :
               Exists(subnet'[t]) => Exists(subnet[t]) /\ subnet'[t].spec = subnet[t].spec
  BY <1>3 DEF RemoveSubnetFinalizer, NoSubnet, TypeOK
<1>4. ASSUME NEW s \in SubnetNames, UpdateSubnetStatus(s)
      PROVE  \A t \in SubnetNames :
               Exists(subnet'[t]) => Exists(subnet[t]) /\ subnet'[t].spec = subnet[t].spec
  <2> DEFINE x == MergeStatus(subnet[s].status, seen[s].status,
                              StatusFor(seen[s].spec, blocksSeen[s]))
  <2>1. subnet' = [subnet EXCEPT ![s].status = x] /\ subnet[s] \in SubnetObj
    BY <1>4 DEF UpdateSubnetStatus, TypeOK, MaybeSubnet, NoSubnet
  <2> HIDE DEF x
  <2>2. subnet'[s] = [subnet[s] EXCEPT !.status = x]
        /\ \A t \in SubnetNames \ {s} : subnet'[t] = subnet[t]
    BY <2>1 DEF TypeOK
  <2>3. subnet'[s].spec = subnet[s].spec /\ subnet'[s].st = subnet[s].st
    BY <2>1, <2>2 DEF SubnetObj
  <2> QED BY <2>2, <2>3
<1>5. UNCHANGED subnet \/ \E s \in SubnetNames :
        DeleteSubnet(s) \/ RemoveSubnetFinalizer(s) \/ UpdateSubnetStatus(s)
  <2>1. Users => UNCHANGED subnet \/ \E s \in SubnetNames : DeleteSubnet(s)
    BY DEF Users, AdmitCreate, AdmitUpdate, Admit, DeleteClaim, RemovePool, ScaleDown, ReleaseBlock
  <2>2. Platform => UNCHANGED subnet
    BY DEF Platform, SyncSubnet, SyncBlocks, SyncPools, RestartManager
  <2>3. Controllers => UNCHANGED subnet \/ \E s \in SubnetNames :
                         RemoveSubnetFinalizer(s) \/ UpdateSubnetStatus(s)
    BY DEF Controllers, SubnetStep, ForgetSubnet, ClaimStep, MarkPool, GetPool, CreateBlock,
           EndClaim
  <2> QED BY <2>1, <2>2, <2>3 DEF Next
<1> QED BY <1>1, <1>2, <1>3, <1>4, <1>5

\* A stored request gives its Subnet the spec, if it is still the one it was
\* compared with, and leaves status, deletion and other Subnets alone.
LEMMA StoreChange ==
    ASSUME TypeOK, NEW q \in admitted, Store(q)
    PROVE  /\ q.name \in SubnetNames /\ q.spec \in SubnetSpec /\ q.old \in MaybeSubnet
           /\ \A t \in SubnetNames \ {q.name} : subnet'[t] = subnet[t]
           /\ \/ subnet'[q.name] = subnet[q.name]
              \/ /\ subnet[q.name] = q.old
                 /\ Exists(subnet'[q.name]) /\ subnet'[q.name].spec = q.spec
                 /\ Exists(q.old) => subnet'[q.name].status = q.old.status
<1>1. q.name \in SubnetNames /\ q.spec \in SubnetSpec /\ q.old \in MaybeSubnet
  BY DEF TypeOK
<1>2. CASE subnet[q.name] # q.old
  BY <1>1, <1>2 DEF Store
<1>3. CASE subnet[q.name] = q.old /\ Exists(q.old)
  <2>1. q.old \in SubnetObj
    BY <1>1, <1>3 DEF MaybeSubnet, NoSubnet, Exists
  <2>2. subnet' = [subnet EXCEPT ![q.name] = [q.old EXCEPT !.spec = q.spec]]
    BY <1>3 DEF Store
  <2>3. subnet'[q.name] = [q.old EXCEPT !.spec = q.spec]
    BY <1>1, <2>2 DEF TypeOK
  <2>4. /\ subnet'[q.name].st = q.old.st /\ subnet'[q.name].spec = q.spec
        /\ subnet'[q.name].status = q.old.status
    BY <2>1, <2>3 DEF SubnetObj
  <2> QED BY <1>1, <1>3, <2>2, <2>4 DEF TypeOK, Exists
<1>4. CASE subnet[q.name] = q.old /\ ~Exists(q.old)
  <2>1. subnet' = [subnet EXCEPT ![q.name] = [st |-> "live", spec |-> q.spec, status |-> NoStatus]]
    BY <1>4 DEF Store
  <2> QED BY <1>1, <1>4, <2>1 DEF TypeOK, Exists
<1> QED BY <1>2, <1>3, <1>4

\* Requests only come from the webhook.
LEMMA AdmittedChange ==
    ASSUME Next
    PROVE  \/ admitted' \subseteq admitted
           \/ \E s \in SubnetNames : \E r \in Requests[s] : AdmitCreate(s, r) \/ AdmitUpdate(s, r)
<1>1. Users => \/ admitted' \subseteq admitted
               \/ \E s \in SubnetNames : \E r \in Requests[s] :
                    AdmitCreate(s, r) \/ AdmitUpdate(s, r)
  BY DEF Users, Store, DeleteSubnet, DeleteClaim, RemovePool, ScaleDown, ReleaseBlock
<1>2. Platform => UNCHANGED admitted
  BY DEF Platform, SyncSubnet, SyncBlocks, SyncPools, RestartManager
<1>3. Controllers => UNCHANGED admitted
  BY DEF Controllers, SubnetStep, ForgetSubnet, RemoveSubnetFinalizer, UpdateSubnetStatus,
         ClaimStep, MarkPool, GetPool, CreateBlock, EndClaim
<1> QED BY <1>1, <1>2, <1>3 DEF Next

-----------------------------------------------------------------------------
(* Which Subnets overlap.                                                  *)

\* A CIDR contains its network address.
LEMMA NetworkInside == ASSUME NEW C \in CIDRs PROVE Network(C) \in C
BY DEF Network

\* Comparing network addresses is enough: CIDRs nest or are apart.
LEMMA OverlapsExact ==
    ASSUME NEW C \in CIDRs, NEW D \in CIDRs, ~Overlaps(C, D)
    PROVE  C \cap D = {}
<1>1. Network(C) \in C /\ Network(D) \in D
  BY NetworkInside
<1>2. ~(C \subseteq D) /\ ~(D \subseteq C)
  BY <1>1 DEF Overlaps
<1>3. C \cap D = {} \/ C \subseteq D \/ D \subseteq C
  BY CIDRsAssumption
<1> QED BY <1>2, <1>3

\* A request that is valid asks for no address that another Subnet has.
LEMMA ValidApart ==
    ASSUME TypeOK, NEW s \in SubnetNames, NEW r \in Requests[s], Valid(s, r),
           NEW t \in SubnetNames \ {s}, Exists(subnet[t])
    PROVE  Mutated(r).cidr \cap subnet[t].spec.cidr = {}
<1> DEFINE C == Mutated(r).cidr
           D == subnet[t].spec.cidr
<1>1. ~Overlaps(C, D)
  BY DEF Valid, ValidCIDR
<1>2. C \in CIDRs
  BY MutatedType DEF SubnetSpec
<1>3. D \in CIDRs
  BY DEF TypeOK, MaybeSubnet, NoSubnet, SubnetObj, SubnetSpec, Exists
<1> HIDE DEF C, D
<1>4. C \cap D = {}
  BY <1>1, <1>2, <1>3, OverlapsExact
<1> QED BY <1>4 DEF C, D

\* Sets of Subnets and of requests are finite.
LEMMA FewRequests ==
    ASSUME Together
    PROVE  /\ \A S \in SUBSET admitted : IsFiniteSet(S) /\ Cardinality(S) \in Nat
                                         /\ Cardinality(S) <= MaxAdmissions
           /\ \A S, T : S \subseteq T /\ T \subseteq admitted => Cardinality(S) <= Cardinality(T)
           /\ \A T \in SUBSET SubnetNames : IsFiniteSet(T) /\ Cardinality(T) \in Nat
<1>1. IsFiniteSet(admitted) /\ Cardinality(admitted) \in Nat /\ Cardinality(admitted) <= MaxAdmissions
  BY FS_CardinalityType DEF Together
<1>2. ASSUME NEW S \in SUBSET admitted
      PROVE  IsFiniteSet(S) /\ Cardinality(S) \in Nat /\ Cardinality(S) <= MaxAdmissions
  <2>1. IsFiniteSet(S) /\ Cardinality(S) <= Cardinality(admitted) /\ Cardinality(S) \in Nat
    BY <1>1, FS_Subset, FS_CardinalityType
  <2> QED BY <1>1, <2>1
<1>3. ASSUME NEW S, NEW T, S \subseteq T, T \subseteq admitted PROVE Cardinality(S) <= Cardinality(T)
  BY <1>2, <1>3, FS_Subset
<1>4. ASSUME NEW T \in SUBSET SubnetNames PROVE IsFiniteSet(T) /\ Cardinality(T) \in Nat
  BY FS_Subset, FS_CardinalityType
<1> QED BY <1>2, <1>3, <1>4

\* A stored request takes the place it had among those under way.
LEMMA TogetherStore ==
    ASSUME TypeOK, Together, NEW q \in admitted, Store(q)
    PROVE  Together'
<1>1. admitted' = admitted \ {q}
  BY DEF Store
<1>2. IsFiniteSet(admitted') /\ Cardinality(admitted') <= MaxAdmissions
  BY <1>1, FewRequests
<1>3. ASSUME NEW a \in Space, NEW T \in SUBSET Claimants(a)', T # {}
      PROVE  Cardinality(T) + Cardinality(Waiting(a, T)') <= MaxAdmissions
  <2> DEFINE W1 == Waiting(a, T)'
             T0 == T \ {q.name}
             W0 == Waiting(a, T0)
  <2>1. /\ W1 = {p \in admitted \ {q} : a \in p.spec.cidr /\ p.name \notin T}
        /\ W0 = {p \in admitted : a \in p.spec.cidr /\ p.name \notin T0}
        /\ Waiting(a, T) = {p \in admitted : a \in p.spec.cidr /\ p.name \notin T}
        /\ T \subseteq SubnetNames
    BY <1>1 DEF Waiting, Claimants
  <2>2. CASE T \subseteq Claimants(a)
    <3>1. Cardinality(T) + Cardinality(Waiting(a, T)) <= MaxAdmissions
      BY <1>3, <2>2 DEF Together
    <3>2. /\ Cardinality(W1) <= Cardinality(Waiting(a, T))
          /\ Cardinality(W1) \in Nat /\ Cardinality(Waiting(a, T)) \in Nat /\ Cardinality(T) \in Nat
      BY <2>1, FewRequests
    <3> HIDE DEF W1
    <3>3. MaxAdmissions \in Nat /\ Cardinality(T) + Cardinality(W1) <= MaxAdmissions
      BY <3>1, <3>2
    <3> QED BY <3>3 DEF W1
  <2>3. CASE ~(T \subseteq Claimants(a))
    <3>1. /\ q.name \in T /\ a \in q.spec.cidr /\ T0 \subseteq Claimants(a)
      BY <2>3, StoreChange DEF Claimants
    <3>2. /\ Cardinality(T) = Cardinality(T0) + 1 /\ Cardinality(T0) \in Nat
          /\ T0 = {} => Cardinality(T0) = 0
      <4>1. IsFiniteSet(T) /\ Cardinality(T) \in Nat /\ Cardinality(T0) \in Nat
        BY <2>1, FewRequests
      <4>2. T0 = {} => Cardinality(T0) = 0
        BY FS_EmptySet
      <4>3. q.name \in T /\ T0 = T \ {q.name}
        BY <3>1
      <4> DEFINE x == q.name
      <4> HIDE DEF T0, x
      <4>4. Cardinality(T \ {x}) = Cardinality(T) - 1
        <5>1. x \in T
          BY <4>3 DEF x
        <5>2. Cardinality(T \ {x}) = IF x \in T THEN Cardinality(T) - 1 ELSE Cardinality(T)
          BY <4>1, FS_RemoveElement
        <5> QED BY <5>1, <5>2
      <4>5. Cardinality(T0) = Cardinality(T) - 1
        BY <4>3, <4>4 DEF x
      <4> QED BY <4>1, <4>2, <4>5
    <3>3. /\ Cardinality(W1) + 1 <= Cardinality(W0)
          /\ Cardinality(W1) \in Nat /\ Cardinality(W0) \in Nat /\ Cardinality(W0) <= MaxAdmissions
      <4>1. q \in W0 /\ W1 \subseteq W0 \ {q} /\ W0 \subseteq admitted
        BY <2>1, <3>1
      <4> HIDE DEF W0, W1
      <4>2. /\ IsFiniteSet(W0) /\ Cardinality(W0) \in Nat /\ Cardinality(W0) <= MaxAdmissions
            /\ Cardinality(W1) \in Nat /\ Cardinality(W1) <= Cardinality(W0 \ {q})
        BY <4>1, FewRequests
      <4>3. Cardinality(W0 \ {q}) = Cardinality(W0) - 1
        BY <4>1, <4>2, FS_RemoveElement
      <4> QED BY <4>2, <4>3
    <3>4. Cardinality(T0) + Cardinality(W0) <= MaxAdmissions
      <4>1. CASE T0 = {}
        <5> HIDE DEF W0
        <5> QED BY <3>2, <3>3, <4>1
      <4>2. CASE T0 # {}
        BY <3>1, <4>2 DEF Together
      <4> QED BY <4>1, <4>2
    <3> HIDE DEF W0, W1, T0
    <3>5. MaxAdmissions \in Nat /\ Cardinality(T) + Cardinality(W1) <= MaxAdmissions
      BY <3>2, <3>3, <3>4
    <3> QED BY <3>5 DEF W1
  <2> QED BY <2>2, <2>3
<1> QED BY <1>2, <1>3 DEF Together

\* Nothing else gives a Subnet an address, and a request that is admitted
\* asks for none that another Subnet has.
LEMMA TogetherStep ==
    ASSUME TypeOK, Together, Next
    PROVE  Together'
<1>1. CASE \E q \in admitted : Store(q)
  BY <1>1, TogetherStore
<1>2. CASE \A q \in admitted : ~Store(q)
  <2>1. \A a \in Space : Claimants(a)' \subseteq Claimants(a)
    BY <1>2, SpecsKept DEF Claimants
  <2>2. ASSUME IsFiniteSet(admitted') /\ Cardinality(admitted') <= MaxAdmissions,
               \A a \in Space : \A T \in SUBSET Claimants(a) :
                 T # {} => Waiting(a, T)' \subseteq Waiting(a, T)
        PROVE  Together'
    <3> SUFFICES ASSUME NEW a \in Space, NEW T \in SUBSET Claimants(a)', T # {}
                 PROVE  Cardinality(T) + Cardinality(Waiting(a, T)') <= MaxAdmissions
      BY <2>2 DEF Together
    <3> DEFINE W0 == Waiting(a, T)
               W1 == Waiting(a, T)'
    <3>1. T \subseteq Claimants(a) /\ W1 \subseteq W0
      BY <2>1, <2>2
    <3>2. W0 \subseteq admitted /\ T \subseteq SubnetNames
      BY <3>1 DEF Waiting, Claimants
    <3>3. Cardinality(T) + Cardinality(W0) <= MaxAdmissions
      BY <3>1 DEF Together
    <3> HIDE DEF W0, W1
    <3>4. /\ Cardinality(W1) <= Cardinality(W0)
          /\ Cardinality(W1) \in Nat /\ Cardinality(W0) \in Nat /\ Cardinality(T) \in Nat
      BY <3>1, <3>2, FewRequests
    <3>5. MaxAdmissions \in Nat /\ Cardinality(T) + Cardinality(W1) <= MaxAdmissions
      BY <3>3, <3>4
    <3> QED BY <3>5 DEF W1
  <2>3. CASE admitted' \subseteq admitted
    <3>1. IsFiniteSet(admitted') /\ Cardinality(admitted') <= MaxAdmissions
      BY <2>3, FewRequests
    <3>2. \A a \in Space : \A T \in SUBSET Claimants(a) : Waiting(a, T)' \subseteq Waiting(a, T)
      BY <2>3 DEF Waiting
    <3> QED BY <2>2, <3>1, <3>2
  <2>4. ASSUME NEW s \in SubnetNames, NEW r \in Requests[s], AdmitCreate(s, r) \/ AdmitUpdate(s, r)
        PROVE  Together'
    <3> DEFINE new == [name |-> s, old |-> subnet[s], spec |-> Mutated(r)]
    <3>1. Valid(s, r) /\ Admit(s, r)
      BY <2>4 DEF AdmitCreate, AdmitUpdate
    <3>2. Cardinality(admitted) < MaxAdmissions /\ admitted' = admitted \cup {new}
      BY <3>1 DEF Admit
    <3>3. new.name = s /\ new.spec = Mutated(r)
      OBVIOUS
    <3> HIDE DEF new
    <3>4. IsFiniteSet(admitted') /\ Cardinality(admitted') <= MaxAdmissions
      <4>1. IsFiniteSet(admitted) /\ Cardinality(admitted) \in Nat
        BY FewRequests
      <4>2. /\ IsFiniteSet(admitted \cup {new})
            /\ Cardinality(admitted \cup {new}) =
                 IF new \in admitted THEN Cardinality(admitted) ELSE Cardinality(admitted) + 1
        BY <4>1, FS_AddElement
      <4> QED BY <3>2, <4>1, <4>2
    <3>5. ASSUME NEW a \in Space, NEW T \in SUBSET Claimants(a), T # {}, a \in new.spec.cidr
          PROVE  s \in T
      <4>1. PICK t \in T : TRUE
        BY <3>5
      <4>2. t \in SubnetNames /\ Exists(subnet[t]) /\ a \in subnet[t].spec.cidr
        BY DEF Claimants
      <4>3. t # s => Mutated(r).cidr \cap subnet[t].spec.cidr = {}
        BY <3>1, <4>2, ValidApart
      <4> QED BY <3>3, <3>5, <4>2, <4>3
    <3>6. \A a \in Space : \A T \in SUBSET Claimants(a) :
            T # {} => Waiting(a, T)' \subseteq Waiting(a, T)
      BY <3>2, <3>3, <3>5 DEF Waiting
    <3> QED BY <2>2, <3>4, <3>6
  <2> QED BY <2>3, <2>4, AdmittedChange
<1> QED BY <1>1, <1>2

-----------------------------------------------------------------------------
(* The inductive invariant.                                                *)

\* What the webhook promised of stored specs and of requests under way is kept.
LEMMA AdmissibleStep ==
    ASSUME TypeOK, Admissible, Next
    PROVE  Admissible'
<1>1. ASSUME NEW q \in admitted, Store(q) PROVE Admissible'
  <2>1. admitted' \subseteq admitted
    BY <1>1 DEF Store
  <2>2. \A s \in SubnetNames :
          Exists(subnet'[s]) => subnet'[s].spec.version = VersionOf(subnet'[s].spec.cidr)
    <3>1. q.spec.version = VersionOf(q.spec.cidr)
      BY DEF Admissible
    <3>2. ASSUME NEW s \in SubnetNames, Exists(subnet'[s])
          PROVE  subnet'[s].spec.version = VersionOf(subnet'[s].spec.cidr)
      <4>1. subnet'[s] = subnet[s] \/ subnet'[s].spec = q.spec
        BY <1>1, StoreChange
      <4> QED BY <3>1, <3>2, <4>1 DEF Admissible
    <3> QED BY <3>2
  <2> QED BY <2>1, <2>2 DEF Admissible
<1>2. CASE \A q \in admitted : ~Store(q)
  <2>1. \A s \in SubnetNames :
          Exists(subnet'[s]) => subnet'[s].spec.version = VersionOf(subnet'[s].spec.cidr)
    BY <1>2, SpecsKept DEF Admissible
  <2>2. CASE admitted' \subseteq admitted
    BY <2>1, <2>2 DEF Admissible
  <2>3. ASSUME NEW s \in SubnetNames, NEW r \in Requests[s], AdmitCreate(s, r) \/ AdmitUpdate(s, r)
        PROVE  Admissible'
    <3> DEFINE new == [name |-> s, old |-> subnet[s], spec |-> Mutated(r)]
    <3>1. Admit(s, r) /\ Mutated(r).version = VersionOf(Mutated(r).cidr)
      BY <2>3 DEF AdmitCreate, AdmitUpdate, Valid, ValidCIDR
    <3>2. Exists(subnet[s]) => Frozen(subnet[s], Mutated(r)) /\ KeepsUsed(subnet[s], Mutated(r))
      BY <2>3 DEF AdmitCreate, AdmitUpdate
    <3>3. admitted' = admitted \cup {new}
      BY <3>1 DEF Admit
    <3>4. new.spec = Mutated(r) /\ new.old = subnet[s]
      OBVIOUS
    <3> HIDE DEF new
    <3>5. \A q \in admitted' :
            /\ q.spec.version = VersionOf(q.spec.cidr)
            /\ Exists(q.old) => Frozen(q.old, q.spec) /\ KeepsUsed(q.old, q.spec)
      BY <3>1, <3>2, <3>3, <3>4 DEF Admissible
    <3> QED BY <2>1, <3>5 DEF Admissible
  <2> QED BY <2>2, <2>3, AdmittedChange
<1> QED BY <1>1, <1>2

\* A patch that leaves the cached status in place had nothing to send.
LEMMA MergeTells ==
    ASSUME NEW stored \in SubnetStatus, NEW old \in SubnetStatus, NEW new \in SubnetStatus,
           MergeStatus(stored, old, new) = old
    PROVE  old = new
<1>1. DOMAIN new = {"ready", "free", "total", "used", "spare"}
  BY DEF SubnetStatus
<1>2. \A field \in DOMAIN new : new[field] # old[field] => MergeStatus(stored, old, new)[field] = new[field]
  BY DEF MergeStatus
<1>3. /\ new.ready = old.ready /\ new.free = old.free /\ new.total = old.total
      /\ new.used = old.used /\ new.spare = old.spare
  BY <1>1, <1>2
<1>4. \A x \in SubnetStatus :
        x = [ready |-> x.ready, free |-> x.free, total |-> x.total, used |-> x.used,
             spare |-> x.spare]
  BY DEF SubnetStatus
<1>5. /\ new = [ready |-> new.ready, free |-> new.free, total |-> new.total, used |-> new.used,
                spare |-> new.spare]
      /\ old = [ready |-> old.ready, free |-> old.free, total |-> old.total, used |-> old.used,
                spare |-> old.spare]
  BY <1>4
<1> QED BY <1>3, <1>5

\* Caches stay behind, never ahead, and a status is recomputed when they move.
LEMMA CurrentStep ==
    ASSUME TypeOK, Admissible, \A t \in SubnetNames : Current(t), Next
    PROVE  \A t \in SubnetNames : Current(t)'
<1> SUFFICES ASSUME NEW t \in SubnetNames PROVE Current(t)'
  OBVIOUS
<1> USE DEF objects, caches
<1>0. Current(t)
  OBVIOUS
<1>1. CASE UNCHANGED <<subnet, caches, subnetQ>>
  BY <1>0, <1>1 DEF Current
<1>2. ASSUME NEW s \in SubnetNames, DeleteSubnet(s) PROVE Current(t)'
  <2>1. subnet[s] \in SubnetObj /\ subnet' = [subnet EXCEPT ![s].st = "terminating"]
    BY <1>2 DEF DeleteSubnet, TypeOK, MaybeSubnet, NoSubnet
  <2>2. subnet'[s] = [subnet[s] EXCEPT !.st = "terminating"]
        /\ \A u \in SubnetNames \ {s} : subnet'[u] = subnet[u]
    BY <2>1 DEF TypeOK
  <2>3. /\ subnet'[t].spec = subnet[t].spec /\ subnet'[t].status = subnet[t].status
        /\ Exists(subnet'[t]) => Exists(subnet[t])
    BY <2>1, <2>2 DEF SubnetObj, Exists
  <2> QED BY <1>0, <1>2, <2>3 DEF Current, DeleteSubnet
<1>3. ASSUME NEW q \in admitted, Store(q) PROVE Current(t)'
  <2>1. UNCHANGED <<caches, subnetQ>>
    BY <1>3 DEF Store
  <2>2. CASE subnet'[t] = subnet[t]
    BY <1>0, <2>1, <2>2 DEF Current
  <2>3. CASE subnet'[t] # subnet[t] /\ Exists(q.old)
    <3>1. /\ subnet[t] = q.old /\ subnet'[t].spec = q.spec /\ subnet'[t].status = subnet[t].status
      BY <1>3, <2>3, StoreChange
    <3>2. Frozen(subnet[t], q.spec)
      BY <2>3, <3>1 DEF Admissible
    <3>3. Exists(seen[t]) => Frozen(seen[t], q.spec)
      BY <1>0, <2>3, <3>1, <3>2 DEF Current, Frozen
    <3> QED BY <1>0, <2>1, <2>3, <3>1, <3>3 DEF Current
  <2>4. CASE subnet'[t] # subnet[t] /\ ~Exists(q.old)
    <3>1. ~Exists(seen[t])
      BY <1>3, <2>4, StoreChange DEF Store
    <3> QED BY <2>1, <3>1 DEF Current
  <2> QED BY <2>2, <2>3, <2>4
<1>4. ASSUME NEW s \in SubnetNames, SyncSubnet(s) PROVE Current(t)'
  <2>1. /\ seen'[t] = IF t = s THEN subnet[t] ELSE seen[t]
        /\ t = s => t \in subnetQ'
        /\ t \in subnetQ => t \in subnetQ'
    BY <1>4 DEF SyncSubnet, TypeOK
  <2>2. UNCHANGED <<subnet, blocksSeen>>
    BY <1>4 DEF SyncSubnet
  <2> QED BY <1>0, <2>1, <2>2 DEF Current, Frozen
<1>5. ASSUME NEW s \in SubnetNames, SyncBlocks(s) PROVE Current(t)'
  <2>1. /\ t # s => blocksSeen'[t] = blocksSeen[t]
        /\ t = s => t \in subnetQ'
        /\ t \in subnetQ => t \in subnetQ'
    BY <1>5 DEF SyncBlocks, TypeOK
  <2>2. UNCHANGED <<subnet, seen>>
    BY <1>5 DEF SyncBlocks
  <2> QED BY <1>0, <2>1, <2>2 DEF Current
<1>6. ASSUME NEW s \in SubnetNames, SyncPools(s) PROVE Current(t)'
  BY <1>0, <1>6 DEF Current, SyncPools
<1>7. CASE RestartManager
  BY <1>7 DEF Current, RestartManager, Frozen
<1>8. ASSUME NEW s \in SubnetNames, ForgetSubnet(s) PROVE Current(t)'
  BY <1>0, <1>8 DEF Current, ForgetSubnet, Dequeue
<1>9. ASSUME NEW s \in SubnetNames, RemoveSubnetFinalizer(s) PROVE Current(t)'
  <2>1. CASE t = s
    <3>1. ~Exists(subnet'[t])
      BY <1>9, <2>1 DEF RemoveSubnetFinalizer, NoSubnet, Exists, TypeOK
    <3> QED BY <3>1 DEF Current
  <2>2. CASE t # s
    <3>1. subnet'[t] = subnet[t] /\ (t \in subnetQ => t \in subnetQ') /\ UNCHANGED caches
      BY <1>9, <2>2 DEF RemoveSubnetFinalizer, Dequeue, TypeOK
    <3> QED BY <1>0, <3>1 DEF Current
  <2> QED BY <2>1, <2>2
<1>10. ASSUME NEW s \in SubnetNames, UpdateSubnetStatus(s) PROVE Current(t)'
  <2> DEFINE new == StatusFor(seen[s].spec, blocksSeen[s])
  <2> DEFINE merged == MergeStatus(subnet[s].status, seen[s].status, new)
  <2>1. /\ subnet[s] \in SubnetObj /\ seen[s] \in SubnetObj
        /\ Exists(subnet[s]) /\ Exists(seen[s]) /\ UNCHANGED caches
    BY <1>10 DEF UpdateSubnetStatus, TypeOK, MaybeSubnet, NoSubnet, Exists
  <2>2. subnet' = [subnet EXCEPT ![s].status = merged]
    BY <1>10 DEF UpdateSubnetStatus
  <2>3. merged = seen[s].status => seen[s].status = new
    <3>1. new \in SubnetStatus
      BY <2>1, StatusType DEF SubnetObj, TypeOK
    <3>2. subnet[s].status \in SubnetStatus /\ seen[s].status \in SubnetStatus
      BY <2>1 DEF SubnetObj
    <3> HIDE DEF new
    <3> QED BY <3>1, <3>2, MergeTells
  <2> HIDE DEF new, merged
  <2>4. subnet'[s] = [subnet[s] EXCEPT !.status = merged]
        /\ \A u \in SubnetNames \ {s} : subnet'[u] = subnet[u]
    BY <2>1, <2>2 DEF TypeOK
  <2>5. CASE t = s
    <3>1. subnet'[s].spec = subnet[s].spec /\ subnet'[s].status = merged
      BY <2>1, <2>4 DEF SubnetObj
    <3>2. Frozen(seen[s], subnet'[s].spec)
      BY <1>0, <2>1, <2>5, <3>1 DEF Current
    <3>3. subnet'[s].status # seen[s].status
          \/ seen[s].status = StatusFor(seen[s].spec, blocksSeen[s])
      BY <2>3, <3>1 DEF new
    <3> QED BY <2>1, <2>5, <3>2, <3>3 DEF Current
  <2>6. CASE t # s
    <3>1. subnet'[t] = subnet[t] /\ (t \in subnetQ => t \in subnetQ')
      BY <1>10, <2>4, <2>6 DEF UpdateSubnetStatus, Dequeue
    <3> QED BY <1>0, <2>1, <3>1 DEF Current
  <2> QED BY <2>5, <2>6
<1>11. ASSUME NEW c \in Claims, ClaimStep(c) PROVE UNCHANGED <<subnet, caches, subnetQ>>
  BY <1>11 DEF ClaimStep, MarkPool, GetPool, CreateBlock, EndClaim
<1>12. Users => UNCHANGED <<subnet, caches, subnetQ>> \/ (\E s \in SubnetNames : DeleteSubnet(s))
                \/ \E q \in admitted : Store(q)
  BY DEF Users, AdmitCreate, AdmitUpdate, Admit, DeleteClaim, RemovePool, ScaleDown, ReleaseBlock
<1> QED
  BY <1>1, <1>2, <1>3, <1>4, <1>5, <1>6, <1>7, <1>8, <1>9, <1>10, <1>11, <1>12
     DEF Next, Platform, Controllers, SubnetStep

\* SubnetInv holds at the start: there are no Subnets.
LEMMA SubnetInit == Init => SubnetInv
<1> SUFFICES ASSUME Init PROVE SubnetInv
  OBVIOUS
<1> USE DEF Init, SubnetsInit
<1>1. Admissible /\ \A s \in SubnetNames : Current(s)
  BY DEF Admissible, Current, NoSubnet, Exists
<1>2. \A a \in Space : Claimants(a) = {}
  BY DEF Claimants, NoSubnet, Exists
<1>3. IsFiniteSet(admitted) /\ Cardinality(admitted) <= MaxAdmissions
  BY FS_EmptySet
<1> QED BY <1>1, <1>2, <1>3, TypeInit DEF SubnetInv, Together

\* Every step keeps it.
LEMMA SubnetStays == SubnetInv /\ [Next]_vars => SubnetInv'
<1> SUFFICES ASSUME SubnetInv, [Next]_vars PROVE SubnetInv'
  OBVIOUS
<1>0. TypeOK /\ Admissible /\ Together /\ \A s \in SubnetNames : Current(s)
  BY DEF SubnetInv
<1>1. CASE UNCHANGED vars
  <2>1. TypeOK'
    BY <1>0, <1>1, TypeStep
  <2>2. \A s \in SubnetNames : Current(s)'
    BY <1>0, <1>1 DEF Current, vars, objects, caches
  <2>3. Admissible' /\ Together'
    BY <1>0, <1>1 DEF Admissible, Together, Claimants, Waiting, vars, objects
  <2> QED BY <2>1, <2>2, <2>3 DEF SubnetInv
<1>2. CASE Next
  BY <1>0, <1>2, TypeStep, AdmissibleStep, CurrentStep, TogetherStep DEF SubnetInv
<1> QED BY <1>1, <1>2

\* SubnetInv holds throughout, for any Subnets, claims, numbers of changes and of
\* requests under way, and however late caches are.
THEOREM InvHolds == Spec => []SubnetInv
<1> QED BY SubnetInit, SubnetStays, PTL DEF Spec

\* No address has more Subnets than there can be requests between admission and storage
\* (validateCIDR with its comparison of network addresses), whatever is created, widened,
\* reduced, deleted and created again and in whatever order requests are stored: if each
\* is stored or refused before the next is admitted, Subnets never overlap.
THEOREM SubnetsShareLittle == Spec => []SharedAtMost
<1>1. SubnetInv => SharedAtMost
  <2> SUFFICES ASSUME SubnetInv, NEW a \in Space PROVE Cardinality(Claimants(a)) <= MaxAdmissions
    BY DEF SharedAtMost
  <2> DEFINE T == Claimants(a)
             W == Waiting(a, T)
  <2>1. Together
    BY DEF SubnetInv
  <2>2. T \subseteq SubnetNames /\ W \subseteq admitted
    BY DEF Claimants, Waiting
  <2>3. T # {} => Cardinality(T) + Cardinality(W) <= MaxAdmissions
    BY <2>1 DEF Together
  <2> HIDE DEF T, W
  <2>4. Cardinality(T) \in Nat /\ Cardinality(W) \in Nat
    BY <2>1, <2>2, FewRequests
  <2>5. T = {} => Cardinality(T) = 0
    BY FS_EmptySet
  <2>6. Cardinality(T) <= MaxAdmissions
    BY <2>3, <2>4, <2>5
  <2> QED BY <2>6 DEF T
<1> QED BY <1>1, InvHolds, PTL

-----------------------------------------------------------------------------
(* The status of a Subnet at rest.                                         *)

\* The status is computed once more when everything has arrived.
StatusCurrent ==
    \A s \in SubnetNames : Settled(s) /\ Exists(subnet[s]) =>
        subnet[s].status = StatusFor(subnet[s].spec, BlocksOf(s))

LEMMA InvCurrent == SubnetInv => StatusCurrent
<1> SUFFICES ASSUME SubnetInv, NEW s \in SubnetNames, Settled(s), Exists(subnet[s])
             PROVE  subnet[s].status = StatusFor(subnet[s].spec, BlocksOf(s))
  BY DEF StatusCurrent
<1>1. Exists(seen[s]) /\ seen[s].status = subnet[s].status /\ s \notin subnetQ
  BY DEF Settled
<1>2. Current(s)
  BY DEF SubnetInv
<1> QED BY <1>1, <1>2 DEF Current, Settled

\* Merge patches relative to stale copies add up (updateStatus): once nothing about a
\* Subnet is on its way to its controller, the status is the one that its spec and its
\* IPBlocks, inside its CIDR or not, call for in every field, whatever was patched before.
\* StatusDescribes says in addition what these fields count.
THEOREM StatusSettles == Spec => []StatusCurrent
<1> QED BY InvCurrent, InvHolds, PTL

-----------------------------------------------------------------------------
(* What the fields of a status count.                                      *)

\* IPBlocks of one Subnet have one size, so that two of them are apart.
LEMMA BlocksApart ==
    ASSUME NEW b \in CIDRs, NEW M \in CIDRs, b # M, Cardinality(b) = Cardinality(M)
    PROVE  b \cap M = {}
<1>1. IsFiniteSet(b) /\ IsFiniteSet(M)
  BY Finite
<1>2. ASSUME b \subseteq M PROVE FALSE
  BY <1>1, <1>2, FS_Subset
<1>3. ASSUME M \subseteq b PROVE FALSE
  BY <1>1, <1>3, FS_Subset
<1> QED BY <1>2, <1>3

\* The IPBlocks of one size are apart, so that dividing the number of their addresses
\* counts them.
LEMMA BlocksCounted ==
    ASSUME NEW n \in Nat \ {0}, NEW B \in SUBSET BlocksIn(Space, n)
    PROVE  Cardinality(UNION B) \div n = Cardinality(B)
<1>1. B \in SUBSET CIDRs /\ \A b \in B : IsFiniteSet(b) /\ Cardinality(b) = n
  BY Finite DEF BlocksIn
<1>2. IsFiniteSet(B) /\ Cardinality(B) \in Nat
  BY <1>1, Finite
<1>3. \A b, c \in B : b # c => b \cap c = {}
  BY <1>1, BlocksApart
<1>4. Cardinality(UNION B) = Cardinality(B) * n
  BY <1>1, <1>2, <1>3, CountInParts
<1> QED BY <1>2, <1>4, WholeParts

\* Of IPBlocks that are apart, taking some away takes their addresses away.
LEMMA BlocksLeft ==
    ASSUME NEW n \in Nat \ {0}, NEW A \in SUBSET BlocksIn(Space, n), NEW B \in SUBSET BlocksIn(Space, n)
    PROVE  (UNION A) \ (UNION B) = UNION (A \ B)
<1>1. \A a \in A, b \in B : a # b => a \cap b = {}
  BY BlocksApart DEF BlocksIn
<1> QED BY <1>1

\* What the webhook let pass.
Passed(spec) ==
    /\ spec.version = VersionOf(spec.cidr)
    /\ ValidExcluded(spec) /\ ValidBlockSize(spec)
    /\ \E s \in SubnetNames : \E r \in Requests[s] : spec = Mutated(r)

\* An excluded CIDR blocks an IPBlock of the Subnet that it shares an address with, and no
\* other (getTotalIPRanges rounds it to the IPBlock that contains it).
LEMMA WidenedBlocks ==
    ASSUME NEW spec \in SubnetSpec, Passed(spec), NEW range \in spec.excluded, NEW C \in Cut(range),
           NEW b \in BlocksIn(spec.cidr, spec.size)
    PROVE  /\ b \cap C # {} => b \subseteq Widened(C, spec.size)
           /\ b \cap C = {} => b \cap Widened(C, spec.size) = {}
<1> DEFINE n == spec.size
           d == CHOOSE b1 \in CIDRs : Cardinality(b1) = n /\ C \subseteq b1
<1>1. /\ C \in CIDRs /\ C \subseteq range /\ b \in CIDRs /\ Cardinality(b) = n /\ b \subseteq spec.cidr
      /\ spec.cidr \in CIDRs /\ n \in Nat \ {0} /\ range \subseteq Space
      /\ IsFiniteSet(b) /\ IsFiniteSet(C) /\ Cardinality(C) \in Nat
  BY Finite DEF Cut, BlocksIn, SubnetSpec
<1>2. /\ VersionOf(range) = VersionOf(spec.cidr)
      /\ range \subseteq V6 \/ range \cap V6 = {}
      /\ \A D \in CIDRs : VersionOf(D) = VersionOf(spec.cidr) /\ Cardinality(D) <= n
           => \E b1 \in BlocksIn(Space, n) : D \subseteq b1
  <2>0. PICK s \in SubnetNames : \E r \in Requests[s] : spec = Mutated(r)
    BY DEF Passed
  <2>1. PICK r \in Requests[s] : spec = Mutated(r)
    BY <2>0
  <2>2. spec.size <= Cardinality(spec.cidr) /\ VersionOf(range) = spec.version
        /\ spec.version = VersionOf(spec.cidr)
    BY DEF Passed, ValidExcluded, ValidBlockSize
  <2>3. /\ \A D \in CIDRs : VersionOf(D) = VersionOf(spec.cidr) /\ Cardinality(D) <= spec.size
             => \E b1 \in BlocksIn(Space, spec.size) : D \subseteq b1
        /\ range \subseteq V6 \/ range \cap V6 = {}
    <3> DEFINE m == Mutated(r)
    <3>1. /\ m.size <= Cardinality(m.cidr) =>
               \A D \in CIDRs : VersionOf(D) = VersionOf(m.cidr) /\ Cardinality(D) <= m.size
                 => \E b1 \in BlocksIn(Space, m.size) : D \subseteq b1
          /\ \A R \in m.excluded : R \subseteq V6 \/ R \cap V6 = {}
      BY MasksAssumption
    <3>2. m = spec
      BY <2>1
    <3> HIDE DEF m
    <3> QED BY <2>2, <3>1, <3>2
  <2> QED BY <2>2, <2>3
<1>3. \E a \in C : TRUE
  BY <1>1
<1>4. VersionOf(C) = VersionOf(spec.cidr)
  BY <1>1, <1>2, <1>3 DEF VersionOf
<1>5. CASE Cardinality(C) >= n
  <2>1. Widened(C, n) = C
    BY <1>5 DEF Widened
  <2>2. b \cap C = {} \/ b \subseteq C \/ C \subseteq b
    BY <1>1
  <2>3. ASSUME C \subseteq b PROVE C = b
    <3>1. Cardinality(C) <= Cardinality(b) /\ (Cardinality(b) = Cardinality(C) => b = C)
      BY <1>1, <2>3, FS_Subset
    <3> QED BY <1>1, <1>5, <3>1
  <2> QED BY <2>1, <2>2, <2>3
<1>6. CASE Cardinality(C) < n
  <2>1. Widened(C, n) = d
    BY <1>1, <1>6 DEF Widened
  <2>2. \E b1 \in CIDRs : Cardinality(b1) = n /\ C \subseteq b1
    BY <1>1, <1>2, <1>4, <1>6 DEF BlocksIn
  <2>3. d \in CIDRs /\ Cardinality(d) = n /\ C \subseteq d
    BY <2>2
  <2> HIDE DEF d
  <2>4. b # d => b \cap d = {}
    BY <1>1, <2>3, BlocksApart
  <2> QED BY <1>3, <2>1, <2>3, <2>4
<1>7. Cardinality(C) >= n \/ Cardinality(C) < n
  BY <1>1
<1> QED BY <1>5, <1>6, <1>7

\* getTotalIPRanges: what can be let out are the IPBlocks without an excluded address.
LEMMA TotalIsLettable ==
    ASSUME NEW spec \in SubnetSpec, Passed(spec)
    PROVE  Total(spec) = UNION Lettable(spec)
<1> DEFINE all     == BlocksIn(spec.cidr, spec.size)
           E       == UNION spec.excluded
           cut     == UNION {Cut(range) : range \in spec.excluded}
           blocked == UNION {Widened(C, spec.size) : C \in cut}
<1>1. spec.cidr = UNION all /\ \A range \in spec.excluded : range = UNION Cut(range)
  BY MasksAssumption DEF Passed, ValidBlockSize
<1>2. Lettable(spec) = {b \in all : b \cap E = {}}
  BY DEF Lettable
<1>3. CASE spec.cidr \cap E = {}
  <2>1. \A b \in all : b \cap E = {}
    BY <1>3 DEF BlocksIn
  <2> QED BY <1>1, <1>2, <1>3, <2>1 DEF Total
<1>4. CASE spec.cidr \cap E # {}
  <2>1. Total(spec) = spec.cidr \ blocked
    BY <1>4 DEF Total
  <2>2. ASSUME NEW b \in all PROVE (b \cap E = {} => b \cap blocked = {}) /\ (b \cap E # {} => b \subseteq blocked)
    <3>1. ASSUME b \cap E = {}, NEW C \in cut PROVE b \cap Widened(C, spec.size) = {}
      <4>1. PICK range \in spec.excluded : C \in Cut(range)
        OBVIOUS
      <4>2. b \cap C = {}
        BY <3>1, <4>1 DEF Cut
      <4> QED BY <4>1, <4>2, WidenedBlocks
    <3>2. ASSUME b \cap E # {} PROVE b \subseteq blocked
      <4>1. PICK range \in spec.excluded : b \cap range # {}
        BY <3>2
      <4>2. PICK C \in Cut(range) : b \cap C # {}
        BY <1>1, <4>1
      <4>3. b \subseteq Widened(C, spec.size)
        BY <4>2, WidenedBlocks
      <4>4. C \in cut
        OBVIOUS
      <4> QED BY <4>3, <4>4
    <3> QED BY <3>1, <3>2
  <2> HIDE DEF blocked, E, all
  <2> QED BY <1>1, <1>2, <2>1, <2>2
<1> QED BY <1>3, <1>4

\* Every stored spec, and every one under way, has passed the webhook.
AllPassed ==
    /\ \A s \in SubnetNames : Exists(subnet[s]) => Passed(subnet[s].spec)
    /\ \A q \in admitted : Passed(q.spec)

LEMMA PassedStep ==
    ASSUME TypeOK, AllPassed, [Next]_vars
    PROVE  AllPassed'
<1>1. CASE UNCHANGED vars
  BY <1>1 DEF AllPassed, vars, objects
<1>2. ASSUME Next
      PROVE  \A q \in admitted' : Passed(q.spec)
  <2>1. CASE admitted' \subseteq admitted
    BY <2>1 DEF AllPassed
  <2>2. ASSUME NEW s \in SubnetNames, NEW r \in Requests[s], AdmitCreate(s, r) \/ AdmitUpdate(s, r)
        PROVE  \A q \in admitted' : Passed(q.spec)
    <3>1. Valid(s, r) /\ Admit(s, r)
      BY <2>2 DEF AdmitCreate, AdmitUpdate
    <3>2. Passed(Mutated(r))
      BY <3>1 DEF Valid, ValidCIDR, Passed
    <3>3. admitted' = admitted \cup {[name |-> s, old |-> subnet[s], spec |-> Mutated(r)]}
      BY <3>1 DEF Admit
    <3> QED BY <3>2, <3>3 DEF AllPassed
  <2> QED BY <1>2, <2>1, <2>2, AdmittedChange
<1>3. ASSUME Next, NEW t \in SubnetNames, Exists(subnet'[t])
      PROVE  Passed(subnet'[t].spec)
  <2>1. CASE \A q \in admitted : ~Store(q)
    BY <1>3, <2>1, SpecsKept DEF AllPassed
  <2>2. ASSUME NEW q \in admitted, Store(q)
        PROVE  Passed(subnet'[t].spec)
    <3>1. subnet'[t] = subnet[t] \/ subnet'[t].spec = q.spec
      BY <1>3, <2>2, StoreChange
    <3> QED BY <1>3, <3>1 DEF AllPassed
  <2> QED BY <2>1, <2>2
<1> QED BY <1>1, <1>2, <1>3 DEF AllPassed

LEMMA PassedHolds == Spec => []AllPassed
<1>1. Init => AllPassed
  BY DEF Init, SubnetsInit, AllPassed, NoSubnet, Exists
<1>2. TypeOK /\ AllPassed /\ [Next]_vars => AllPassed'
  BY PassedStep
<1> QED BY <1>1, <1>2, TypeCorrect, PTL DEF Spec

\* The status of a Subnet that has settled describes it, if its IPBlocks are its own:
\* status.free lists the IPBlocks that can still be let out and nothing else, and
\* blockCount counts those there are, in use and to spare (getTotalIPRanges, updateStatus),
\* whatever specs, sizes and excluded ranges users asked for and in whatever order patches
\* were merged.
THEOREM StatusDescribes == Spec => []StatusExact
<1>1. TypeOK /\ AllPassed /\ StatusCurrent => StatusExact
  <2> SUFFICES ASSUME TypeOK, AllPassed, StatusCurrent,
                      NEW s \in SubnetNames, Settled(s), Whole(s)
               PROVE  LET spec == subnet[s].spec
                          open == Lettable(spec) \ BlocksOf(s)
                      IN  subnet[s].status =
                            [ready |-> TRUE, free |-> UNION open,
                             total |-> Cardinality(Lettable(spec)),
                             used |-> Cardinality(BlocksOf(s)), spare |-> Cardinality(open)]
    BY DEF StatusExact
  <2> DEFINE spec == subnet[s].spec
             n    == spec.size
             all  == BlocksIn(spec.cidr, n)
             held == BlocksOf(s)
             open == Lettable(spec) \ held
  <2>1. Passed(spec) /\ spec \in SubnetSpec /\ n \in Nat \ {0} /\ spec.cidr \subseteq Space
    <3>1. Passed(spec) /\ spec \in SubnetSpec
      BY DEF AllPassed, Whole, TypeOK, MaybeSubnet, NoSubnet, SubnetObj, Exists
    <3>2. n \in Nat \ {0} /\ spec.cidr \in CIDRs
      BY <3>1 DEF SubnetSpec
    <3> HIDE DEF spec, n
    <3> QED BY <3>1, <3>2
  <2>2. subnet[s].status = StatusFor(spec, held)
    BY DEF StatusCurrent, Whole
  <2>3. Total(spec) = UNION Lettable(spec)
    BY <2>1, TotalIsLettable
  <2>4. all \subseteq BlocksIn(Space, n) /\ Lettable(spec) \subseteq all
    BY <2>1 DEF BlocksIn, Lettable
  <2>5. held \subseteq all
    BY DEF Whole, Cells
  <2> HIDE DEF spec, n, all, held
  <2>6. /\ Lettable(spec) \in SUBSET BlocksIn(Space, n) /\ held \in SUBSET BlocksIn(Space, n)
        /\ open \in SUBSET BlocksIn(Space, n)
    BY <2>4, <2>5
  <2>7. (UNION Lettable(spec)) \ (UNION held) = UNION open
    BY <2>1, <2>6, BlocksLeft
  <2> HIDE DEF open
  <2>8. /\ Cardinality(UNION Lettable(spec)) \div n = Cardinality(Lettable(spec))
        /\ Cardinality(UNION held) \div n = Cardinality(held)
        /\ Cardinality(UNION open) \div n = Cardinality(open)
    BY <2>1, <2>6, BlocksCounted
  <2>9. StatusFor(spec, held) =
          [ready |-> TRUE, free |-> UNION open, total |-> Cardinality(Lettable(spec)),
           used |-> Cardinality(held), spare |-> Cardinality(open)]
    BY <2>3, <2>7, <2>8 DEF StatusFor, n
  <2> QED BY <2>2, <2>9 DEF spec, open, held
<1>2. SubnetInv => TypeOK /\ StatusCurrent
  BY InvCurrent DEF SubnetInv
<1> QED BY <1>1, <1>2, InvHolds, PassedHolds, PTL

-----------------------------------------------------------------------------
(* What no request takes away.                                             *)

\* Only the Subnet controller removes a Subnet.
LEMMA GoesByFinalizer ==
    ASSUME TypeOK, Next, NEW s \in SubnetNames, Exists(subnet[s]), ~Exists(subnet'[s])
    PROVE  RemoveSubnetFinalizer(s)
<1> USE DEF objects, Exists
<1>1. ASSUME NEW q \in admitted, Store(q) PROVE FALSE
  BY <1>1, StoreChange
<1>2. ASSUME NEW t \in SubnetNames, DeleteSubnet(t) PROVE FALSE
  <2>1. subnet'[s] = subnet[s] \/ subnet'[s] = [subnet[s] EXCEPT !.st = "terminating"]
    BY <1>2 DEF DeleteSubnet, TypeOK
  <2>2. subnet[s] \in SubnetObj
    BY DEF TypeOK, MaybeSubnet, NoSubnet
  <2> QED BY <2>1, <2>2 DEF SubnetObj
<1>3. ASSUME NEW t \in SubnetNames, UpdateSubnetStatus(t) PROVE FALSE
  <2> DEFINE x == MergeStatus(subnet[t].status, seen[t].status,
                              StatusFor(seen[t].spec, blocksSeen[t]))
  <2>1. subnet' = [subnet EXCEPT ![t].status = x]
    BY <1>3 DEF UpdateSubnetStatus
  <2> HIDE DEF x
  <2>2. subnet'[s] = subnet[s] \/ subnet'[s] = [subnet[s] EXCEPT !.status = x]
    BY <2>1 DEF TypeOK
  <2>3. subnet[s] \in SubnetObj
    BY DEF TypeOK, MaybeSubnet, NoSubnet
  <2> QED BY <2>2, <2>3 DEF SubnetObj
<1>4. ASSUME NEW t \in SubnetNames, t # s, RemoveSubnetFinalizer(t) PROVE FALSE
  BY <1>4 DEF RemoveSubnetFinalizer, TypeOK
<1>5. UNCHANGED subnet \/ (\E q \in admitted : Store(q)) \/ \E t \in SubnetNames :
        DeleteSubnet(t) \/ RemoveSubnetFinalizer(t) \/ UpdateSubnetStatus(t)
  <2>1. Users => UNCHANGED subnet \/ (\E q \in admitted : Store(q))
                 \/ \E t \in SubnetNames : DeleteSubnet(t)
    BY DEF Users, AdmitCreate, AdmitUpdate, Admit, DeleteClaim, RemovePool, ScaleDown, ReleaseBlock
  <2>2. Platform => UNCHANGED subnet
    BY DEF Platform, SyncSubnet, SyncBlocks, SyncPools, RestartManager
  <2>3. Controllers => UNCHANGED subnet \/ \E t \in SubnetNames :
                         RemoveSubnetFinalizer(t) \/ UpdateSubnetStatus(t)
    BY DEF Controllers, SubnetStep, ForgetSubnet, ClaimStep, MarkPool, GetPool, CreateBlock,
           EndClaim
  <2> QED BY <2>1, <2>2, <2>3 DEF Next
<1> QED BY <1>1, <1>2, <1>3, <1>4, <1>5

\* An update that was let pass on the status of a settled Subnet cuts off no IPBlock.
LEMMA NothingCutOff ==
    ASSUME TypeOK, NEW s \in SubnetNames, Settled(s), Exists(subnet[s]), Current(s),
           NEW spec \in SubnetSpec, Frozen(subnet[s], spec), KeepsUsed(subnet[s], spec),
           NEW b \in BlocksOf(s) \cap Cells(s)
    PROVE  b \in BlocksIn(spec.cidr, spec.size)
<1>1. b \in CIDRs /\ b \subseteq subnet[s].spec.cidr /\ Cardinality(b) = spec.size
  BY DEF Cells, BlocksIn, Frozen
<1>2. CASE spec.cidr = subnet[s].spec.cidr
  BY <1>1, <1>2 DEF BlocksIn
<1>3. CASE subnet[s].spec.cidr \ spec.cidr \subseteq subnet[s].status.free
  <2>1. subnet[s].status = StatusFor(subnet[s].spec, BlocksOf(s))
    BY DEF Current, Settled
  <2>2. subnet[s].status.free = Total(subnet[s].spec) \ UNION BlocksOf(s)
    BY <2>1 DEF StatusFor
  <2>3. b \subseteq spec.cidr
    BY <1>1, <1>3, <2>2
  <2> QED BY <1>1, <2>3 DEF BlocksIn
<1> QED BY <1>2, <1>3 DEF KeepsUsed

\* No IPBlock is left outside the CIDR of its Subnet by a request that is stored while the
\* Subnet has settled (validateIPInUse), even one that was admitted long before, when fewer
\* IPBlocks were in use: the update would conflict with the status patched since.  Nor
\* does a Subnet that has settled go.
THEOREM InsideKept == Spec => StaysInside
<1>1. SubnetInv /\ [Next]_vars =>
        \A s \in SubnetNames : Settled(s) /\ Exists(subnet[s]) =>
          \A b \in BlocksOf(s) \cap Cells(s) :
             b \in BlocksOf(s)' => Exists(subnet'[s]) /\ b \in Cells(s)'
  <2> SUFFICES ASSUME SubnetInv, Next, NEW s \in SubnetNames, Settled(s), Exists(subnet[s]),
                      NEW b \in BlocksOf(s) \cap Cells(s)
               PROVE  Exists(subnet'[s]) /\ b \in Cells(s)'
    BY DEF vars, objects, Cells
  <2>1. TypeOK /\ Admissible /\ Current(s)
    BY DEF SubnetInv
  <2>2. Exists(subnet'[s])
    BY <2>1, GoesByFinalizer DEF RemoveSubnetFinalizer, Dequeue, Settled
  <2>3. CASE subnet'[s].spec = subnet[s].spec
    BY <2>2, <2>3 DEF Cells
  <2>4. ASSUME NEW q \in admitted, Store(q), subnet'[s].spec # subnet[s].spec
        PROVE  b \in Cells(s)'
    <3>1. subnet[s] = q.old /\ subnet'[s].spec = q.spec /\ q.spec \in SubnetSpec
      BY <2>1, <2>4, StoreChange
    <3>2. Frozen(subnet[s], q.spec) /\ KeepsUsed(subnet[s], q.spec)
      BY <2>1, <3>1 DEF Admissible
    <3> QED BY <2>1, <3>1, <3>2, NothingCutOff DEF Cells
  <2>5. CASE \A q \in admitted : ~Store(q)
    BY <2>1, <2>2, <2>3, <2>5, SpecsKept
  <2> QED BY <2>2, <2>3, <2>4, <2>5
<1> QED BY <1>1, InvHolds, PTL DEF Spec, StaysInside

-----------------------------------------------------------------------------
(* Which Subnet a claim is given.                                          *)

\* A candidate that has settled is taken into account exactly when it does.
LEMMA SkippedExact ==
    ASSUME TypeOK, StatusExact, NEW c \in Claims, NEW s \in SubnetNames, Settled(s),
           Exists(subnet[s]) => Whole(s)
    PROVE  Fits(c, s) <=> Exists(seen[s]) /\ ~Skipped(c, s)
<1>1. seen[s] = subnet[s]
  BY DEF Settled
<1>2. CASE ~Exists(subnet[s])
  BY <1>1, <1>2 DEF Fits
<1>3. CASE Exists(subnet[s])
  <2> DEFINE open == Cardinality(Lettable(subnet[s].spec) \ BlocksOf(s))
             room == open * subnet[s].spec.size
  <2>1. subnet[s].status.ready /\ subnet[s].status.spare = open
    <3>1. Whole(s)
      BY <1>3
    <3>2. subnet[s].status =
            [ready |-> TRUE, free |-> UNION (Lettable(subnet[s].spec) \ BlocksOf(s)),
             total |-> Cardinality(Lettable(subnet[s].spec)),
             used |-> Cardinality(BlocksOf(s)), spare |-> open]
      BY <3>1 DEF StatusExact
    <3> HIDE DEF open
    <3> QED BY <3>2
  <2>2. subnet[s].status.spare \in Nat /\ subnet[s].spec.size \in Nat
    BY <1>3 DEF TypeOK, MaybeSubnet, NoSubnet, SubnetObj, SubnetStatus, SubnetSpec, Exists
  <2>3. room \in Nat /\ Replicas[c] \in Nat
    BY <2>1, <2>2
  <2>4. Fits(c, s) <=> subnet[s].spec.version = ClaimVersion[c] /\ room >= Replicas[c]
    BY <1>3 DEF Fits
  <2>5. Skipped(c, s) <=> subnet[s].spec.version # ClaimVersion[c] \/ room < Replicas[c]
    BY <1>1, <1>3, <2>1 DEF Skipped
  <2> HIDE DEF room
  <2> QED BY <1>1, <1>3, <2>3, <2>4, <2>5
<1> QED BY <1>2, <1>3

\* Only MarkPool gives a claim its IPPool.
LEMMA MarkedBy ==
    ASSUME TypeOK, Next, NEW c \in Claims, pool[c].st = "claimed", pool'[c].st = "live"
    PROVE  \E s \in SubnetNames : MarkPool(c, s)
<1> USE DEF objects
<1>1. ASSUME NEW d \in Claims, DeleteClaim(d) \/ RemovePool(d) PROVE FALSE
  <2>1. PICK st \in {"terminating", "gone"} : pool' = [pool EXCEPT ![d].st = st]
    BY <1>1 DEF DeleteClaim, RemovePool
  <2>2. pool'[c] = pool[c] \/ pool'[c] = [pool[c] EXCEPT !.st = st]
    BY <2>1 DEF TypeOK
  <2>3. pool[c] \in PoolObj
    BY DEF TypeOK
  <2> QED BY <2>2, <2>3 DEF PoolObj
<1>2. ASSUME NEW d \in Claims, d # c, NEW s \in SubnetNames, MarkPool(d, s) PROVE FALSE
  BY <1>2 DEF MarkPool, TypeOK
<1>3. \/ UNCHANGED pool \/ (\E d \in Claims : DeleteClaim(d) \/ RemovePool(d))
      \/ \E d \in Claims : \E s \in SubnetNames : MarkPool(d, s)
  <2>1. Users => UNCHANGED pool \/ \E d \in Claims : DeleteClaim(d) \/ RemovePool(d)
    BY DEF Users, AdmitCreate, AdmitUpdate, Admit, Store, DeleteSubnet, ScaleDown, ReleaseBlock
  <2>2. Platform => UNCHANGED pool
    BY DEF Platform, SyncSubnet, SyncBlocks, SyncPools, RestartManager
  <2>3. Controllers => UNCHANGED pool \/ \E d \in Claims : \E s \in SubnetNames : MarkPool(d, s)
    BY DEF Controllers, SubnetStep, ForgetSubnet, RemoveSubnetFinalizer, UpdateSubnetStatus,
           ClaimStep, GetPool, CreateBlock, EndClaim
  <2> QED BY <2>1, <2>2, <2>3 DEF Next
<1>4. ~UNCHANGED pool
  OBVIOUS
<1>5. PICK d \in Claims, s \in SubnetNames : MarkPool(d, s)
  BY <1>1, <1>3, <1>4
<1>6. d = c
  BY <1>2, <1>5
<1> QED BY <1>5, <1>6, Zenon

\* "selectSubnet returns the first Subnet with sufficient IPBlocks": counted in whole
\* IPBlocks, the Subnet a claim is given has room for it and no candidate before has, as
\* far as these Subnets have settled; one whose status is on its way may be misjudged, and
\* a candidate that has none yet is waited for.
THEOREM FirstGiven == Spec => FirstSufficient
<1>1. TypeOK /\ StatusExact /\ [Next]_vars =>
        \A c \in Claims : pool[c].st = "claimed" /\ pool'[c].st = "live" =>
          \E i \in DOMAIN Candidates[c] :
             /\ pool'[c].subnet = Candidates[c][i]
             /\ \A j \in 1 .. i :
                  LET s == Candidates[c][j]
                  IN  Settled(s) /\ (Exists(subnet[s]) => Whole(s))
                         => (Fits(c, s) <=> j = i)
  <2> SUFFICES ASSUME TypeOK, StatusExact, [Next]_vars,
                      NEW c \in Claims, pool[c].st = "claimed", pool'[c].st = "live"
               PROVE  \E i \in DOMAIN Candidates[c] :
                         /\ pool'[c].subnet = Candidates[c][i]
                         /\ \A j \in 1 .. i :
                              LET s == Candidates[c][j]
                              IN  Settled(s) /\ (Exists(subnet[s]) => Whole(s))
                                     => (Fits(c, s) <=> j = i)
    OBVIOUS
  <2>1. Next
    BY DEF vars, objects
  <2>2. PICK t \in SubnetNames : MarkPool(c, t)
    BY <2>1, MarkedBy
  <2>3. PICK i \in DOMAIN Candidates[c] :
          /\ t = Candidates[c][i] /\ ~Skipped(c, t) /\ seen[t].status.ready
          /\ \A j \in 1 .. i - 1 : Skipped(c, Candidates[c][j])
    BY <2>2 DEF MarkPool, Selects
  <2>4. pool'[c].subnet = Candidates[c][i]
    BY <2>2, <2>3 DEF MarkPool, TypeOK
  <2>5. DOMAIN Candidates[c] = 1 .. Len(Candidates[c]) /\ Len(Candidates[c]) \in Nat
        /\ \A j \in DOMAIN Candidates[c] : Candidates[c][j] \in SubnetNames
    BY DEF ClaimsAssumption
  <2>6. ASSUME NEW j \in 1 .. i, Settled(Candidates[c][j]),
               Exists(subnet[Candidates[c][j]]) => Whole(Candidates[c][j])
        PROVE  Fits(c, Candidates[c][j]) <=> j = i
    <3> DEFINE s == Candidates[c][j]
    <3>1. s \in SubnetNames
      BY <2>5
    <3>2. Fits(c, s) <=> Exists(seen[s]) /\ ~Skipped(c, s)
      BY <2>6, <3>1, SkippedExact
    <3>3. CASE j = i
      <4>1. Exists(seen[s])
        BY <2>3, <3>3 DEF Skipped
      <4> QED BY <2>3, <3>2, <3>3, <4>1
    <3>4. CASE j # i
      <4>1. j \in 1 .. i - 1
        BY <2>5, <3>4
      <4> QED BY <2>3, <3>2, <3>4, <4>1
    <3> QED BY <3>3, <3>4
  <2> QED BY <2>4, <2>6
<1> QED BY <1>1, TypeCorrect, StatusDescribes, PTL DEF Spec, FirstSufficient
=============================================================================
