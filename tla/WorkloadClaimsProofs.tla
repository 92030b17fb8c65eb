------------------------- MODULE WorkloadClaimsProofs -------------------------
(***************************************************************************)
(* Theorems about WorkloadClaims: for any workloads, versions, templates   *)
(* and numbers of edits, replacements and faults.                          *)
(***************************************************************************)
EXTENDS WorkloadClaims, TLAPS

USE NoSpecAssumption, TemplatesAssumption, BoundsAssumption DEF caches

\* "No workload" and the idle worker have their types.
LEMMA NoWorkloadType == NoWorkload \in Workload /\ Idle \in Worker
<1>1. NoWorkload \in Workload
  BY DEF NoWorkload, Workload
<1> QED BY <1>1 DEF Idle, Worker

\* Every variable starts with its type, and soundly.
LEMMA StartInit == Init => TypeOK /\ Sound
<1> SUFFICES ASSUME Init PROVE TypeOK /\ Sound
  OBVIOUS
<1>1. TypeOK
  <2>1. budget \in [edits : Nat, faults : Nat] /\ ownerSeen \in [Names -> 0 .. MaxUIDs]
    BY DEF Init
  <2> QED BY <2>1, NoWorkloadType DEF Init, TypeOK, MaybeClaim
<1>2. Sound
  BY DEF Init, Sound, Exists, NoWorkload, NoClaim, Idle
<1> QED BY <1>1, <1>2

\* What a goroutine works on: a claim of a version its workload declares.
LEMMA GoroutineFacts ==
    ASSUME TypeOK, Sound, NEW n \in Names, NEW v \in wr[n].todo, v \in Versions
    PROVE  /\ wr[n] \in Worker /\ wr[n].read \in Workload
           /\ wr[n].read.uid \in UIDs
           /\ wr[n].read.want[v] \in Specs
           /\ KeyOf(v, n, wr[n].read.uid) \in Keys
<1>1. wr[n] \in Worker /\ wr[n].read \in Workload
  BY DEF TypeOK, Worker
<1>2. wr[n].read.uid \in 0 .. MaxUIDs /\ wr[n].read.want \in [Versions -> Specs \cup {NoSpec}]
  BY <1>1 DEF Workload
<1>3. wr[n].read.uid > 0 /\ v \in Declared(wr[n].read)
  BY DEF Sound
<1> QED BY <1>1, <1>2, <1>3 DEF Declared, UIDs, KeyOf, Keys

\* The workers after one goroutine of one of them has ended.
LEMMA TodoType ==
    ASSUME TypeOK, NEW n \in Names, NEW v, NEW f \in BOOLEAN
    PROVE  /\ [wr EXCEPT ![n].todo = @ \ {v}] \in [Names -> Worker]
           /\ [wr EXCEPT ![n].todo = @ \ {v}, ![n].failed = f] \in [Names -> Worker]
<1>1. wr[n] \in Worker
  BY DEF TypeOK
<1>2. [wr[n] EXCEPT !.todo = @ \ {v}] \in Worker
  BY <1>1 DEF Worker
<1>3. [wr[n] EXCEPT !.todo = @ \ {v}, !.failed = f] \in Worker
  BY <1>1 DEF Worker
<1> QED BY <1>2, <1>3 DEF TypeOK

\* A workload after one of its fields has changed.
LEMMA WorkloadUpdate ==
    ASSUME TypeOK, NEW n \in Names
    PROVE  /\ \A want \in Templates : [workload[n] EXCEPT !.want = want] \in Workload
           /\ \A st \in {"terminating", "none"} : [workload[n] EXCEPT !.st = st] \in Workload
<1>1. workload[n] \in Workload
  BY DEF TypeOK
<1>2. ASSUME NEW want \in Templates
      PROVE  [workload[n] EXCEPT !.want = want] \in Workload
  BY <1>1 DEF Workload
<1>3. ASSUME NEW st \in {"terminating", "none"}
      PROVE  [workload[n] EXCEPT !.st = st] \in Workload
  BY <1>1 DEF Workload
<1> QED BY <1>2, <1>3

\* What the claim controller learns of a workload is a UID or 0.
LEMMA OwnerType == TypeOK => \A n \in Names : LiveUID(workload[n]) \in 0 .. MaxUIDs
BY DEF TypeOK, Workload, LiveUID

-----------------------------------------------------------------------------
(* Types.                                                                  *)

\* Steps of users, Kubernetes and informers keep the types.
LEMMA TypeEnvironment ==
    ASSUME TypeOK, Sound,
           \/ \E n \in Names :
                \/ CreateWorkload(n) \/ EditWorkload(n) \/ DeleteWorkload(n)
                \/ RemoveWorkload(n) \/ SyncWorkload(n) \/ SyncOwner(n)
           \/ \E k \in Keys : DeleteClaim(k) \/ GCClaim(k) \/ SyncClaim(k) \/ DropFinalizer(k)
           \/ Restart
    PROVE  TypeOK'
<1>1. ASSUME NEW n \in Names, CreateWorkload(n) PROVE TypeOK'
  <2>1. PICK want \in Templates :
          workload' = [workload EXCEPT ![n] = [st |-> "live", uid |-> @.uid + 1, want |-> want]]
    BY <1>1 DEF CreateWorkload
  <2>2. workload[n].uid \in 0 .. MaxUIDs /\ workload[n].uid < MaxUIDs
    BY <1>1 DEF TypeOK, Workload, CreateWorkload
  <2>3. [st |-> "live", uid |-> workload[n].uid + 1, want |-> want] \in Workload
    BY <2>2 DEF Workload
  <2>4. workload' \in [Names -> Workload]
    BY <2>1, <2>3 DEF TypeOK
  <2>5. \/ budget' = budget
        \/ /\ budget.edits > 0
           /\ budget' = [budget EXCEPT !.edits = @ - 1]
    <3> DEFINE less == [budget EXCEPT !.edits = @ - 1]
    <3>1. CASE workload[n].uid > 0
      <4>1. budget.edits > 0 /\ budget' = less
        BY <1>1, <3>1 DEF CreateWorkload
      <4> QED BY <4>1
    <3>2. CASE ~(workload[n].uid > 0)
      <4>1. budget' = budget
        BY <1>1, <3>2 DEF CreateWorkload
      <4> QED BY <4>1
    <3> QED BY <3>1, <3>2
  <2>6. budget' \in [edits : Nat, faults : Nat]
    BY <2>5 DEF TypeOK
  <2> QED BY <1>1, <2>4, <2>6 DEF CreateWorkload, TypeOK
<1>2. ASSUME NEW n \in Names, EditWorkload(n) PROVE TypeOK'
  <2>1. PICK want \in Templates : workload' = [workload EXCEPT ![n].want = want]
    BY <1>2 DEF EditWorkload
  <2>2. [workload[n] EXCEPT !.want = want] \in Workload
    BY WorkloadUpdate
  <2>4. workload' \in [Names -> Workload]
    BY <2>1, <2>2 DEF TypeOK
  <2>3. budget' \in [edits : Nat, faults : Nat]
    BY <1>2 DEF EditWorkload, TypeOK
  <2> QED BY <1>2, <2>3, <2>4 DEF EditWorkload, TypeOK
<1>3. ASSUME NEW n \in Names, DeleteWorkload(n) PROVE TypeOK'
  <2>1. [workload[n] EXCEPT !.st = "terminating"] \in Workload
    BY WorkloadUpdate
  <2> QED BY <1>3, <2>1 DEF DeleteWorkload, TypeOK
<1>4. ASSUME NEW n \in Names, RemoveWorkload(n) PROVE TypeOK'
  <2>1. [workload[n] EXCEPT !.st = "none"] \in Workload
    BY WorkloadUpdate
  <2> QED BY <1>4, <2>1 DEF RemoveWorkload, TypeOK
<1>5. ASSUME NEW n \in Names, SyncWorkload(n) PROVE TypeOK'
  BY <1>5, NoWorkloadType DEF SyncWorkload, TypeOK
<1>6. ASSUME NEW k \in Keys, DropFinalizer(k) PROVE TypeOK'
  BY <1>6 DEF DropFinalizer, TypeOK, MaybeClaim
<1>7. ASSUME NEW k \in Keys, DeleteClaim(k) \/ GCClaim(k) PROVE TypeOK'
  <2>1. claim[k] \in ClaimObj
    BY <1>7 DEF DeleteClaim, GCClaim, TypeOK, MaybeClaim, NoClaim
  <2>2. [claim[k] EXCEPT !.st = "terminating"] \in MaybeClaim
    BY <2>1 DEF ClaimObj, MaybeClaim
  <2>3. claim' \in [Keys -> MaybeClaim]
    BY <1>7, <2>2 DEF DeleteClaim, GCClaim, TypeOK
  <2>4. budget' \in [edits : Nat, faults : Nat]
    BY <1>7 DEF DeleteClaim, GCClaim, TypeOK
  <2> QED BY <1>7, <2>3, <2>4 DEF DeleteClaim, GCClaim, TypeOK
<1>8. ASSUME NEW k \in Keys, SyncClaim(k) PROVE TypeOK'
  BY <1>8 DEF SyncClaim, TypeOK
<1>9. CASE Restart
  <2>1. budget' \in [edits : Nat, faults : Nat]
    BY <1>9 DEF Restart, TypeOK
  <2>2. ownerSeen' \in [Names -> 0 .. MaxUIDs]
    BY <1>9, OwnerType DEF Restart
  <2> QED BY <1>9, <2>1, <2>2, NoWorkloadType DEF Restart, TypeOK
<1>10. ASSUME NEW n \in Names, SyncOwner(n) PROVE TypeOK'
  BY <1>10, OwnerType DEF SyncOwner, TypeOK
<1> QED BY <1>1, <1>2, <1>3, <1>4, <1>5, <1>6, <1>7, <1>8, <1>9, <1>10

\* Steps of a Reconcile keep the types: a claim asks for what was declared.
LEMMA TypeReconcile ==
    ASSUME TypeOK, Sound, NEW n \in Names,
           WorkloadStep(n) \/ \E v \in Versions : FailCall(n, v)
    PROVE  TypeOK'
<1>1. CASE BeginReconcile(n)
  <2>1. workloadSeen[n] \in Workload /\ Declared(workloadSeen[n]) \subseteq Versions
    BY DEF TypeOK, Declared
  <2>2. wr' \in [Names -> Worker]
    BY <1>1, <2>1, NoWorkloadType DEF BeginReconcile, TypeOK, Worker
  <2> QED BY <1>1, <2>2 DEF BeginReconcile, TypeOK
<1>2. ASSUME NEW v \in Versions, CreateClaim(n, v) PROVE TypeOK'
  <2> DEFINE u == wr[n].read.uid
  <2> DEFINE new == NewClaim(u, wr[n].read.want[v])
  <2>1. new \in MaybeClaim
    BY <1>2, GoroutineFacts DEF CreateClaim, Goroutine, NewClaim, MaybeClaim, ClaimObj, UIDs
  <2>2. claim' \in {claim, [claim EXCEPT ![KeyOf(v, n, u)] = new]}
    BY <1>2 DEF CreateClaim
  <2> HIDE DEF new
  <2>3. claim' \in [Keys -> MaybeClaim]
    BY <2>1, <2>2 DEF TypeOK
  <2>4. wr' \in [Names -> Worker]
    BY <1>2, TodoType DEF CreateClaim
  <2> QED BY <1>2, <2>3, <2>4 DEF CreateClaim, Goroutine, TypeOK
<1>3. ASSUME NEW v \in Versions, KeepClaim(n, v) PROVE TypeOK'
  <2>1. wr' \in [Names -> Worker]
    BY <1>3, TodoType DEF KeepClaim
  <2> QED BY <1>3, <2>1 DEF KeepClaim, Goroutine, TypeOK
<1>4. ASSUME NEW v \in Versions, UpdateClaim(n, v) PROVE TypeOK'
  <2> DEFINE k == KeyOf(v, n, wr[n].read.uid)
  <2> DEFINE want == wr[n].read.want[v]
  <2>1. k \in Keys /\ want \in Specs
    BY <1>4, GoroutineFacts DEF UpdateClaim, Goroutine
  <2>2. \/ claim' = claim
        \/ claim[k] = claimSeen[k] /\ claim' = [claim EXCEPT ![k].spec = want]
    BY <1>4 DEF UpdateClaim
  <2>3. Exists(claimSeen[k])
    BY <1>4 DEF UpdateClaim
  <2> HIDE DEF k, want
  <2>4. claim' \in [Keys -> MaybeClaim]
    <3>1. CASE claim[k] = claimSeen[k] /\ claim' = [claim EXCEPT ![k].spec = want]
      <4>1. claim[k] \in ClaimObj
        BY <2>1, <2>3, <3>1 DEF TypeOK, MaybeClaim, NoClaim, Exists
      <4>2. [claim[k] EXCEPT !.spec = want] \in MaybeClaim
        BY <2>1, <4>1 DEF ClaimObj, MaybeClaim
      <4> QED BY <2>1, <3>1, <4>2 DEF TypeOK
    <3> QED BY <2>2, <3>1 DEF TypeOK
  <2>5. wr' \in [Names -> Worker]
    <3>1. PICK f \in BOOLEAN : wr' = [wr EXCEPT ![n].todo = @ \ {v}, ![n].failed = f]
      <4>1. wr[n].failed \in BOOLEAN
        BY DEF TypeOK, Worker
      <4> QED BY <1>4, <4>1 DEF UpdateClaim
    <3> QED BY <3>1, TodoType
  <2> QED BY <1>4, <2>4, <2>5 DEF UpdateClaim, Goroutine, TypeOK
<1>5. CASE EndReconcile(n)
  BY <1>5, NoWorkloadType DEF EndReconcile, TypeOK
<1>6. ASSUME NEW v \in Versions, FailCall(n, v) PROVE TypeOK'
  <2>1. wr' \in [Names -> Worker]
    BY <1>6, TodoType DEF FailCall
  <2>2. budget.faults > 0 /\ budget' = [budget EXCEPT !.faults = @ - 1]
    BY <1>6 DEF FailCall
  <2>3. budget' \in [edits : Nat, faults : Nat]
    BY <2>2 DEF TypeOK
  <2> QED BY <1>6, <2>1, <2>3 DEF FailCall, Goroutine, TypeOK
<1> QED BY <1>1, <1>2, <1>3, <1>4, <1>5, <1>6 DEF WorkloadStep

-----------------------------------------------------------------------------
(* Sound.                                                                  *)

\* Steps of users, Kubernetes and informers leave workers and names sound.
LEMMA SoundEnvironment ==
    ASSUME TypeOK, Sound,
           \/ \E n \in Names :
                \/ CreateWorkload(n) \/ EditWorkload(n) \/ DeleteWorkload(n)
                \/ RemoveWorkload(n) \/ SyncWorkload(n) \/ SyncOwner(n)
           \/ \E k \in Keys : DeleteClaim(k) \/ GCClaim(k) \/ SyncClaim(k) \/ DropFinalizer(k)
           \/ Restart
    PROVE  Sound'
<1> USE DEF Exists
<1>0. /\ workload \in [Names -> Workload] /\ workloadSeen \in [Names -> Workload]
      /\ \A m \in Names : workload[m].uid \in Nat /\ workloadSeen[m].uid \in Nat
  BY DEF TypeOK, Workload
<1>1. ASSUME NEW n \in Names, CreateWorkload(n) PROVE Sound'
  <2>1. PICK want \in Templates :
          workload' = [workload EXCEPT ![n] = [st |-> "live", uid |-> @.uid + 1, want |-> want]]
    BY <1>1 DEF CreateWorkload
  <2>2. \A m \in Names : workload'[m] = IF m = n
          THEN [st |-> "live", uid |-> workload[n].uid + 1, want |-> want] ELSE workload[m]
    BY <1>0, <2>1
  <2>3. UNCHANGED <<claim, workloadSeen, wr>>
    BY <1>1 DEF CreateWorkload
  <2> QED BY <1>0, <2>2, <2>3 DEF Sound, Declared
<1>2. ASSUME NEW n \in Names, EditWorkload(n) \/ DeleteWorkload(n) \/ RemoveWorkload(n)
      PROVE  Sound'
  <2>1. \A m \in Names : /\ workload'[m].uid = workload[m].uid
                         /\ Exists(workload'[m]) => Exists(workload[m])
    <3>1. CASE EditWorkload(n)
      <4>1. PICK want \in Templates : workload' = [workload EXCEPT ![n].want = want]
        BY <3>1 DEF EditWorkload
      <4>2. workload[n] \in Workload /\ workload'[n] = [workload[n] EXCEPT !.want = want]
        BY <1>0, <4>1
      <4> QED BY <1>0, <4>1, <4>2 DEF Workload
    <3>2. CASE DeleteWorkload(n) \/ RemoveWorkload(n)
      <4>1. PICK st \in {"terminating", "none"} : workload' = [workload EXCEPT ![n].st = st]
        BY <3>2 DEF DeleteWorkload, RemoveWorkload
      <4>2. workload[n] \in Workload /\ workload'[n] = [workload[n] EXCEPT !.st = st]
        BY <1>0, <4>1
      <4>3. Exists(workload[n])
        BY <3>2 DEF DeleteWorkload, RemoveWorkload
      <4> QED BY <1>0, <4>1, <4>2, <4>3 DEF Workload
    <3> QED BY <1>2, <3>1, <3>2
  <2>2. UNCHANGED <<claim, workloadSeen, wr>>
    BY <1>2 DEF EditWorkload, DeleteWorkload, RemoveWorkload
  <2> QED BY <2>1, <2>2 DEF Sound, Declared
<1>3. ASSUME NEW n \in Names, SyncWorkload(n) PROVE Sound'
  <2>1. \A m \in Names : workloadSeen'[m] \in {workloadSeen[m], workload[m], NoWorkload}
    BY <1>0, <1>3 DEF SyncWorkload
  <2>2. UNCHANGED <<workload, claim, wr>>
    BY <1>3 DEF SyncWorkload
  <2> QED BY <1>0, <2>1, <2>2 DEF Sound, Declared, NoWorkload
<1>4. ASSUME NEW k \in Keys, DeleteClaim(k) \/ GCClaim(k) \/ DropFinalizer(k) PROVE Sound'
  <2>1. claim' \in {[claim EXCEPT ![k] = NoClaim], [claim EXCEPT ![k].st = "terminating"]}
    BY <1>4 DEF GCClaim, DeleteClaim, DropFinalizer
  <2>2. \A j \in Keys : Exists(claim'[j]) => claim'[j].owner = claim[j].owner /\ Exists(claim[j])
    <3>1. Exists(claim[k]) /\ claim[k] \in ClaimObj
      BY <1>4 DEF TypeOK, MaybeClaim, NoClaim, GCClaim, DeleteClaim, DropFinalizer
    <3> QED BY <2>1, <3>1 DEF TypeOK, ClaimObj, NoClaim
  <2>3. UNCHANGED <<workload, workloadSeen, wr>>
    BY <1>4 DEF GCClaim, DeleteClaim, DropFinalizer
  <2> QED BY <2>2, <2>3 DEF Sound, Declared
<1>5. ASSUME NEW k \in Keys, SyncClaim(k) PROVE Sound'
  BY <1>5 DEF SyncClaim, Sound, Declared
<1>6. CASE Restart
  <2>1. workloadSeen' = workload /\ wr' = [n \in Names |-> Idle] /\ UNCHANGED <<workload, claim>>
    BY <1>6 DEF Restart
  <2> QED BY <1>0, <2>1 DEF Sound, Declared, Idle
<1>7. ASSUME NEW n \in Names, SyncOwner(n) PROVE Sound'
  BY <1>7 DEF SyncOwner, Sound, Declared
<1> QED BY <1>1, <1>2, <1>3, <1>4, <1>5, <1>6, <1>7

\* Steps of a Reconcile: claims are created with the owner in their name.
LEMMA SoundReconcile ==
    ASSUME TypeOK, Sound, NEW n \in Names,
           WorkloadStep(n) \/ \E v \in Versions : FailCall(n, v)
    PROVE  Sound'
<1> USE DEF Exists
<1>1. CASE BeginReconcile(n)
  <2>1. UNCHANGED <<workload, workloadSeen, claim>>
    BY <1>1 DEF BeginReconcile
  <2>2. \A m \in Names : wr'[m] = wr[m] \/ wr'[m].todo = {}
                       \/ /\ wr'[m].busy
                          /\ wr'[m].read = workloadSeen[m]
                          /\ workloadSeen[m].st = "live"
                          /\ wr'[m].todo = Declared(workloadSeen[m])
    BY <1>1 DEF BeginReconcile, Idle, TypeOK
  <2> QED BY <2>1, <2>2 DEF Sound, Declared
<1>2. CASE EndReconcile(n)
  <2>1. UNCHANGED <<workload, workloadSeen, claim>>
    BY <1>2 DEF EndReconcile
  <2>2. \A m \in Names : wr'[m] = wr[m] \/ wr'[m].todo = {}
    BY <1>2 DEF EndReconcile, Idle, TypeOK
  <2> QED BY <2>1, <2>2 DEF Sound, Declared
<1>3. ASSUME NEW v \in Versions,
             CreateClaim(n, v) \/ KeepClaim(n, v) \/ UpdateClaim(n, v) \/ FailCall(n, v)
      PROVE  Sound'
  <2>1. UNCHANGED <<workload, workloadSeen>> /\ v \in wr[n].todo
    BY <1>3 DEF CreateClaim, KeepClaim, UpdateClaim, FailCall, Goroutine
  <2>2. \A m \in Names : /\ wr'[m].read = wr[m].read /\ wr'[m].busy = wr[m].busy
                         /\ wr'[m].todo \subseteq wr[m].todo
    BY <1>3 DEF CreateClaim, KeepClaim, UpdateClaim, FailCall, TypeOK, Worker
  <2>3. \A j \in Keys : Exists(claim'[j]) => claim'[j].owner = j[3]
    <3> DEFINE u == wr[n].read.uid
    <3> DEFINE k == KeyOf(v, n, u)
    <3> DEFINE want == wr[n].read.want[v]
    <3>1. \/ claim' = claim
          \/ claim' = [claim EXCEPT ![k] = NewClaim(u, want)]
          \/ claim' = [claim EXCEPT ![k].spec = want] /\ Exists(claim[k])
      BY <1>3 DEF CreateClaim, KeepClaim, UpdateClaim, FailCall
    <3>2. k \in Keys /\ k[3] = u
      BY <2>1, GoroutineFacts DEF KeyOf
    <3>3. CASE claim' = [claim EXCEPT ![k] = NewClaim(u, want)]
      BY <3>2, <3>3 DEF NewClaim, Sound, TypeOK
    <3>4. CASE claim' = [claim EXCEPT ![k].spec = want] /\ Exists(claim[k])
      <4>1. claim[k] \in ClaimObj
        BY <3>2, <3>4 DEF TypeOK, MaybeClaim, NoClaim
      <4> QED BY <3>2, <3>4, <4>1 DEF Sound, TypeOK, ClaimObj
    <3> QED BY <3>1, <3>3, <3>4 DEF Sound
  <2> QED BY <2>1, <2>2, <2>3 DEF Sound, Declared
<1> QED BY <1>1, <1>2, <1>3 DEF WorkloadStep

\* TypeOK and Sound together are inductive.
LEMMA StartStep == TypeOK /\ Sound /\ [Next]_vars => (TypeOK /\ Sound)'
<1>1. TypeOK /\ Sound /\ Next => (TypeOK /\ Sound)'
  BY TypeEnvironment, TypeReconcile, SoundEnvironment, SoundReconcile DEF Next
<1>2. TypeOK /\ Sound /\ UNCHANGED vars => (TypeOK /\ Sound)'
  BY DEF TypeOK, Sound, Exists, Declared, vars
<1> QED BY <1>1, <1>2

-----------------------------------------------------------------------------
(* Pursued.                                                                *)

\* The claims that a live cached workload of name m has asked for.
Kept(m) ==
    LET w == workloadSeen[m]
    IN  workload[m].st = "live" /\ w.st = "live" /\ w.uid = workload[m].uid
          => \A v \in Declared(w) : Asked(m, v, w) => Asked(m, v, w)'

\* A step that leaves the worker, the place in the queue and the cached workload
\* of a name as they are, revives no workload and keeps its claims.
LEMMA Unmoved ==
    ASSUME NEW m \in Names, Pursued(m), Kept(m),
           workloadSeen'[m] = workloadSeen[m],
           wr'[m] = wr[m],
           m \in workQ => m \in workQ',
           workload'[m].st = "live" /\ workload'[m].uid = workloadSeen[m].uid
              => workload[m].st = "live" /\ workload[m].uid = workloadSeen[m].uid
    PROVE  Pursued(m)'
BY DEF Pursued, Kept, Asked, Declared, Exists

\* Claims of a name that do not change are kept.
LEMMA SameClaims ==
    ASSUME NEW m \in Names, workloadSeen'[m] = workloadSeen[m],
           \A k \in Keys : k[2] = m => claim'[k] = claim[k],
           TypeOK, Sound
    PROVE  Kept(m)
<1> SUFFICES ASSUME workloadSeen[m].st = "live", NEW v \in Declared(workloadSeen[m])
             PROVE  claim'[<<v, m, workloadSeen[m].uid>>] = claim[<<v, m, workloadSeen[m].uid>>]
  BY DEF Kept, Asked, Exists
<1>1. workloadSeen[m].uid \in UIDs
  BY DEF TypeOK, Workload, Sound, Exists, UIDs
<1> QED BY <1>1 DEF Keys, Declared

\* What users, Kubernetes, informers and the claim controller do: a claim that has been
\* deleted stays if its workload lives, and whatever the cache learns is queued.
LEMMA PursuedEnvironment ==
    ASSUME FollowInv, NEW m \in Names,
           \/ \E n \in Names :
                \/ CreateWorkload(n) \/ EditWorkload(n) \/ DeleteWorkload(n)
                \/ RemoveWorkload(n) \/ SyncWorkload(n) \/ SyncOwner(n)
           \/ \E k \in Keys : DeleteClaim(k) \/ GCClaim(k) \/ SyncClaim(k) \/ DropFinalizer(k)
           \/ Restart
    PROVE  Pursued(m)'
<1>0. TypeOK /\ Sound /\ Pursued(m) /\ workload[m] \in Workload
  BY DEF FollowInv, TypeOK
<1>1. ASSUME NEW n \in Names,
             CreateWorkload(n) \/ EditWorkload(n) \/ DeleteWorkload(n) \/ RemoveWorkload(n)
      PROVE  Pursued(m)'
  <2>1. UNCHANGED <<claim, workloadSeen, workQ, wr>>
    BY <1>1 DEF CreateWorkload, EditWorkload, DeleteWorkload, RemoveWorkload
  <2>2. workload'[m].st = "live" /\ workload'[m].uid = workloadSeen[m].uid
          => workload[m].st = "live" /\ workload[m].uid = workloadSeen[m].uid
    <3>1. CASE CreateWorkload(n)
      <4>1. PICK want \in Templates :
              workload' = [workload EXCEPT ![n] = [st |-> "live", uid |-> @.uid + 1, want |-> want]]
        BY <3>1 DEF CreateWorkload
      <4>2. m = n => workload'[m].uid = workload[m].uid + 1
        BY <4>1 DEF TypeOK, FollowInv
      <4>3. workloadSeen[m].uid <= workload[m].uid
            /\ workloadSeen[m].uid \in Nat /\ workload[m].uid \in Nat
        BY <1>0 DEF Sound, TypeOK, Workload
      <4> QED BY <4>1, <4>2, <4>3
    <3>2. CASE EditWorkload(n)
      <4>1. PICK want \in Templates : workload' = [workload EXCEPT ![n].want = want]
        BY <3>2 DEF EditWorkload
      <4>2. m = n => workload'[m] = [workload[m] EXCEPT !.want = want]
        BY <1>0, <4>1 DEF TypeOK
      <4> QED BY <1>0, <4>1, <4>2 DEF Workload
    <3>3. CASE DeleteWorkload(n) \/ RemoveWorkload(n)
      <4>1. PICK st \in {"terminating", "none"} : workload' = [workload EXCEPT ![n].st = st]
        BY <3>3 DEF DeleteWorkload, RemoveWorkload
      <4>2. m = n => workload'[m] = [workload[m] EXCEPT !.st = st]
        BY <1>0, <4>1 DEF TypeOK
      <4> QED BY <1>0, <4>1, <4>2 DEF Workload
    <3> QED BY <1>1, <3>1, <3>2, <3>3
  <2> QED BY <1>0, <2>1, <2>2, SameClaims, Unmoved
<1>2. ASSUME NEW n \in Names, SyncWorkload(n) PROVE Pursued(m)'
  <2>1. CASE m = n
    <3>1. m \in workQ'
      BY <1>2, <2>1 DEF SyncWorkload
    <3> QED BY <3>1 DEF Pursued
  <2>2. CASE m # n
    <3>1. /\ UNCHANGED <<claim, workload, wr>> /\ workQ \subseteq workQ'
          /\ workloadSeen'[m] = workloadSeen[m]
      BY <1>0, <1>2, <2>2 DEF SyncWorkload, TypeOK
    <3> QED BY <1>0, <3>1, SameClaims, Unmoved
  <2> QED BY <2>1, <2>2
<1>3. ASSUME NEW k \in Keys, DropFinalizer(k) PROVE Pursued(m)'
  <2>1. /\ UNCHANGED <<workload, workloadSeen, workQ, wr>> /\ ~OwnerLives(k)
        /\ claim' = [claim EXCEPT ![k] = NoClaim] /\ Exists(claim[k])
        /\ claim[k] = claimSeen[k] /\ claimSeen[k].st = "terminating"
    BY <1>3 DEF DropFinalizer, Exists
  <2>2. Kept(m)
    <3> SUFFICES ASSUME workload[m].st = "live", workloadSeen[m].uid = workload[m].uid,
                        NEW v \in Declared(workloadSeen[m])
                 PROVE  <<v, m, workloadSeen[m].uid>> # k
      BY <2>1 DEF Kept, Asked, Exists, TypeOK
    <3>1. claim[k].owner = k[3]
      BY <1>0, <2>1 DEF Sound
    <3>2. ASSUME <<v, m, workloadSeen[m].uid>> = k PROVE FALSE
      <4>1. k[2] = m /\ k[3] = workload[m].uid
        BY <3>2
      <4>2. ownerSeen[m] = workload[m].uid
        BY <2>1, <4>1 DEF FollowInv, Pace, OwnersKnown
      <4>3. workload[m].uid # 0
        BY <1>0 DEF Sound, Exists
      <4> QED BY <2>1, <3>1, <4>1, <4>2, <4>3 DEF OwnerLives
    <3> QED BY <3>2
  <2> QED BY <1>0, <2>1, <2>2, Unmoved
<1>4. ASSUME NEW k \in Keys, DeleteClaim(k) \/ GCClaim(k) PROVE Pursued(m)'
  <2>1. /\ UNCHANGED <<workload, workloadSeen, workQ, wr>>
        /\ claim' = [claim EXCEPT ![k].st = "terminating"] /\ claim[k].st = "live"
    BY <1>4 DEF DeleteClaim, GCClaim
  <2>2. claim[k] \in ClaimObj
    BY <1>0, <2>1 DEF TypeOK, MaybeClaim, NoClaim
  <2>3. claim'[k] = [claim[k] EXCEPT !.st = "terminating"]
    BY <1>0, <2>1 DEF TypeOK
  <2>4. claim'[k].st = "terminating" /\ claim'[k].spec = claim[k].spec
    BY <2>2, <2>3 DEF ClaimObj
  <2>5. Kept(m)
    BY <1>0, <2>1, <2>4 DEF Kept, Asked, Exists, TypeOK
  <2> QED BY <1>0, <2>1, <2>5, Unmoved
<1>5. ASSUME NEW k \in Keys, SyncClaim(k) PROVE Pursued(m)'
  BY <1>0, <1>5, SameClaims, Unmoved DEF SyncClaim
<1>6. CASE Restart
  <2>1. /\ wr' = [n \in Names |-> Idle] /\ workloadSeen' = workload
        /\ workQ' = {n \in Names : Exists(workload[n])}
    BY <1>6 DEF Restart
  <2> QED BY <2>1 DEF Pursued, Idle, Exists
<1>7. ASSUME NEW n \in Names, SyncOwner(n) PROVE Pursued(m)'
  BY <1>0, <1>7, SameClaims, Unmoved DEF SyncOwner
<1> QED BY <1>1, <1>2, <1>3, <1>4, <1>5, <1>6, <1>7

\* A goroutine of n leaves the claims of n's workload that are asked for, and
\* asks for its own or fails.
LEMMA GoroutineAsks ==
    ASSUME FollowInv, NEW n \in Names, NEW v \in Versions,
           CreateClaim(n, v) \/ KeepClaim(n, v) \/ UpdateClaim(n, v) \/ FailCall(n, v)
    PROVE  /\ \A x \in Versions : Asked(n, x, wr[n].read) => Asked(n, x, wr[n].read)'
           /\ Asked(n, v, wr[n].read)' \/ wr'[n].failed
<1> DEFINE w == wr[n].read
<1> DEFINE k == KeyOf(v, n, w.uid)
<1>0. TypeOK /\ Sound /\ ClaimsKnown /\ v \in wr[n].todo
  BY DEF FollowInv, Pace, CreateClaim, KeepClaim, UpdateClaim, FailCall, Goroutine
<1>1. k = <<v, n, w.uid>> /\ k \in Keys /\ wr[n] \in Worker /\ wr'[n].read = w
  <2>1. k \in Keys /\ wr[n] \in Worker
    BY <1>0, GoroutineFacts
  <2>2. wr'[n].read = w
    BY <2>1 DEF CreateClaim, KeepClaim, UpdateClaim, FailCall, Worker, TypeOK, FollowInv
  <2> QED BY <2>1, <2>2 DEF KeyOf
<1>2. /\ Exists(claimSeen[k]) <=> Exists(claim[k])
      /\ Exists(claim[k]) => claimSeen[k].spec = claim[k].spec
  BY <1>0 DEF ClaimsKnown
<1>3. ASSUME NEW x \in Versions, x # v
      PROVE  claim'[<<x, n, w.uid>>] = claim[<<x, n, w.uid>>]
  <2>1. <<x, n, w.uid>> \in Keys /\ <<x, n, w.uid>> # k
    BY <1>1, <1>3 DEF Keys
  <2>2. \E new : claim' \in {claim, [claim EXCEPT ![k] = new]}
    <3>1. claim' \in {claim, [claim EXCEPT ![k] = NewClaim(w.uid, w.want[v])],
                      [claim EXCEPT ![k] = [claim[k] EXCEPT !.spec = w.want[v]]]}
      BY DEF CreateClaim, KeepClaim, UpdateClaim, FailCall
    <3> QED BY <3>1
  <2> QED BY <1>0, <2>1, <2>2 DEF TypeOK
<1>4. /\ Exists(claim[k]) /\ claim[k].spec = w.want[v]
            => Exists(claim'[k]) /\ claim'[k].spec = w.want[v]
      /\ (Exists(claim'[k]) /\ claim'[k].spec = w.want[v]) \/ wr'[n].failed
  <2>1. CASE CreateClaim(n, v)
    <3>1. claim' = [claim EXCEPT ![k] = NewClaim(w.uid, w.want[v])] /\ ~Exists(claim[k])
      BY <1>2, <2>1 DEF CreateClaim
    <3> QED BY <1>0, <1>1, <3>1 DEF TypeOK, NewClaim, Exists
  <2>2. CASE KeepClaim(n, v)
    BY <1>2, <2>2 DEF KeepClaim
  <2>3. CASE UpdateClaim(n, v)
    <3>1. Exists(claim[k]) /\ claim[k].spec # w.want[v]
      BY <1>2, <2>3 DEF UpdateClaim
    <3>2. CASE claim[k] = claimSeen[k]
      <4>1. claim[k] \in ClaimObj /\ claim' = [claim EXCEPT ![k].spec = w.want[v]]
        BY <1>0, <1>1, <2>3, <3>1, <3>2 DEF UpdateClaim, TypeOK, MaybeClaim, NoClaim, Exists
      <4>2. claim'[k] = [claim[k] EXCEPT !.spec = w.want[v]]
        BY <1>0, <1>1, <4>1 DEF TypeOK
      <4> QED BY <3>1, <4>1, <4>2 DEF Exists, ClaimObj
    <3>3. CASE claim[k] # claimSeen[k]
      BY <1>0, <1>1, <2>3, <3>1, <3>3 DEF UpdateClaim, TypeOK, Worker
    <3> QED BY <3>2, <3>3
  <2>4. CASE FailCall(n, v)
    <3>1. claim' = claim /\ wr'[n].failed
      BY <1>0, <1>1, <2>4 DEF FailCall, TypeOK, Worker
    <3> QED BY <3>1
  <2> QED BY <2>1, <2>2, <2>3, <2>4
<1> QED BY <1>1, <1>3, <1>4 DEF Asked, Exists

\* What a Reconcile does: it ends with the claims asked for, or its name queued.
LEMMA PursuedReconcile ==
    ASSUME FollowInv, NEW n \in Names, NEW m \in Names,
           WorkloadStep(n) \/ \E v \in Versions : FailCall(n, v)
    PROVE  Pursued(m)'
<1>0. TypeOK /\ Sound /\ Pursued(m) /\ wr[m] \in Worker
  BY DEF FollowInv, TypeOK
<1>1. UNCHANGED <<workload, workloadSeen>>
  BY DEF WorkloadStep, BeginReconcile, EndReconcile, CreateClaim, KeepClaim, UpdateClaim,
         FailCall, Goroutine
<1>2. CASE m # n
  <2>1. wr'[m] = wr[m] /\ (m \in workQ => m \in workQ')
    BY <1>0, <1>2 DEF WorkloadStep, BeginReconcile, EndReconcile, CreateClaim, KeepClaim,
       UpdateClaim, FailCall, Goroutine, TypeOK
  <2>2. ASSUME NEW k \in Keys, k[2] = m PROVE claim'[k] = claim[k]
    <3>1. \A v \in Versions : KeyOf(v, n, wr[n].read.uid) # k
      BY <1>2, <2>2 DEF KeyOf
    <3> QED BY <1>0, <3>1 DEF WorkloadStep, BeginReconcile, EndReconcile, CreateClaim, KeepClaim,
       UpdateClaim, FailCall, Goroutine, TypeOK
  <2> QED BY <1>0, <1>1, <2>1, <2>2, SameClaims, Unmoved
<1>3. CASE m = n /\ BeginReconcile(n)
  <2>1. UNCHANGED claim
    BY <1>3 DEF BeginReconcile
  <2>2. wr'[n] = IF workloadSeen[n].st = "live" /\ Declared(workloadSeen[n]) # {}
                 THEN [busy |-> TRUE, read |-> workloadSeen[n],
                       todo |-> Declared(workloadSeen[n]), failed |-> FALSE]
                 ELSE Idle
    BY <1>0, <1>3 DEF BeginReconcile, TypeOK
  <2> QED BY <1>1, <1>3, <2>1, <2>2 DEF Pursued, Declared, Idle
<1>4. CASE m = n /\ EndReconcile(n)
  <2>1. /\ UNCHANGED claim /\ wr[n].todo = {} /\ wr'[n] = Idle
        /\ workQ' = IF wr[n].failed THEN workQ \cup {n} ELSE workQ
    BY <1>0, <1>4 DEF EndReconcile, TypeOK
  <2> QED BY <1>0, <1>1, <1>4, <2>1 DEF Pursued, Declared, Idle, Asked, Exists
<1>5. ASSUME m = n, NEW v \in Versions,
             CreateClaim(n, v) \/ KeepClaim(n, v) \/ UpdateClaim(n, v) \/ FailCall(n, v)
      PROVE  Pursued(m)'
  <2>1. /\ wr'[n].busy = wr[n].busy /\ wr'[n].read = wr[n].read
        /\ wr'[n].todo = wr[n].todo \ {v} /\ (wr[n].failed => wr'[n].failed)
        /\ wr[n].busy /\ workQ' = workQ
    BY <1>0, <1>5 DEF CreateClaim, KeepClaim, UpdateClaim, FailCall, Goroutine, TypeOK, Worker,
       Sound
  <2>2. CASE n \in workQ
    BY <1>5, <2>1, <2>2 DEF Pursued
  <2>3. CASE n \notin workQ
    <3>1. wr[n].read = workloadSeen[n]
      BY <1>0, <1>5, <2>1, <2>3 DEF Pursued
    <3> DEFINE w == workloadSeen[n]
    <3>2. /\ \A x \in Declared(w) : Asked(n, x, w) => Asked(n, x, w)'
          /\ Asked(n, v, w)' \/ wr'[n].failed
      <4>1. wr'[n].read = w /\ workloadSeen'[n] = w
        BY <1>1, <2>1, <3>1
      <4> QED BY <1>5, <3>1, <4>1, GoroutineAsks DEF Declared, Asked, Exists
    <3>3. w' = w
      BY <1>1
    <3> QED BY <1>0, <1>1, <1>5, <2>1, <2>3, <3>1, <3>2 DEF Pursued, Declared, Asked, Exists
  <2> QED BY <2>2, <2>3
<1> QED BY <1>2, <1>3, <1>4, <1>5 DEF WorkloadStep

-----------------------------------------------------------------------------
\* FollowInv holds at the start: nothing is cached.
LEMMA FollowInit == Init => FollowInv
<1>1. ASSUME Init PROVE Pace /\ \A n \in Names : Pursued(n)
  BY <1>1 DEF Init, Pace, ClaimsKnown, OwnersKnown, Pursued, Idle, NoWorkload, NoClaim
<1> QED BY <1>1, StartInit DEF FollowInv

\* Every paced step keeps it.
LEMMA FollowStep == FollowInv /\ [PacedNext]_vars => FollowInv'
<1>1. ASSUME FollowInv, PacedNext PROVE FollowInv'
  <2>1. (TypeOK /\ Sound)' /\ Pace'
    BY <1>1, StartStep DEF PacedNext, FollowInv
  <2>2. ASSUME NEW m \in Names PROVE Pursued(m)'
    BY <1>1, PursuedEnvironment, PursuedReconcile DEF PacedNext, Next
  <2> QED BY <2>1, <2>2 DEF FollowInv
<1>2. ASSUME FollowInv, UNCHANGED vars PROVE FollowInv'
  <2>1. (TypeOK /\ Sound)'
    BY <1>2, StartStep DEF FollowInv
  <2>2. Pace'
    BY <1>2 DEF FollowInv, Pace, ClaimsKnown, OwnersKnown, vars, KeyOf, Exists
  <2>3. \A n \in Names : Pursued(n)'
    BY <1>2 DEF FollowInv, Pursued, Asked, Declared, Exists, vars
  <2> QED BY <2>1, <2>2, <2>3 DEF FollowInv
<1> QED BY <1>1, <1>2

\* At rest, what is pursued is reached.
LEMMA FollowEnough == FollowInv => ClaimsFollow
<1> SUFFICES ASSUME FollowInv, AtRest, NEW n \in Names, workload[n].st = "live",
                    NEW v \in Declared(workload[n])
             PROVE  \E u \in UIDs :
                      LET c == claim[<<v, n, u>>]
                      IN  Exists(c) /\ c.owner = workload[n].uid /\ c.spec = workload[n].want[v]
  BY DEF ClaimsFollow, Followed
<1>1. Asked(n, v, workload[n])
  BY DEF FollowInv, Pursued, AtRest, Idle
<1>2. workload[n].uid \in UIDs
  BY DEF FollowInv, TypeOK, Workload, Sound, Exists, UIDs
<1>3. claim[<<v, n, workload[n].uid>>].owner = workload[n].uid
  <2>1. <<v, n, workload[n].uid>> \in Keys
    BY <1>2 DEF Keys, Declared
  <2> QED BY <1>1, <2>1 DEF FollowInv, Sound, Asked
<1> QED BY <1>1, <1>2, <1>3 DEF Asked

\* Every variable keeps its type, whatever the pace of changes: a claim never
\* asks for what no template declares (ensureClaims, ensureClaim).
THEOREM TypeCorrect == Spec => []TypeOK
<1>1. TypeOK /\ Sound => TypeOK
  OBVIOUS
<1> QED BY <1>1, StartInit, StartStep, PTL DEF Spec

\* A cached workload that lives is asked for, queued or being worked on, in
\* every state (Reconcile and ensureClaims with its goroutines).
THEOREM FollowHolds == PacedSpec => []FollowInv
<1> QED BY FollowInit, FollowStep, PTL DEF PacedSpec

\* Once the queue, the workers and the informers are at rest, each version that
\* a live workload declares has a claim of its own that asks for what the
\* workload says (ensureClaim), however many workloads, versions and faults.
THEOREM ClaimsAlwaysFollow == PacedSpec => []ClaimsFollow
<1> QED BY FollowHolds, FollowEnough, PTL
=============================================================================
