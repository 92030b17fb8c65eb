---------------------------- MODULE WorkloadClaims ----------------------------
(***************************************************************************)
(* The workload controllers (pkg/controller/workload): they keep an        *)
(* IPPoolClaim for each IP version that the template of a Deployment or a  *)
(* StatefulSet declares.  The two controllers do the same for their kind.  *)
(* What a claim asks for is one value, replicas and candidate Subnets      *)
(* together; Kubernetes' garbage collector and the claim controller        *)
(* (pkg/controller/ippoolclaim_controller.go) appear as far as they let    *)
(* claims go.                                                              *)
(***************************************************************************)
EXTENDS Integers, FiniteSets

CONSTANTS Names,    \* names of workloads, each with its namespace and kind
          Versions, \* IP versions
          Specs,    \* what a claim can ask for
          NoSpec,   \* the version is not declared
          Templates, \* what users declare, by version
          MaxUIDs, MaxEdits, MaxFaults \* bounds of the runs

ASSUME NoSpecAssumption == NoSpec \notin Specs
ASSUME TemplatesAssumption == Templates \subseteq [Versions -> Specs \cup {NoSpec}]
ASSUME BoundsAssumption == MaxUIDs \in Nat /\ MaxEdits \in Nat /\ MaxFaults \in Nat

VARIABLES
    workload,     \* the workload of each name, with the number of its UID
    claim,        \* IPPoolClaim objects
    workloadSeen, \* cached workloads
    ownerSeen,    \* cached metadata of workloads, for the claim controller
    claimSeen,    \* cached claims
    workQ,        \* the work queue
    wr,           \* the Reconcile in progress for each name
    budget        \* how many edits and faults are left

caches == <<workloadSeen, ownerSeen, claimSeen>>
vars == <<workload, claim, caches, workQ, wr, budget>>

UIDs == 1 .. MaxUIDs

\* The name of a workload that does not exist keeps the last UID.
Workload == [st : {"none", "live", "terminating"}, uid : 0 .. MaxUIDs,
             want : [Versions -> Specs \cup {NoSpec}]]

\* What the claim controller asks of metadata: the UID, or 0 of a workload that is
\* gone or terminating.
LiveUID(w) == IF w.st = "live" THEN w.uid ELSE 0

\* owner is the UID in the controller reference, 0 when there is none.
ClaimObj == [st : {"live", "terminating"}, owner : 0 .. MaxUIDs, spec : Specs]
NoClaim == [st |-> "none"]
MaybeClaim == ClaimObj \cup {NoClaim}

Exists(object) == object.st # "none"

\* Mutant: the name of a claim is made without the UID.
KeyOfName(v, n, u) == <<v, n, 1>>

\* ensureClaim: the name of a claim is made from version, name and UID.
KeyOf(v, n, u) == <<v, n, u>>

Keys == Versions \X Names \X UIDs

NoWorkload == [st |-> "none", uid |-> 0, want |-> [v \in Versions |-> NoSpec]]

\* A Reconcile: the workload it read, and the goroutines that have not ended.
Worker == [busy : BOOLEAN, read : Workload, todo : SUBSET Versions, failed : BOOLEAN]
Idle == [busy |-> FALSE, read |-> NoWorkload, todo |-> {}, failed |-> FALSE]

TypeOK ==
    /\ workload \in [Names -> Workload]
    /\ claim \in [Keys -> MaybeClaim]
    /\ workloadSeen \in [Names -> Workload]
    /\ ownerSeen \in [Names -> 0 .. MaxUIDs]
    /\ claimSeen \in [Keys -> MaybeClaim]
    /\ workQ \subseteq Names
    /\ wr \in [Names -> Worker]
    /\ budget \in [edits : Nat, faults : Nat]

Init ==
    /\ workload = [n \in Names |-> NoWorkload]
    /\ claim = [k \in Keys |-> NoClaim]
    /\ workloadSeen = workload /\ claimSeen = claim
    /\ ownerSeen = [n \in Names |-> 0]
    /\ workQ = {}
    /\ wr = [n \in Names |-> Idle]
    /\ budget = [edits |-> MaxEdits, faults |-> MaxFaults]

-----------------------------------------------------------------------------
(* Users and Kubernetes.                                                   *)

\* Mutant: a version without Subnets is declared too.
DeclaredAll(w) == Versions

\* parseClaims: the versions for which the template names Subnets.
Declared(w) == {v \in Versions : w.want[v] # NoSpec}

\* Created for the first time, or replaced ("kubectl replace --force"), which counts as
\* an edit.
CreateWorkload(n) ==
    LET replaced == workload[n].uid > 0
    IN  /\ ~Exists(workload[n])
        /\ workload[n].uid < MaxUIDs
        /\ replaced => budget.edits > 0
        /\ \E want \in Templates :
             workload' = [workload EXCEPT ![n] =
                            [st |-> "live", uid |-> @.uid + 1, want |-> want]]
        /\ budget' = IF replaced THEN [budget EXCEPT !.edits = @ - 1] ELSE budget
        /\ UNCHANGED <<claim, caches, workQ, wr>>

\* Replicas or template change, and with them the generation.
EditWorkload(n) ==
    /\ workload[n].st = "live"
    /\ budget.edits > 0
    /\ \E want \in Templates \ {workload[n].want} :
         workload' = [workload EXCEPT ![n].want = want]
    /\ budget' = [budget EXCEPT !.edits = @ - 1]
    /\ UNCHANGED <<claim, caches, workQ, wr>>

DeleteWorkload(n) ==
    /\ workload[n].st = "live"
    /\ workload' = [workload EXCEPT ![n].st = "terminating"]
    /\ UNCHANGED <<claim, caches, workQ, wr, budget>>

RemoveWorkload(n) ==
    /\ workload[n].st = "terminating"
    /\ workload' = [workload EXCEPT ![n].st = "none"]
    /\ UNCHANGED <<claim, caches, workQ, wr, budget>>

\* The garbage collector deletes a claim whose owner, a UID, is gone or going: the
\* finalizer keeps it, terminating.
GCClaim(k) ==
    /\ claim[k].st = "live"
    /\ claim[k].owner # 0
    /\ ~(workload[k[2]].st = "live" /\ workload[k[2]].uid = claim[k].owner)
    /\ claim' = [claim EXCEPT ![k].st = "terminating"]
    /\ UNCHANGED <<workload, caches, workQ, wr, budget>>

\* A user deletes a claim: it stays while the workload lives.
DeleteClaim(k) ==
    /\ claim[k].st = "live"
    /\ budget.edits > 0
    /\ claim' = [claim EXCEPT ![k].st = "terminating"]
    /\ budget' = [budget EXCEPT !.edits = @ - 1]
    /\ UNCHANGED <<workload, caches, workQ, wr>>

-----------------------------------------------------------------------------
(* Informers and restarts.                                                 *)

\* GenerationChangedPredicate lets an event pass unless only metadata or status
\* changed: the resync of the informer never does.  A workload that was
\* replaced is first seen to go.
SyncWorkload(n) ==
    /\ workloadSeen[n] # workload[n]
    /\ workloadSeen' = [workloadSeen EXCEPT ![n] =
                          IF Exists(@) /\ @.uid # workload[n].uid THEN NoWorkload
                          ELSE workload[n]]
    /\ workQ' = workQ \cup {n}
    /\ UNCHANGED <<workload, claim, ownerSeen, claimSeen, wr, budget>>

\* The claim controller gets metadata of workloads from an informer of their own,
\* whose events reach no queue.
SyncOwner(n) ==
    /\ ownerSeen[n] # LiveUID(workload[n])
    /\ ownerSeen' = [ownerSeen EXCEPT ![n] = LiveUID(workload[n])]
    /\ UNCHANGED <<workload, claim, workloadSeen, claimSeen, workQ, wr, budget>>

\* No workload is enqueued: the controllers do not watch claims.
SyncClaim(k) ==
    /\ claimSeen[k] # claim[k]
    /\ claimSeen' = [claimSeen EXCEPT ![k] = claim[k]]
    /\ UNCHANGED <<workload, claim, workloadSeen, ownerSeen, workQ, wr, budget>>

Restart ==
    /\ budget.faults > 0
    /\ budget' = [budget EXCEPT !.faults = @ - 1]
    /\ workloadSeen' = workload
    /\ ownerSeen' = [n \in Names |-> LiveUID(workload[n])]
    /\ claimSeen' = claim
    /\ workQ' = {n \in Names : Exists(workload[n])}
    /\ wr' = [n \in Names |-> Idle]
    /\ UNCHANGED <<workload, claim>>

-----------------------------------------------------------------------------
(* Reconcile of a claim that has been deleted.                             *)

\* Mutant: the owner is found by its name.
OwnerLivesByName(k) == claimSeen[k].owner # 0 /\ ownerSeen[k[2]] # 0

\* getOwnerMetadata: the cached owner, by name and UID ("kubectl replace --force"),
\* is neither gone nor terminating.
OwnerLives(k) == claimSeen[k].owner # 0 /\ ownerSeen[k[2]] = claimSeen[k].owner

\* The claim Reconcile, which may begin at any time (the informer's resync), lets the
\* claim go; the Update fails unless the cached claim is the latest version.  If the owner
\* lives, it goes on as for any other claim.
DropFinalizer(k) ==
    /\ claimSeen[k].st = "terminating"
    /\ ~OwnerLives(k)
    /\ claim[k] = claimSeen[k]
    /\ claim' = [claim EXCEPT ![k] = NoClaim]
    /\ UNCHANGED <<workload, caches, workQ, wr, budget>>

-----------------------------------------------------------------------------
(* Reconcile of a workload.                                                *)

\* The workload comes from the cache; one that is gone or terminating, or
\* declares nothing, is left alone.
BeginReconcile(n) ==
    LET w == workloadSeen[n]
    IN  /\ n \in workQ
        /\ ~wr[n].busy
        /\ workQ' = workQ \ {n}
        /\ wr' = [wr EXCEPT ![n] =
                    IF w.st = "live" /\ Declared(w) # {}
                    THEN [busy |-> TRUE, read |-> w, todo |-> Declared(w), failed |-> FALSE]
                    ELSE Idle]
        /\ UNCHANGED <<workload, claim, caches, budget>>

\* SetControllerReference
NewClaim(u, spec) == [st |-> "live", owner |-> u, spec |-> spec]

\* One goroutine of ensureClaims gets a claim from the cache and makes at most
\* one call, whose delay is the same as a later informer event.
Goroutine(n, v) ==
    /\ v \in wr[n].todo
    /\ UNCHANGED <<workload, caches, workQ>>

\* The cache has no such claim; that there is one is no error.
CreateClaim(n, v) ==
    LET u == wr[n].read.uid
        k == KeyOf(v, n, u)
    IN  /\ Goroutine(n, v)
        /\ ~Exists(claimSeen[k])
        /\ claim' = IF Exists(claim[k]) THEN claim
                    ELSE [claim EXCEPT ![k] = NewClaim(u, wr[n].read.want[v])]
        /\ wr' = [wr EXCEPT ![n].todo = @ \ {v}]
        /\ UNCHANGED budget

KeepClaim(n, v) ==
    LET k == KeyOf(v, n, wr[n].read.uid)
    IN  /\ Goroutine(n, v)
        /\ Exists(claimSeen[k])
        /\ claimSeen[k].spec = wr[n].read.want[v]
        /\ wr' = [wr EXCEPT ![n].todo = @ \ {v}]
        /\ UNCHANGED <<claim, budget>>

\* Update fails unless the cached claim is the latest version.
UpdateClaim(n, v) ==
    LET k == KeyOf(v, n, wr[n].read.uid)
        latest == claim[k] = claimSeen[k]
    IN  /\ Goroutine(n, v)
        /\ Exists(claimSeen[k])
        /\ claimSeen[k].spec # wr[n].read.want[v]
        /\ claim' = IF latest THEN [claim EXCEPT ![k].spec = wr[n].read.want[v]] ELSE claim
        /\ wr' = [wr EXCEPT ![n].todo = @ \ {v}, ![n].failed = @ \/ ~latest]
        /\ UNCHANGED budget

\* The API server answers with an error, as it does when the claim controller
\* has patched the status of a claim that is being updated.
FailCall(n, v) ==
    /\ Goroutine(n, v)
    /\ budget.faults > 0
    /\ budget' = [budget EXCEPT !.faults = @ - 1]
    /\ wr' = [wr EXCEPT ![n].todo = @ \ {v}, ![n].failed = TRUE]
    /\ UNCHANGED claim

\* Mutant: an error of one goroutine is lost.
EndReconcileUnheard(n) ==
    /\ wr[n].busy
    /\ wr[n].todo = {}
    /\ wr' = [wr EXCEPT ![n] = Idle]
    /\ UNCHANGED <<workload, claim, caches, workQ, budget>>

\* wg.Wait; errors of goroutines are the error of the Reconcile, which queues
\* the name again.
EndReconcile(n) ==
    /\ wr[n].busy
    /\ wr[n].todo = {}
    /\ wr' = [wr EXCEPT ![n] = Idle]
    /\ workQ' = IF wr[n].failed THEN workQ \cup {n} ELSE workQ
    /\ UNCHANGED <<workload, claim, caches, budget>>

WorkloadStep(n) ==
    \/ BeginReconcile(n)
    \/ \E v \in Versions : CreateClaim(n, v) \/ KeepClaim(n, v) \/ UpdateClaim(n, v)
    \/ EndReconcile(n)

-----------------------------------------------------------------------------
Next ==
    \/ \E n \in Names :
         \/ CreateWorkload(n) \/ EditWorkload(n) \/ DeleteWorkload(n) \/ RemoveWorkload(n)
         \/ SyncWorkload(n) \/ SyncOwner(n)
         \/ WorkloadStep(n)
         \/ \E v \in Versions : FailCall(n, v)
    \/ \E k \in Keys :
         DeleteClaim(k) \/ GCClaim(k) \/ SyncClaim(k) \/ DropFinalizer(k)
    \/ Restart

Spec == Init /\ [][Next]_vars

\* A goroutine finds in its cache whether there is a claim and what it asks for.
ClaimsKnown ==
    \A n \in Names : \A v \in wr[n].todo :
        LET k == KeyOf(v, n, wr[n].read.uid)
        IN  /\ Exists(claimSeen[k]) <=> Exists(claim[k])
            /\ Exists(claim[k]) => claimSeen[k].spec = claim[k].spec

\* The claim controller learns of the deletion of a claim only after it has learnt of the
\* workload, if that lives.
OwnersKnown ==
    \A k \in Keys :
        LET w == workload[k[2]]
        IN  claimSeen[k].st = "terminating" /\ w.st = "live" /\ w.uid = k[3]
              => ownerSeen[k[2]] = w.uid

\* Changes are rare enough for that.
Pace == ClaimsKnown /\ OwnersKnown

PacedNext == Next /\ Pace'

PacedSpec == Init /\ [][PacedNext]_vars

\* Only that is assumed: workload Reconciles find caches as they may be.
OwnersSpec == Init /\ [][Next /\ OwnersKnown']_vars

\* The queue, the informers and the garbage collector go on, and claims are
\* reconciled again and again.  Nothing is assumed of users and faults.
Fairness ==
    /\ \A n \in Names :
         /\ WF_vars(WorkloadStep(n) /\ Pace')
         /\ WF_vars(SyncWorkload(n))
         /\ WF_vars(SyncOwner(n))
    /\ \A k \in Keys :
         WF_vars((GCClaim(k) \/ SyncClaim(k) \/ DropFinalizer(k)) /\ Pace')

FairSpec == PacedSpec /\ Fairness

-----------------------------------------------------------------------------
\* Nothing is queued, running or on its way to a cache.
AtRest ==
    /\ workQ = {} /\ wr = [n \in Names |-> Idle]
    /\ workloadSeen = workload /\ claimSeen = claim

\* Each version the workload declares has a claim that is its own and asks for
\* what the workload says.
Followed(n) ==
    \A v \in Declared(workload[n]) :
        \E u \in UIDs :
            LET c == claim[<<v, n, u>>]
            IN  Exists(c) /\ c.owner = workload[n].uid /\ c.spec = workload[n].want[v]

\* "ensureClaim updates IPPoolClaim with the specified spec, or creates it if
\* it does not exist": once at rest, after conflicts, errors of one goroutine
\* out of several, restarts and replaced workloads, the claims are as declared.
ClaimsFollow ==
    AtRest => \A n \in Names : workload[n].st = "live" => Followed(n)

\* Why, first part: a Reconcile works on a workload that was there, and on
\* versions it declares; every claim belongs to the workload in its name.
Sound ==
    /\ \A n \in Names :
         /\ Exists(workload[n]) => workload[n].uid > 0
         /\ Exists(workloadSeen[n]) => workloadSeen[n].uid > 0
         /\ workloadSeen[n].uid <= workload[n].uid
         /\ wr[n].todo \subseteq Declared(wr[n].read)
         /\ wr[n].todo # {} => wr[n].busy /\ wr[n].read.uid > 0
    /\ \A k \in Keys : Exists(claim[k]) => claim[k].owner = k[3]

\* Version v of workload w has the claim it declares.
Asked(n, v, w) ==
    LET c == claim[<<v, n, w.uid>>]
    IN  Exists(c) /\ c.spec = w.want[v]

\* Second part: as long as the cached workload lives, what it declares is asked
\* for, or a Reconcile for it is queued, or one is running that will ask for the
\* rest or fail.
Pursued(n) ==
    LET w == workloadSeen[n]
        r == wr[n]
    IN  /\ r.busy /\ r.read # w => n \in workQ
        /\ w.st = "live" /\ workload[n].st = "live" /\ w.uid = workload[n].uid
             => \/ n \in workQ
                \/ \A v \in Declared(w) : Asked(n, v, w)
                \/ /\ r.busy /\ r.read = w
                   /\ r.failed \/ \A v \in Declared(w) : v \in r.todo \/ Asked(n, v, w)

\* The inductive invariant of PacedSpec.
FollowInv == TypeOK /\ Sound /\ Pace /\ \A n \in Names : Pursued(n)

\* A workload that is left alone gets its claims, and keeps them: neither the
\* collection of one it replaced nor a user's deletion takes any away.
Provided ==
    \A n \in Names : <>[](workload[n].st = "live") => <>[]Followed(n)

\* "OwnerReference will ensure that the relevant IPPoolClaims are recycled"
\* (ensureClaimsForWorkload): the claims of a workload that has gone go, when another
\* has its name by now too, and those made late from an old cached workload.
Collected ==
    \A k \in Keys :
        LET Lives == Exists(workload[k[2]]) /\ workload[k[2]].uid = k[3]
        IN  <>[]~Lives => <>[]~Exists(claim[k])
=============================================================================
