# RequeueIP: specification and proofs

RequeueIP gives Kubernetes Pods static IP addresses.  An administrator declares
*Subnets*; a user, or the controller on behalf of a workload, declares an
*IPPoolClaim* for some number of addresses; the controllers cut *IPBlocks*
(equal, aligned pieces of the Subnet) for it and publish an *IPPool* whose ranges
Pods draw *IP* objects from.  All of these are Kubernetes objects.  There is no
lock and no transaction anywhere: every decision is taken on cached, possibly
old copies, and what keeps addresses apart is that the API server refuses a second
object of the same name, finalizers, and the order of the calls.

This directory models that machinery in TLA+, checks it with TLC and proves its
main safety properties with TLAPS.  Paths below are relative to the root of the
repository (`src/` in `PROJECT.json`).

- [Inventory](#inventory)
- [How the modules correspond to the code](#how-the-modules-correspond-to-the-code)
- [Properties](#properties)
- [Runs, bounds and results](#runs-bounds-and-results)
- [Where the code and its comments disagree](#where-the-code-and-its-comments-disagree)
- [Fairness](#fairness)
- [Proofs](#proofs)
- [Abstractions](#abstractions)
- [Not modelled](#not-modelled)
- [Plan](#plan)
- [Running everything](#running-everything)

## Inventory

| Component | State it keeps | Operations | Talks to | What makes it correct |
|---|---|---|---|---|
| IPPoolClaim controller, `pkg/controller/ippoolclaim_controller.go` | work queue; what one Reconcile carries between API calls | Reconcile: drop finalizer, get or create the IPPool, scale up (list, create IPBlocks concurrently, patch ranges), scale down (patch ranges, delete IPBlocks), claim status | API server past the cache for IPPool and IPBlocks, cache for claims, Subnets, owners | ranges come out of IPBlocks held; no IPBlock lost or taken from another; every claim served in the end |
| IPPool controller, `ippool_controller.go` | work queue | Reconcile: status from cached IPs and ranges; clean up a terminating IPPool | cache; API server for patches, deletions | status exact at rest; IPBlocks go before the IPPool, and only its own |
| Subnet controller, `subnet_controller.go` | work queue | Reconcile: total, excluded, used and free IPBlocks; clean up | caches of Subnets, IPPools, IPBlocks; API server for the patch and the conditional Update | its status describes the Subnet at rest; a terminating Subnet goes, and should only when unused |
| Allocator of requeueipd, `pkg/ipam/allocator.go`, `ipam.go` | informer caches; a goroutine per version | CmdAdd: previous IPs, find IPPools, pick an address by hash, probe, back off, retry | Pod past the cache, IPs and IPPools from it; creates IP objects | one address per Pod and version; no address twice; a StatefulSet Pod gets its old one |
| Workload controllers, `pkg/controller/workload` | work queue | ensure the claims a Deployment or StatefulSet declares | cache; creates and updates claims | at rest each declared version has a claim that asks for what the workload says; claims go with it |
| Pod GC, StatefulSet GC, `pod_gc_controller.go`, `sts_gc_controller.go` | work queues, timers; the Pods one Reconcile still goes through | release IPs of Pods that are stuck terminating, or beyond the replicas | cache; deletes IP objects | no IP of a running Pod released; those of unwanted Pods released |
| Subnet webhook, `pkg/webhook/subnet_webhook.go` | none | admit Subnets: defaults, overlap, frozen fields, shrinking | API server | Subnets overlap only if admitted together; an IPBlock stays inside its Subnet |
| Ranges and names, `pkg/net`, `vendor/github.com/iiiceoo/iprange` | none | interval arithmetic, iterators, names of IPs and IPBlocks | - | agree with sets of addresses |
| CNI plugin, `cmd/requeueip` | none | CmdAdd: one request, one minute; CmdDel: nothing | daemon | a retry repeats no effect |
| Daemon and manager start-up, OpenAPI code, metrics, charts | - | - | - | no decision about addresses is taken there |

The hard parts are all of one kind: *state read from one place and used against
another, later*.

- Two claims scale up from the same old list of free IPBlocks, each with several
  goroutines; `AlreadyExists` and one step of linear probing decide.
- IPBlocks are deleted by name out of a list made some calls ago.
- A scale-down trusts `status.free`, which the other controller computed from its
  own caches some time before.
- The IPPool controller sends a merge patch relative to a cached copy.
- A Reconcile may fail or die after any call; the next one starts over.
- Finalizers of claim and IPPool, garbage collection, and waiting for Pods have to
  come to an end together.
- A repeated cmdAdd relies on a cache to know what the previous one took, and one of two
  versions may have been taken when the other failed.
- A Subnet is admitted against what is stored, and stored later; it may shrink or go while a
  claim works with a cached copy of it.
- A workload is edited or replaced while goroutines of a Reconcile create claims for the
  version they read.
- The StatefulSet GC decides by an ordinal and a cached StatefulSet whose addresses go, and
  deletes them by the Pod's name, which the next Pod has too.

`PROJECT.json` lists every hazard at its line with the properties that cover it.

## How the modules correspond to the code

```
Addressing <- Cluster <-+- ClaimController --+
                        +- PoolController  --+- Provisioning <- MCProvisioning
Addressing <- Leasing  <----- (refined by) -----+     ^
Addressing <- AddressingProofs <- ProvisioningProofs -+
     ProvisioningProofs <- ProvisioningRestProofs <- ProvisioningServedProofs

Pods <-+- Allocator  --+- Allocation <-+- MCAllocation
       +- Collectors --+     ^         +- AllocationProofs
Reservation <- (refined by) -+

CIDRs <- Subnets <-+- SubnetWebhook    --+
                   +- SubnetController --+- Subnetting <-+- MCSubnetting
                   +- Placement        --+              +- SubnettingProofs

WorkloadClaims <-+- MCWorkloadClaims
                 +- WorkloadClaimsProofs

Counting <-+- AddressingProofs
           +- SubnettingProofs
```

There are four compositions, each about one boundary of the system.  *WorkloadClaims* ends
with the claims of a workload; *Subnetting* is about which Subnet's addresses a claim gets,
while Subnets come, change and go; *Provisioning* is about who holds which addresses of one
Subnet, down to the ranges of IPPools; *Allocation* is about how Pods take addresses out of
IPPools whose ranges are given.  A claim of `WorkloadClaims` is one that `CreateClaim` and
`EditReplicas` of `Cluster` create and change; `CreateBlock` of `Placement` is that of
`ClaimController` with the Subnet in view, and `RefreshSubnet` of `Cluster` is what
`SubnetController` and an informer do for a Subnet that stays as it is.  Provisioning and
Allocation meet in `status.free` and in the IP objects:
`AssignIP` and `ReleaseIP` of `Cluster` are what the steps of `Allocator` and `Collectors`
do to an IPPool, and `SyncDaemonFree` of `Pods` is what the IPPool controller's status and a
daemon's informer do to the allocator.

- **Addressing**: a Subnet is `NumBlocks` blocks of `BlockSize` addresses, numbered
  from 0.  An `IPRanges` is the set of its addresses; `Lowest` is
  `Slice(0, n - 1)`, `NextBlock` one step of the block iterator with its wrap-around.
- **Cluster**: the objects in the API server, the informer caches, the work
  queues, and everything that is not a reconciler.  `claim`, `pool`, `holder`
  (the IPBlock objects), `ips` and `workload` are what the API server stores;
  `subnet`, `poolCache`, `ipCache` and `daemonFree` are copies that follow late.
  Its actions are users (`CreateClaim`, `EditReplicas`, `DeleteClaim`), workloads,
  Kubernetes' garbage collector (`GCClaim`, `GCPool`), the allocator and the end of
  Pods as far as IPPools see them (`AssignIP`, `ReleaseIP`), the informers (`Sync...`,
  `RefreshSubnet`) and `Restart`.
- **ClaimController**: `claimReconciler.Reconcile`.  One action per API call that
  changes an object or reads past the cache, so every interleaving at an API
  call is explored; `cr[p].pc` names the next call.

  | Code | Actions |
  |---|---|
  | claim not found; finalizer | `ForgetClaim`, `RemoveClaimFinalizer` |
  | `getOrMarkIPPool`, `getIPBlockAllocation`, `scale` | `MarkPool`, `GetPool` with `Allocation`, `ScaleStep` |
  | `scaleUp`, `claimIPBlocks`, `claimIPBlock`, `scaleUpWithinIPBlocks` | `ListUp`, `CreateBlock` (per goroutine, per Create), `ClaimBlocksFailed`, `PatchUp` |
  | `scaleDown`, `releaseIPBlocks` | `PatchDown`, `DeleteAllBlocks`, `ListDown`, `DeleteBlock` (per IPBlock) |
  | status patch; errors and requeues | `Finish`, `ClaimError`, `Fail` |

- **PoolController**: `poolReconciler.Reconcile`.  `UpdateStatus` computes the
  status from the caches and merge-patches it (`MergeStatus` sends only fields that
  differ from the *cached* ones); `CleanUpPool`, `DeletePoolBlock` and
  `RemovePoolFinalizer` are `cleanUpIPool`, whose `Update` succeeds only if the
  cached IPPool was current.
- **Provisioning**: both controllers and their environment.  `Spec` has everything
  above; `PacedSpec` assumes that each scale-down starts from a `status.free` that was computed for the
  present ranges (`FreeIsCurrent`); `FairSpec` adds fairness.
- **Leasing**: the abstract specification.  IPBlocks are leased one at a time,
  addresses are offered only out of leases, and a lease is given up only when
  nothing of it is offered.
- **Pods**: Pods of a StatefulSet and Pods of Deployments, and the IP objects in the IPPools
  of their namespace.  `pod`, `node`, `using` (what a network namespace was set up
  with), `owner` (the label of each IP object) and `sts` are the cluster; `seen` and
  `free` are each daemon's caches; `ipView`, `stsView`, `stsQ`, `doomed` and `podQ` are the
  manager's caches, queues and what a Reconcile has still to delete; `req` is the cmdAdd in
  progress.  Its actions are users, Kubernetes' controllers, kubelets (`EditSTS`, `CreatePod`,
  `EvictPod`, `DeletePod`, `StopPod`, `RemovePod`), garbage collection (`KubeGC`), informers with
  the predicates of the GC controllers, `LoseSandbox` and `RestartManager`.
- **Allocator**: `allocator.Get`.

  | Code | Operators and actions |
  |---|---|
  | `Get`, `getWorkload`, `isPodAlive` | `Accepted`, `Alive`, `Retrieve` |
  | `retrieveExistingIPs` | `Existing`, `TooMany`, `Missing` |
  | `assign`, `assignIPs` | `Assign` (goroutines start), `Answer` (`wg.Wait`) |
  | `waitForIPPoolReady`, `waitForAutoIPPoolReady` | `FreeOf`, `Exhausted` |
  | `assignIP` | `Indexed` and `CreateFirst`, `Following` and `CreateProbe`, `TryCreate` |
  | the plugin's minute, a daemon that dies | `Abort` |

- **Collectors**: `podGCReconciler` (`CollectPodIP`, `PodCollected`) and `stsGCReconciler`
  (`ListSTSIPs` with `Running`, `CollectSTSIP`, `STSPodCollected`, `CollectError`).
- **Allocation**: all of it together.  `PacedSpec` assumes two things the comments of the code
  take for granted: the daemon's cache has caught up when the next cmdAdd of the same Pod
  begins (`CaughtUp`, `allocator.go:211-213`), and a StatefulSet gets Pods it did not want only
  after the last update has settled (`Settled`).  `FairSpec` adds fairness.
- **Reservation**: its abstract specification.  A Pod reserves free addresses one by one, at most
  one of a version; uses a whole set of them, one of each version it wants, at once; and an
  address is released only when its Pod is not entitled to it: a StatefulSet's Pod is while the
  StatefulSet wants it, whether it is there or not, any other Pod until it is deleted.
- **CIDRs**: addresses of all Subnets together.  A CIDR is the set of its addresses; that two
  CIDRs nest or are apart and that each has a lowest address is all that is assumed of
  them.  `Cut` is `CIDRIterator`, `Widened` the rounding of excluded CIDRs, `BlocksIn` a block iterator.
- **Subnets**: what the three modules below share.  `subnet`, `pool` (a claim and its IPPool) and
  `holder` are stored objects; `seen`, `poolsSeen` and `blocksSeen` the manager's caches,
  by the Subnet in the label; `admitted` the requests between admission and storage.  Users,
  the end of IPPools (`ReleaseBlock`, `RemovePool`), the three watches with `PoolEvent` as
  `IPPoolDeletedPredicate`, and `RestartManager`.
- **SubnetWebhook**: `mutate` is `Mutated`; `ValidCIDR`, `ValidExcluded`, `ValidBlockSize`, `Frozen` and
  `KeepsUsed` are the checks; `AdmitCreate`, `AdmitUpdate` and then, later, `Store`.
- **SubnetController**: `getTotalIPRanges` is `Total`, the status `StatusFor` with `MergeStatus`;
  `cleanUpSubnet` is `Cleanable` with `RemoveSubnetFinalizer`.
- **Placement**: `selectSubnet` is `Skipped` and `Selects`; `MarkPool` and `GetPool` begin a Reconcile,
  `CreateBlock` is a goroutine's Create.
- **Subnetting**: all of it together, with caches as late as they may be: nothing is assumed of the
  pace of changes.
- **WorkloadClaims**: a workload controller, with users, the garbage collector, informers and
  restarts around it, and of the claim controller what lets claims go.  `workload` and `claim` are
  stored, `workloadSeen` and `claimSeen` cached; `ownerSeen` is the cache of workloads' metadata
  that `getOwnerMetadata` reads; `wr[n].todo` are the goroutines of `ensureClaims` that have not ended.

  | Code | Operators and actions |
  |---|---|
  | `Reconcile`, `parseClaims` | `BeginReconcile`, `Declared` |
  | `ensureClaim` | `KeyOf`, `CreateClaim` with `NewClaim`, `KeepClaim`, `UpdateClaim`, `FailCall` |
  | `wg.Wait`, the aggregated error | `EndReconcile` |
  | the predicate of the watch | `SyncWorkload` |
  | `claimReconciler.Reconcile` of a deleted claim, `getOwnerMetadata` | `DropFinalizer`, `OwnerLives` |

  The garbage collector marks a claim whose owner is gone (`GCClaim`); a Reconcile of the claim drops the
  finalizer only when its own cache has no such owner any more.

- **AddressingProofs**, **ProvisioningProofs**, **ProvisioningRestProofs**,
  **ProvisioningServedProofs**, **AllocationProofs**, **SubnettingProofs**,
  **WorkloadClaimsProofs**: the theorems.  **Counting**: what they need of the sizes of sets.

Operators named `...OffByOne`, `...Unwatched` and the like, each commented as a
mutant, are plausible bugs.  No specification uses them; replacing the definition
that follows by one of them must break the property `PROJECT.json` names, which
shows that the property speaks of that code.

## Properties

Safety, for every reachable state or step:

- `RangesBacked`: every address a live IPPool offers is in an IPBlock it holds.
- `DisjointRanges`: no two live IPPools offer the same address.
- `NoBlockLeak`: no IPBlock belongs to an IPPool that does not exist.
- `OwnBlocksDeleted`: deletion by name never hits another IPPool's IPBlock.
- `Leases`: the controllers implement `Leasing` under the mapping
  `lease <- holder`, `offer <- Offers`.
- `UsedHeld`: what a Pod that is meant to run was set up with is reserved for it by IP
  objects: no garbage collector pulls an address from under it.
- `OneToOne`: two such Pods never use the same address.
- `OneEach`: a Pod never has two addresses of one version, however often cmdAdd is repeated.
- `Static`: a StatefulSet loses no address of an ordinal it wants, whatever happens to the Pod.
- `Reserves`: allocator and garbage collectors implement `Reservation` under the mapping
  `reserved <- owner`, `uses <- Uses`, `entitled <- Entitled`; so a Pod never runs with the
  address of one version because the other version failed.
- `SharedAtMost`: no address has more Subnets than there may be requests between admission and
  storage (`MaxAdmissions`); if one is stored before the next is admitted, Subnets never overlap.
- `StaysInside`: a request, whenever it was admitted, takes no IPBlock out of the CIDR of a
  Subnet that has settled (nothing about it is on its way to its controller).
- `FirstSufficient`: a claim is given the first of its candidates that fits, counted in whole
  IPBlocks, as far as these have settled.
- `SubnetInv`: why these hold.  What the webhook compared a request with is still stored when the
  request is; no cache has a Subnet of an older life of its name; a status is computed from what is
  cached or will be computed again; Subnets that share an address were admitted together.
- `FollowInv`: what a live cached workload declares is asked for, or queued, or in the hands of
  a Reconcile that will ask for the rest or fail.

At rest (`AtRest`: queues empty, caches current, no Reconcile or cmdAdd running), which is how
a safety property says what must eventually come out:

- `StatusExact` (of Provisioning): the merge patches add up to a status that describes the IPPool.
- `StatusExact` (of Subnetting): the same of a Subnet, with its excluded addresses rounded
  to IPBlocks and its three counters.
- `ClaimServed`: the claim has the addresses it asks for and says so, and once its Pods have
  converged it has no more than that.
- `ClaimsFollow`: each version that a live workload declares has a claim of its own that asks
  for what the workload says.
- `Released`: no address stays with a Pod the StatefulSet does not want.

Liveness: `ScaledUp` and `Recycled` of claims; `Served`: a Pod for which there is room gets its
addresses, past stale caches, collisions and half-failed requests.  `Retired`: a terminating
Subnet without IPPools goes, whichever event was the last.  `Provided` and `Collected`: a
workload left alone gets its claims and keeps them; one that is gone leaves none behind.

## Runs, bounds and results

The constants are in the `.cfg` files.  In runs of `MCProvisioning`, `Sizes` are the
numbers of replicas that claims may ask for, `MaxEdits` bounds `EditReplicas` and
`DeleteClaim` together, `MaxAllocs` the addresses taken, `MaxFaults` API errors and
restarts together.  A block has two addresses, the smallest size the webhook admits, so
that blocks can be partly offered.  In runs of `MCAllocation`, `s0` is a dual-stack Pod
of the StatefulSet and `d1` a Pod of a Deployment that wants IPv4 only; there are two
IPv4 addresses and one IPv6 address (in `pods_fair` one and two), and every hash starts
at the first, so that both Pods always collide; `MaxEdits` bounds updates of the
StatefulSet, `MaxFaults` restarts, lost sandboxes, aborted requests and failed API calls
together.  Pods are deleted and created again without a bound.  In runs of
`MCSubnetting` there are four IPv4 addresses and four IPv6 ones; `MaxRequests` bounds
admitted requests, `MaxAdmissions` how many of them are not stored yet, `MaxEvents`
scale-downs and restarts together.  In runs of `MCWorkloadClaims`, `MaxUIDs` bounds how
often a workload is created, `MaxEdits` edits, replacements and deletions of claims by
users, `MaxFaults` failed calls and restarts.

| Run | Instance | Shows |
|---|---|---|
| `two_claims` | 2 claims, one of 1 or 3 replicas and one of 1 (`OneOrTwoBlocks`), 2 blocks, 1 edit, `Spec` | `TypeOK`, `DisjointRanges`, `RangesBacked`, `OwnershipInv`, `OwnBlocksDeleted`, `Leases`.  Three replicas need both blocks and two goroutines, so the claims collide on a block, goroutines of one claim may too, and one of them must fail and retry; one edit scales down to one block or deletes a claim, whose block the other takes while the list it was on is still being gone through.  A `status.free` from before the last scale-down needs a second edit, so this run does without `PacedSpec`; `stale_free` has the edits, and the theorems allow any number of them at that pace. |
| `fair` | 1 auto-created claim of 0, 1 or 3 replicas, 2 blocks, 1 edit, 1 allocation, 1 fault, `FairSpec` | `NoBlockLeak`, `StatusExact`, `ClaimServed`, `Recycled`, `ScaledUp`, with errors and restarts at any point.  Three replicas need both blocks, from two goroutines or from what a Reconcile that failed left behind; from three down to one, with an address in use, is the case in which a scale-down has to wait for the status and gives up one block; zero gives up both. |
| `pods` | `s0` and `d1` on one node, IPv4, 2 updates, 1 fault, `PacedSpec` | `TypeOK`, `UsedHeld`, `OneToOne`, `AllocationInv`, `Static`, `Reserves`.  Two updates scale `s0` away and back (or the other way round), the shortest history in which its address could go to `d1`. |
| `pods_fair` | the same Pods, IPv4 and IPv6, no updates, 1 fault, `FairSpec` | `OneEach`, `Served`, `Reserves`.  The one IPv4 address may be `d1`'s while `s0` gets an IPv6 address, so that one version of a request fails and the next request finds the other; one fault loses an answer, a sandbox or a daemon in between.  With two IPv4 addresses neither Pod's request would ever fail. |
| `subnets` | 1 claim of 3 replicas with 2 candidate Subnets, 2 requests, 1 of them under way at a time, 1 scale-down or restart, `FairSpec` | `TypeOK`, `SharedAtMost`, `SubnetInv`, `StatusExact`, `StaysInside`, `FirstSufficient`, `Retired`.  `n1` is asked for with two IPBlocks, with one of them, or with an excluded address that takes one of them out; `n2` with a part of the same addresses (which has to be refused while `n1` has them) or with IPv6 ones (which the claim has to skip).  Two requests allow two Subnets at once, a CIDR that shrinks or is taken over by the other Subnet, or a name used again.  With two Subnets `SharedAtMost` says something for `MaxAdmissions = 1` only; `SubnetsShareLittle` has any number. |
| `workloads` | 1 workload that may be replaced once, 2 versions, 2 templates, 1 edit or replacement, 1 fault, `FairSpec` | `TypeOK`, `ClaimsFollow`, `FollowInv`, `Provided`, `Collected`.  The templates declare both versions, or one of them and more of it, so that an edit adds, keeps or changes claims; with two goroutines one may fail or be cut off; a replaced workload has claims of the old one beside its own, which have to go and the others to stay. |

Two claims are enough
for every pairwise conflict, and the theorems below hold for any number.  Deadlock is not checked: once the bounds on
edits, allocations and faults are used up and everything is at rest, the
system has nothing left to do.

## Where the code and its comments disagree

Six runs end in a counterexample to what a comment or a test of the code says.

| Run | Comment or test | What happens |
|---|---|---|
| `stale_free` | "Ranges is the set of IP ranges allocated to this IPPool." `api/v1/ippool_types.go:38` | Down, up, down while `status.free` is from the first step: `scaleDown` (`:418-420`) adds addresses out of `status.free` that the IPPool no longer has, and `spec.ranges` names addresses of no IPBlock of its own. |
| `used_blocks` | "releaseIPBlocks releases unused IPBlocks." `ippoolclaim_controller.go:630` | A Pod gets an address after `status.free` was read; the scale-down, which leaves the IPPool other addresses, drops that one, and `releaseIPBlocks` (`:646`) deletes its IPBlock. |
| `shared` | "1:1 mapping of IP addresses" `test/e2e/perf_test.go:289` | The StatefulSet is scaled down and up again.  The GC, which decided by what it read in between and does not wait for the Pod to go (`sts_gc_controller.go:135` has a TODO), deletes the IP of a Pod that runs; the allocator gives the address to another Pod. |
| `stranded` | "The IP addresses used by Pod controlled by StatefulSet will be asynchronously released by the controller." `allocator.go:560` | The start ordinal is raised and the replicas stay: no event passes the predicate (`sts_gc_controller.go:83`), and `isRunningSTSPod` (`:187`) has no lower bound anyway.  The Pods below go, their IPs stay. |
| `dangling` | "Wait until all referenced IPPools disappear before removing the Subnet finalizer." `subnet_controller.go:192` | A Subnet is deleted by a user; a claim takes it from the cache, where it has its status (`selectSubnet`, `ippoolclaim_controller.go:237`, does not ask whether it is terminating); `cleanUpSubnet` (`:207`) lists the IPPools from its own cache, which has not seen that one, and drops the finalizer.  The claim goes on to create IPBlocks in a Subnet that is gone. |
| `late_claim` | "ensureClaim updates IPPoolClaim with the specified spec, or creates it if it does not exist." `workload/client.go:101` | A claim is created, the workload is edited before the cache has it, and the next Reconcile is answered with `AlreadyExists`, which counts as success (`:132`): the claim keeps the old replicas and Subnets.  Claims are not watched and a resync of the workload does not pass the predicate, so nothing runs Reconcile again before the next edit or restart. |

Others were met on the way and have no run of their own:

- An IPPool is cleaned up on a cached count of used addresses (`ippool_controller.go:156`): it and
  its IPBlocks go although an IP was just created out of it.
- A Reconcile creates IPBlocks and dies; the replicas are set back to the size of the ranges;
  `scale` (`ippoolclaim_controller.go:294`) compares sizes only, and the IPBlocks stay held.
- The IPPool of a live claim is deleted by hand, cleaned up and re-created.  An event of one of its
  IPs makes the controller clean up once more with the terminating copy: `DeleteAllOf`
  (`ippool_controller.go:160`) selects by namespace and name and deletes IPBlocks of the new
  IPPool; the `Update` after it is refused, too late.
- An IPPool deleted by hand during a scale-up is cleaned up while goroutines go on creating
  IPBlocks for it (`ippoolclaim_controller.go:609`); if the claim goes too, these stay.
- An auto-created claim marked for deletion while its workload is still in the cache is scaled
  as if the workload lived, and no watch tells the controller when the workload goes
  (`ippoolclaim_controller.go:83-98`); the next event is the informers' resync, ten hours later at most
  (`vendor/sigs.k8s.io/controller-runtime/pkg/cache/cache.go:45`; the manager sets no other period).
- A claim that a user deletes right after its creation is let go although its workload lives, when
  the cache of workloads' metadata does not have the workload yet (`ippoolclaim_controller.go:151-156`
  takes NotFound for gone).
- Two requests for overlapping Subnets are both admitted when each is checked before the other is
  stored (`subnet_webhook.go:257`).  `SharedAtMost` says how many may.
- A Subnet's CIDR is reduced on the strength of `status.free` (`subnet_webhook.go:362`) while a
  claim creates IPBlocks in what is cut off; and after that, `status.free` lists what was cut off until it
  is computed again, so that a Reconcile may still create IPBlocks there (`ippoolclaim_controller.go:595`).
  `StaysInside` says what is left: a request by itself takes no IPBlock out of a settled Subnet.
- A claim that is changed from one spec to another and back while the cache of the workload
  controller has only the first one looks up to date to `ensureClaim`.

## Fairness

`Fairness` is weak fairness of

- each name's claim and pool Reconcile steps: controller-runtime keeps a name
  queued until Reconcile returns without an error, and a running Reconcile is a
  goroutine that goes on.  `ClaimStep(p)` is one action, so nothing is assumed about
  which of several concurrent calls comes first;
- the informers (`SyncPool`, `SyncIP`) and the Subnet's status (`RefreshSubnet`);
- Kubernetes' garbage collector.

For `Allocation` it is weak fairness of each Pod's cmdAdd (the kubelet retries until the
sandbox is there, with a cache that has caught up), of each Pod's step of the Pod GC, of the
StatefulSet GC and of the informers.  `CmdAddStep(p)` is one action again: which goroutine of a
request moves first is open.  `Served` needs no fairness of Kubernetes' own steps.

For `Subnetting` it is weak fairness of the Subnet controller's queue and the informers of each
Subnet: `Retired` has to come without any claim, user or restart to help.  For
`WorkloadClaims` it is weak fairness of each name's Reconcile (`WorkloadStep(n)`, whichever
goroutine is next) and informers, and for each claim of its garbage collection, its informer and
`DropFinalizer` together.  A claim that was reconciled too early is reconciled again when the informer
resyncs, which is the one place where a resync is relied on: `Collected` says that a claim goes,
not that it goes soon.

### What is assumed of time

Three specifications `PacedSpec` restrict the pace of changes, each by one named predicate that
excludes a divergence listed above:

- Provisioning, `FreeIsCurrent`: without it `stale_free`.
- Allocation, `CaughtUp` and `Settled`: without the second `shared`.
- WorkloadClaims, `Pace`, of two parts.  `ClaimsKnown`: a goroutine of `ensureClaims` finds in its cache whether there is a
  claim and what it asks for (its owner, its deletion and its version may be old): without it
  `late_claim`, which assumes the other part only (`OwnersSpec`).
  `OwnersKnown`: the claim controller learns of a claim's deletion only after it has learnt of the
  live workload.

Subnetting assumes nothing of the kind.  Its properties say of which Subnets they speak (`Settled`),
and `SharedAtMost` is about as many concurrent admissions as there are.

Users, Pods, the daemon, errors and restarts have no fairness.  Since they are
bounded in a run, a behaviour has finitely many errors; an API server that fails for
ever is of course no one's to recover from.  Periodic resyncs are not modelled, except for
`Collected`: they would hide lost wake-ups for up to ten hours.

## Proofs

TLAPS checks the theorems below for every value of the constants that satisfies the named
assumptions of the modules, which TLC evaluates for the runs:

- Provisioning: `NumBlocksAssumption`, `BlockSizeAssumption`, `NoPoolAssumption`,
  `AutoAssumption`, `BoundsAssumption`: positive sizes, a value that is no name, natural bounds.
- Allocation: `PodsAssumption`, `PoolsAssumption`, `LimitsAssumption`: ordinals and hashes are
  natural numbers, IPPools of different versions are disjoint.
- Subnetting: `SpaceAssumption`, `CIDRsAssumption` (two CIDRs nest or are apart, each has a lowest
  address and one version), `NoPoolAssumption`, `SubnetNamesAssumption`, `ClaimsAssumption`,
  `LimitsAssumption`, `RequestsAssumption`: the types of what claims and requests ask for; and
  `MasksAssumption`: CIDRs split into IPBlocks of each size that a request names, and a smaller CIDR lies
  in one (masks are powers of two); an excluded range has addresses of one version
  (`iprange.Parse` refuses others) and `CIDRIterator` covers all of it.
- WorkloadClaims: `NoSpecAssumption`, `TemplatesAssumption`, `BoundsAssumption`.

Of Provisioning:

| Theorem | Statement |
|---|---|
| `OwnershipHolds`, `TypeCorrect`, `BlocksNeverLeak` | `Spec => []OwnershipInv`, `Spec => []TypeOK`, `Spec => []NoBlockLeak` |
| `OnlyOwnBlocksDeleted` | `Spec => OwnBlocksDeleted` |
| `RangesAlwaysBacked`, `RangesNeverOverlap` | `PacedSpec => []RangesBacked`, `PacedSpec => []DisjointRanges` |
| `ProvisioningLeases` | `PacedSpec => Leases` |
| `StatusSettles` (`ProvisioningRestProofs`) | `Spec => []StatusExact` |
| `ClaimsAreServed` (`ProvisioningServedProofs`) | `Spec => []ClaimServed` |
| `StatusIsOnlyAHint` | `HintedSpec => []NoBlockLeak /\ []StatusExact /\ []ClaimServed` |
| `LeasesWithoutHints` | `HintedPacedSpec => Leases` |

Of Allocation, for every number of Pods, nodes, versions and addresses:

| Theorem | Statement |
|---|---|
| `TypeCorrect` | `Spec => []TypeOK` |
| `AllocationCorrect`, `AddressesStay`, `AddressesUnique`, `AddressesSingle` | `PacedSpec => []AllocationInv`, `[]UsedHeld`, `[]OneToOne`, `[]OneEach` |
| `AddressesStatic` | `PacedSpec => Static` |
| `AllocationReserves` | `PacedSpec => Reserves` |
| `ReservationSuffices` | `Reserves => []UsedHeld /\ []OneToOne /\ []OneEach /\ Static` |
| `FreeIsOnlyAHint` | `HintedSpec => []UsedHeld /\ []OneToOne /\ []OneEach /\ Static /\ Reserves` |

Of Subnetting, for every number of Subnets, claims, addresses and requests:

| Theorem | Statement |
|---|---|
| `TypeCorrect`, `InvHolds` | `Spec => []TypeOK`, `Spec => []SubnetInv` |
| `SubnetsShareLittle` | `Spec => []SharedAtMost` |
| `StatusSettles`, `StatusDescribes` | `Spec => []StatusCurrent`, `Spec => []StatusExact` |
| `InsideKept`, `FirstGiven` | `Spec => StaysInside`, `Spec => FirstSufficient` |

Of WorkloadClaims, for every number of workloads, versions, edits and faults:

| Theorem | Statement |
|---|---|
| `TypeCorrect` | `Spec => []TypeOK` |
| `FollowHolds`, `ClaimsAlwaysFollow` | `PacedSpec => []FollowInv`, `[]ClaimsFollow` |

*The invariant of Provisioning.*  `NoBlockLeak` and `OwnBlocksDeleted` are not inductive: a Reconcile
that is about to delete IPBlocks of a list could hold a list that is no longer
true.  `OwnershipInv` adds why it cannot be: `Lifecycle` (while a claim's Reconcile
runs, the claim's finalizer is there, so its IPPool is not garbage collected; the
IPPool controller cleans up only after the claim is gone), `SnapshotsHold` (so what
a Reconcile listed is still what its IPPool has: only its own Reconciles change it)
and `Probing` (goroutines run only inside `claimIPBlocks`).  `two_claims` checks the same
invariant with TLC.

*The argument.*  The invariant splits by name (`NameByName`): `Consistent(p)` speaks of
the objects and workers of `p` only.  A step of `p`'s Reconciles leaves every
other name's part alone (`ClaimStepIsLocal`, `PoolStepIsLocal`, with `Untouched`) and
keeps `p`'s own (`ClaimStepConsistent`, `PoolStepConsistent`); the environment
does too (`EnvironmentConsistent`).  The one place where names meet is `holder`, and
there the guard is the API server's: `CreateBlock` takes free blocks only, and
deletions stay inside `Owned(p)` by `SnapshotsHold`.

*The refinement.*  From `OwnershipInv`, `RangesBacked` and `FreeIsCurrent`, each step is a
step of `Leasing` or none (`StepLeases`), and a step of `Leasing` keeps offers within
leases (`LeaseStepBacked`), so `RangesBacked` is carried by the refinement itself
and `DisjointRanges` follows.

*Why `PacedSpec`.*  `RangesBacked` is false of `Spec`: the run `stale_free` is the
counterexample.  `FreeIsCurrent` excludes exactly its cause, a scale-down that starts
from a `status.free` with addresses outside the present ranges.  Everything that does
not depend on it is proved of `Spec`.

*The invariant of Allocation.*  `UsedHeld` and `OneEach` are not inductive: what keeps them
is in the middle of a request or of a Reconcile.  `AllocationInv` adds `OneToGet` (a goroutine
works on a version only while the Pod has no address of it, which is what `CaughtUp` gives at
the start and nobody else can change), `AnswerHeld` (what a request collected is still the
Pod's), `StartsAfresh` (no request or network outlives a Pod's name) and `SafelyDoomed` (the
StatefulSet GC never has a wanted Pod on its list or in its view, which is where `Settled` is
needed).  The proof has one lemma per kind of step: an update of the StatefulSet (`EditInv`),
the life of a Pod (`LifeInv`), a release (`ReleaseInv`, used for all three garbage collectors),
and a cmdAdd that retrieves, starts, goes on, gets an address or ends (`CmdAddInv` joins them).
`OneToOne` follows, since an IP object has one owner.  Both assumptions of `PacedSpec` are
needed: `shared` shows what happens without.

*The refinement of Reservation.*  It needs one thing more of a request, `AnswersWhole`: for each
version either the address was found, or a goroutine has been started for it, and never both
(`FoundOnce`: `CaughtUp`, `OneEach` and `TooMany` leave one address at most).  `wg.Wait` with no failure
then answers with a whole set (`AnswerReserves`), and so does a request that finds everything
(`RetrieveReserves`).  A successful `Create` is `Reserve` by `OneToGet`, the three deletions are `Release`
by `SafelyDoomed` (`CollectReserves`).  An update of the StatefulSet is `Entitle`: Pods that get a title
are not there yet, by `Settled` (`EditReserves`).  `ReservationSuffices` is the other half of what an
abstract specification is for: its steps alone keep `Sound`, from which the four safety properties
follow whatever the implementation (`ReservationSound`).

*Hints.*  Two things that one process computes and another reads much later decide nothing: the
status of the Subnet, from which `claimIPBlocks` takes the IPBlocks it tries, and the `status.free` of an
IPPool, from which a daemon takes the addresses it tries.  The models refresh them in one step, from
the present state (`RefreshSubnet`, `SyncDaemon`, `SyncDaemonFree`), so they are late but never a mixture.  The
specifications `HintedSpec` and `HintedPacedSpec` add a step that sets them to anything of their type
(`AnyHint`, `AnyFree`), and the same invariants are shown inductive: whatever the Subnet controller, the
informers and merge patches make of these values, safety does not rest on it.  The one exception is
the `status.free` that a scale-down reads of its own IPPool, which is `pool[p].free` and not such a hint:
see `stale_free`.

*The status of an IPPool.*  `RestInv` (in `ProvisioningRestProofs`) adds to `OwnershipInv` that a
status which is both stored and cached was computed from what is cached now, unless a Reconcile
is queued (`Described`): every informer event that changes an input of the status enqueues the
name, and a merge patch against a stale copy leaves a status that differs from the cached one, so
that its own event is still to come.  That case is why the patch being relative to a copy does
no harm.  `Pristine` says that the first IPPool of a name meets an empty cache.

*Claims at rest.*  `ClaimServed` says nothing of a system that moves, so its invariant has to: `ServedInv` adds
to `RestInv` that a live claim is in the queue, or a status of its IPPool is stored that the cache has
not seen (whose event will queue it), or a Reconcile works on it for the replicas it has now and
ends by finding nothing more to do (`Attended`, with `Working` and `Sated`).  An IPPool that is changed
and changed back compares equal to its cached copy, which is why the second case speaks of
`status.free` and `status.used` and of nothing else.  A scale-down that starts from an old `status.free`
need not reach its size; then `status.free` is not within the ranges and `Sated` asks nothing, but
at rest it is (`StatusExact`).  `Gathering` counts for a scale-up: each missing IPBlock has a goroutine, no two
goroutines have the same IPBlock, so that when all return the IPBlocks are enough
(`ClaimedIsEnough`) and the ranges get the size asked for (`UpRangesSize`).  It holds of `Spec`, with no
assumption on the pace.

*Counting.*  The facts about sizes are lemmas of `Counting`, by well-founded induction on natural
numbers where needed: numbers have ranks (`RankNumbers`), a set cut into parts of equal size has
the product (`CountInParts`).  `AddressingProofs` derives from them what `Lowest` and `IPsOf` have.

*The invariant of Subnetting.*  `SharedAtMost` is not inductive: a request that is under way brings
another Subnet of its addresses when it is stored.  `Together` counts both: whichever Subnets of an address
one takes, they and the requests for it in other names are no more than `MaxAdmissions`.  It has to hold of
every such set, because an update replaces a Subnet and may take its name out of one.  A request that is
admitted adds one, but then no stored Subnet of another name has any of its addresses: the webhook
compares network addresses in both directions, which finds every overlap of CIDRs that nest
(`OverlapsExact`, `ValidApart`), so that only requests are counted (`TogetherStep`); storing moves one from
the requests to the Subnets (`TogetherStore`).  `Admissible`: an update conflicts unless what the webhook
compared is what it replaces, so `Frozen` and `KeepsUsed` hold of the stored Subnet.  `Current`: as for
IPPools, and the cached Subnet is of the same life of its name.  A Subnet that has settled thus has the
status computed from the IPBlocks there are, and what a request cuts off meets none of them
(`NothingCutOff`); it does not go either, since it is not queued (`InsideKept`).

*The choice of a Subnet.*  `FirstGiven` compares what `selectSubnet` asks of a cached status with what the
claim needs (`Fits`): for a candidate that has settled they agree (`SkippedExact`, from
`StatusExact`), so the chosen one fits and those before it do not.

*The status of a Subnet.*  `StatusSettles` says it was computed from the IPBlocks there are;
`StatusDescribes` that the outcome is right.  `getTotalIPRanges` works on addresses: it takes away what
it has rounded up from excluded CIDRs.  An IPBlock that meets an excluded address is taken
away as a whole, and no other loses an address (`WidenedBlocks`), so what is left is the union of the
IPBlocks that can be let (`TotalIsLettable`).  IPBlocks of one size are apart (`BlocksApart`), hence taking away
IPBlocks and taking away addresses is the same (`BlocksLeft`) and dividing by the size counts
them (`BlocksCounted`).  The specs have passed the webhook (`AllPassed`).  The IPBlocks of the
Subnet have to be its own cells (`Whole`), which is not so while a CIDR was reduced under a claim.

*The invariant of WorkloadClaims.*  `ClaimsFollow` speaks of states at rest.  `Pursued` says what makes
rest come out right: what a live cached workload declares is asked for, or the name is queued,
or a running Reconcile has read this workload and has the missing versions among its goroutines, or
has failed and will be queued.  It is proved per name: a step elsewhere changes no claim of this one
(`Unmoved`, `SameClaims`, by the UID in claims' names), and a goroutine that ends has asked
(`GoroutineAsks`, where `ClaimsKnown` is needed: otherwise `late_claim`).  A claim of a live workload is not
let go: its owner is the UID in its name (`Sound`) and, by `OwnersKnown`, in the cache that
`DropFinalizer` reads.

*Only model-checked.*

- `ScaledUp`, `Recycled`, `Served`, `Retired`, `Provided`, `Collected`: liveness under fairness is out of the
  prover's reach, as is `ENABLED`.
- `Released`, `UsedBlocksKept` and `GoneWhenUnreferenced` are false, see above.

## Abstractions

- Provisioning has one Subnet, ready once; the claim controller's copy of its status is `subnet`, refreshed
  as a whole at any later time.  A status that was right only in passing is not seen late; the
  safety properties hold whatever is seen (`StatusIsOnlyAHint`).
- A claim and its IPPool share name and namespace, and names are used once: the name of
  an auto-created claim carries a hash of the workload's UID.
- The claim controller's cache of claims is not a variable of its own: a Reconcile that
  reads an old claim is one that ran before the edit.
- The owner of a claim is read from a cache too: a Reconcile may find a workload that is gone
  (`ClaimWanted`), for as long as the cache takes.
- Resource versions are compared by value in `RemovePoolFinalizer`: an IPPool that is
  changed and changed back counts as unchanged.  Its spec is frozen by then and its
  status describes the same IPs.
- `UpdateStatus` is one step.  Both its reads come from caches, so a delay before the patch
  is the same as a later informer event.
- A Reconcile that fails before it changed anything is no step; it just stays queued.
  Queueing during a Reconcile is kept: the name is in the queue and runs again.
- Hashing decides at which free IPBlock a goroutine starts, and which address a Pod takes
  first; both are left open (`StartAttempts`, `AssignIP`).
- Allocation has one StatefulSet, which stays; the name of a Deployment's Pod is used once and
  stands for its UID.  The checks of `getWorkload` only refuse, and their Pods are left out.
- cmdAdd reads the Pod and its previous IPs in one step; a Pod that is deleted in between is one
  that is deleted just after.  Its two versions interleave at every `Create`.  It asks for one
  address of each version (`ipam.go:44`), so a goroutine of `assignIPs` has no siblings.
- Retries are not counted: after two conflicts a goroutine may try again or give up.
- The kubelet removes a Pod when no cmdAdd of it runs; forced deletion is left out, and so is a
  `Create` that takes effect after its request was aborted.
- `status.free` reaches a daemon in one step, which stands for the IPPool controller's and
  the informer's delay (`FreeIsOnlyAHint` does without); `ipView` keeps the Pods of a list of IPs, all that the StatefulSet GC
  reads of it.  The garbage collectors' `DeleteAllOf` selects each IP object when it deletes it: that one is deleted,
  and another of the same name created, between the list and the deletion inside that one API call
  is left out (`two_claims` has this of IPBlocks).
- The Pod GC's timer may go off at any time after the deletion began.
- Subnetting: a claim's replicas and candidates do not change, and `ScaleDown`, which gives one IPBlock
  back, is bounded; how claims scale is the subject of Provisioning.  One Reconcile of the
  Subnet controller is one step: everything it reads comes from caches.
- A Subnet's name is used again only after the cache has seen the old one go.  Requests that do
  not parse are refused and left out.
- WorkloadClaims: a patch of a claim's status by the claim controller only makes an `Update` conflict, which is
  `FailCall`.  The cache sees a replaced workload go before it sees the new one: a relist that delivers
  the new one as an update, of the same generation perhaps, is left out.  A claim whose owner lives
  goes on as any other in the claim controller, which is the subject of Provisioning.  Claims of versions that are no longer
  declared stay, as in the code.  Users delete auto-created claims but do not edit them.
- Logging, metrics, events and labels other than the IPPool's are left out; Provisioning leaves out
  IP versions too.

## Not modelled

- *The interval algorithms* of `vendor/github.com/iiiceoo/iprange` (`Diff`, `Union`, `Intersect`, `Slice`, the
  iterators over sorted intervals of big numbers): third-party code, modelled by what it does
  to sets of addresses.  It does so for ordinary addresses.  `intToIP` (`ip.go:95`) drops leading
  zero bytes, so that an address computed in `0.0.0.0/8` or in an IPv6 range that begins with a
  zero byte, like `64:ff9b::/96`, is malformed; the sets have no such addresses.
- *Names* (`pkg/net`): conversions between addresses, CIDRs and names of objects.  They are
  one-to-one, and the models use the address or CIDR itself.
- *Start-up*: flags, configuration, leader election and the HTTP server over a Unix socket take no
  decision about addresses; restarts of their processes are modelled.
- *Generated code* (`oapi`, deep copies, manifests), and the CNI binary installer.
- *Metrics*: gauges that no decision reads.
- *Charts, scripts, end-to-end tests*: not part of the running program.

## Plan

Built so far: the four compositions, two abstract specifications with their refinements, and
the proofs above; every safety property that a run checks is a theorem.  Left:

1. The correspondence of `SubnetController` and an informer to `RefreshSubnet` of `Cluster`, for a Subnet
   that stays as it is.  Safety does not need it any more (`StatusIsOnlyAHint`); liveness does.

The runs stay few: a later module brings a run of its own, and takes the place of one whose
question another instance answers as well.

## Running everything

```
tlc -workers 2 -config two_claims.cfg MCProvisioning.tla     # any run
tlc -workers 2 -config pods.cfg MCAllocation.tla
tlc -workers 2 -config subnets.cfg MCSubnetting.tla
tlc -workers 2 -config workloads.cfg MCWorkloadClaims.tla
tlapm Counting.tla; tlapm AddressingProofs.tla               # the proofs
tlapm ProvisioningProofs.tla; tlapm ProvisioningRestProofs.tla
tlapm ProvisioningServedProofs.tla; tlapm AllocationProofs.tla
tlapm SubnettingProofs.tla; tlapm WorkloadClaimsProofs.tla
```
