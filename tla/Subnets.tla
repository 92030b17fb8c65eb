------------------------------- MODULE Subnets -------------------------------
(***************************************************************************)
(* What the Subnet webhook, the Subnet controller and the claim controller *)
(* share when there are several Subnets: the Subnet objects, IPPools and   *)
(* IPBlocks as far as Subnets are concerned with them, informer caches,    *)
(* the work queue, users and restarts.  How a claim is scaled inside its   *)
(* Subnet, and an IPPool cleaned up, is the subject of Provisioning.       *)
(***************************************************************************)
EXTENDS CIDRs, Sequences

CONSTANTS SubnetNames,
          Claims,       \* IPPoolClaims, each with the IPPool made for it
          NoPool,       \* "no IPPool": the IPBlock object does not exist
          Candidates,   \* spec.subnets of each claim
          ClaimVersion, \* spec.version of each claim
          Replicas,     \* spec.replicas of each claim
          MaxRequests, MaxAdmissions, MaxEvents \* bounds of the runs

ASSUME NoPoolAssumption == NoPool \notin Claims
ASSUME SubnetNamesAssumption == SubnetNames # {} /\ IsFiniteSet(SubnetNames)
ASSUME ClaimsAssumption ==
    /\ Candidates \in [Claims -> Seq(SubnetNames)]
    /\ ClaimVersion \in [Claims -> Versions]
    /\ Replicas \in [Claims -> Nat]
ASSUME LimitsAssumption ==
    MaxRequests \in Nat /\ MaxAdmissions \in Nat /\ MaxEvents \in Nat

VARIABLES
    subnet,    \* Subnet objects
    pool,      \* each claim and its IPPool
    holder,    \* IPBlock objects, by the CIDR in their name: whose they are
    admitted,  \* requests the webhook has admitted and nothing has stored yet
    seen,      \* the manager's cached Subnets
    poolsSeen, \* the manager's cached IPPools, by the Subnet in their label
    blocksSeen, \* the manager's cached IPBlocks, by the Subnet in their label
    subnetQ,   \* the Subnet controller's work queue
    cr,        \* the claim Reconcile in progress: IPBlocks it goes on to create
    budget     \* how many requests, scale-downs and restarts are left

objects == <<subnet, pool, holder>>
caches == <<seen, poolsSeen, blocksSeen>>
vars == <<objects, admitted, caches, subnetQ, cr, budget>>

-----------------------------------------------------------------------------
\* spec of a stored Subnet; size is the number of addresses of an IPBlock.
SubnetSpec == [version : Versions, cidr : CIDRs, size : Nat \ {0},
               excluded : SUBSET SUBSET Space]

\* status; ready unless free and blockCount are still nil.  total, used and
\* spare are the numbers in blockCount (spare is its "free").
SubnetStatus == [ready : BOOLEAN, free : SUBSET Space,
                 total : Nat, used : Nat, spare : Nat]

NoStatus == [ready |-> FALSE, free |-> {}, total |-> 0, used |-> 0, spare |-> 0]

SubnetObj == [st : {"live", "terminating"}, spec : SubnetSpec, status : SubnetStatus]
NoSubnet == [st |-> "none"]
MaybeSubnet == SubnetObj \cup {NoSubnet}

Exists(rn) == rn.st # "none"

\* A claim and its IPPool: a claim without an IPPool is "claimed".  subnet is
\* the IPPool's, and means nothing before there is one.
PoolObj == [st : {"claimed", "live", "terminating", "gone"},
            subnet : SubnetNames]

PoolExists(c) == pool[c].st \in {"live", "terminating"}

\* What the label of their Subnet selects.
PoolsOf(s) == {c \in Claims : PoolExists(c) /\ pool[c].subnet = s}
BlocksOf(s) == {b \in CIDRs : holder[b] # NoPool /\ pool[holder[b]].subnet = s}

Owned(c) == {b \in CIDRs : holder[b] = c}

\* left is how many IPBlocks the Reconcile has still to create, out of view.
Worker == [left : Nat, view : SUBSET CIDRs]
Idle == [left |-> 0, view |-> {}]

TypeOK ==
    /\ subnet \in [SubnetNames -> MaybeSubnet]
    /\ pool \in [Claims -> PoolObj]
    /\ holder \in [CIDRs -> Claims \cup {NoPool}]
    /\ admitted \subseteq [name : SubnetNames, old : MaybeSubnet, spec : SubnetSpec]
    /\ seen \in [SubnetNames -> MaybeSubnet]
    /\ poolsSeen \in [SubnetNames -> SUBSET Claims]
    /\ blocksSeen \in [SubnetNames -> SUBSET CIDRs]
    /\ subnetQ \subseteq SubnetNames
    /\ cr \in [Claims -> Worker]
    /\ budget \in [requests : Nat, events : Nat]

SubnetsInit ==
    /\ subnet = [s \in SubnetNames |-> NoSubnet]
    /\ pool = [c \in Claims |->
                 [st |-> "claimed", subnet |-> CHOOSE s \in SubnetNames : TRUE]]
    /\ holder = [b \in CIDRs |-> NoPool]
    /\ admitted = {}
    /\ seen = subnet
    /\ poolsSeen = [s \in SubnetNames |-> {}]
    /\ blocksSeen = [s \in SubnetNames |-> {}]
    /\ subnetQ = {}
    /\ cr = [c \in Claims |-> Idle]
    /\ budget = [requests |-> MaxRequests, events |-> MaxEvents]

-----------------------------------------------------------------------------
(* Users, and the end of IPPools.                                          *)

\* Deletion passes the webhook; the finalizer keeps the Subnet, terminating.
DeleteSubnet(s) ==
    /\ subnet[s].st = "live"
    /\ subnet' = [subnet EXCEPT ![s].st = "terminating"]
    /\ UNCHANGED <<pool, holder, admitted, caches, subnetQ, cr, budget>>

\* The claim goes, between two of its Reconciles, and its IPPool is deleted.
DeleteClaim(c) ==
    /\ pool[c].st \in {"claimed", "live"}
    /\ cr[c] = Idle
    /\ pool' = [pool EXCEPT ![c].st = IF @ = "live" THEN "terminating" ELSE "gone"]
    /\ UNCHANGED <<subnet, holder, admitted, caches, subnetQ, cr, budget>>

\* The claim asks for less and then for as much as before: a Reconcile in
\* between released an IPBlock.
ScaleDown(c, b) ==
    /\ holder[b] = c
    /\ pool[c].st = "live"
    /\ cr[c] = Idle
    /\ budget.events > 0
    /\ holder' = [holder EXCEPT ![b] = NoPool]
    /\ budget' = [budget EXCEPT !.events = @ - 1]
    /\ UNCHANGED <<subnet, pool, admitted, caches, subnetQ, cr>>

\* cleanUpIPool deletes the IPBlocks one after the other.
ReleaseBlock(c, b) ==
    /\ holder[b] = c
    /\ pool[c].st = "terminating"
    /\ holder' = [holder EXCEPT ![b] = NoPool]
    /\ UNCHANGED <<subnet, pool, admitted, caches, subnetQ, cr, budget>>

\* The IPPool goes after its IPBlocks.
RemovePool(c) ==
    /\ pool[c].st = "terminating"
    /\ Owned(c) = {}
    /\ pool' = [pool EXCEPT ![c].st = "gone"]
    /\ UNCHANGED <<subnet, holder, admitted, caches, subnetQ, cr, budget>>

-----------------------------------------------------------------------------
(* Informers and restarts.                                                 *)

SyncSubnet(s) ==
    /\ seen[s] # subnet[s]
    /\ seen' = [seen EXCEPT ![s] = subnet[s]]
    /\ subnetQ' = subnetQ \cup {s}
    /\ UNCHANGED <<objects, admitted, poolsSeen, blocksSeen, cr, budget>>

\* Mutant: the Subnet controller does not watch IPBlocks.
SyncBlocksUnwatched(s) ==
    /\ blocksSeen[s] # BlocksOf(s)
    /\ blocksSeen' = [blocksSeen EXCEPT ![s] = BlocksOf(s)]
    /\ UNCHANGED <<objects, admitted, seen, poolsSeen, subnetQ, cr, budget>>

\* Watches(IPBlock) with mapFuncForSubnet.
SyncBlocks(s) ==
    /\ blocksSeen[s] # BlocksOf(s)
    /\ blocksSeen' = [blocksSeen EXCEPT ![s] = BlocksOf(s)]
    /\ subnetQ' = subnetQ \cup {s}
    /\ UNCHANGED <<objects, admitted, seen, poolsSeen, cr, budget>>

\* Mutant: IPPool deletions do not pass the predicate either.
PoolEventNever(s) == FALSE

\* IPPoolDeletedPredicate: of all events only deletions pass.
PoolEvent(s) == poolsSeen[s] \ PoolsOf(s) # {}

SyncPools(s) ==
    /\ poolsSeen[s] # PoolsOf(s)
    /\ poolsSeen' = [poolsSeen EXCEPT ![s] = PoolsOf(s)]
    /\ subnetQ' = IF PoolEvent(s) THEN subnetQ \cup {s} ELSE subnetQ
    /\ UNCHANGED <<objects, admitted, seen, blocksSeen, cr, budget>>

\* A new controller manager lists everything anew and enqueues every Subnet.
RestartManager ==
    /\ budget.events > 0
    /\ budget' = [budget EXCEPT !.events = @ - 1]
    /\ seen' = subnet
    /\ poolsSeen' = [s \in SubnetNames |-> PoolsOf(s)]
    /\ blocksSeen' = [s \in SubnetNames |-> BlocksOf(s)]
    /\ subnetQ' = {s \in SubnetNames : Exists(subnet[s])}
    /\ cr' = [c \in Claims |-> Idle]
    /\ UNCHANGED <<objects, admitted>>
=============================================================================
