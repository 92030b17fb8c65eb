------------------------------ MODULE Subnetting ------------------------------
(***************************************************************************)
(* Subnet webhook, Subnet controller and claim controller together: whose  *)
(* addresses are whose while Subnets come, change and go.                  *)
(***************************************************************************)
EXTENDS SubnetWebhook, SubnetController, Placement

Init == SubnetsInit

Users ==
    \/ \E s \in SubnetNames :
         \/ DeleteSubnet(s)
         \/ \E r \in Requests[s] : AdmitCreate(s, r) \/ AdmitUpdate(s, r)
    \/ \E q \in admitted : Store(q)
    \/ \E c \in Claims :
         \/ DeleteClaim(c) \/ RemovePool(c)
         \/ \E b \in CIDRs : ScaleDown(c, b) \/ ReleaseBlock(c, b)

Platform ==
    \/ \E s \in SubnetNames : SyncSubnet(s) \/ SyncBlocks(s) \/ SyncPools(s)
    \/ RestartManager

Controllers ==
    \/ \E s \in SubnetNames : SubnetStep(s)
    \/ \E c \in Claims : ClaimStep(c)

Next == Users \/ Platform \/ Controllers

Spec == Init /\ [][Next]_vars

-----------------------------------------------------------------------------
\* The Subnet controller's queue and the informers go on.  Nothing is assumed
\* of users, claims and restarts.
Fairness ==
    \A s \in SubnetNames :
        /\ WF_vars(SubnetStep(s))
        /\ WF_vars(SyncSubnet(s) \/ SyncBlocks(s) \/ SyncPools(s))

FairSpec == Spec /\ Fairness

-----------------------------------------------------------------------------
(* Properties.                                                             *)

\* Nothing about the Subnet is on its way to the Subnet controller.
Settled(s) ==
    /\ s \notin subnetQ
    /\ seen[s] = subnet[s]
    /\ blocksSeen[s] = BlocksOf(s)

\* The Subnets an address belongs to.
Claimants(a) == {s \in SubnetNames : Exists(subnet[s]) /\ a \in subnet[s].spec.cidr}

\* validateCIDR: Subnets overlap only as far as the webhook was asked about
\* several at once.  No address has more Subnets than there can be requests
\* between admission and storage: one, if one request is stored before the
\* next is admitted.
SharedAtMost == \A a \in Space : Cardinality(Claimants(a)) <= MaxAdmissions

\* "so the whole allocation unit is reserved" (getTotalIPRanges): what can be
\* let out are the IPBlocks without an excluded address.
Lettable(spec) ==
    {b \in BlocksIn(spec.cidr, spec.size) : b \cap UNION spec.excluded = {}}

\* The IPBlocks of the Subnet's size inside its CIDR.
Cells(s) == BlocksIn(subnet[s].spec.cidr, subnet[s].spec.size)

\* The Subnet exists and its IPBlocks are its own cells.
Whole(s) == Exists(subnet[s]) /\ BlocksOf(s) \subseteq Cells(s)

\* Once everything about it has reached the Subnet controller, the status of a
\* Subnet, patched field by field, describes it.
StatusExact ==
    \A s \in SubnetNames : Settled(s) /\ Whole(s) =>
        LET spec == subnet[s].spec
            open == Lettable(spec) \ BlocksOf(s)
        IN  subnet[s].status =
              [ready |-> TRUE, free |-> UNION open, total |-> Cardinality(Lettable(spec)),
               used |-> Cardinality(BlocksOf(s)), spare |-> Cardinality(open)]

\* validateIPInUse: a request, whenever it was admitted, takes no IPBlock out
\* of the CIDR of a Subnet that has settled.
StaysInside ==
    [][\A s \in SubnetNames : Settled(s) /\ Exists(subnet[s]) =>
         \A b \in BlocksOf(s) \cap Cells(s) :
            b \in BlocksOf(s)' => Exists(subnet'[s]) /\ b \in Cells(s)']_vars

\* The claim fits into Subnet s: its version, and addresses enough.
Fits(c, s) ==
    LET spec == subnet[s].spec
    IN  /\ Exists(subnet[s])
        /\ spec.version = ClaimVersion[c]
        /\ Cardinality(Lettable(spec) \ BlocksOf(s)) * spec.size >= Replicas[c]

\* "selectSubnet returns the first Subnet with sufficient IPBlocks": when a
\* claim is given Subnet s, s fits unless its status is late, and no candidate
\* before s does that has settled.
FirstSufficient ==
    [][\A c \in Claims : pool[c].st = "claimed" /\ pool'[c].st = "live" =>
         \E i \in DOMAIN Candidates[c] :
            /\ pool'[c].subnet = Candidates[c][i]
            /\ \A j \in 1 .. i :
                 LET s == Candidates[c][j]
                 IN  Settled(s) /\ (Exists(subnet[s]) => Whole(s))
                        => (Fits(c, s) <=> j = i)]_vars

\* Why, first part: specs are what the webhook lets pass, and what it compared
\* with is what is still stored when the request is.
Admissible ==
    /\ \A s \in SubnetNames :
         Exists(subnet[s]) => subnet[s].spec.version = VersionOf(subnet[s].spec.cidr)
    /\ \A q \in admitted :
         /\ q.spec.version = VersionOf(q.spec.cidr)
         /\ Exists(q.old) => Frozen(q.old, q.spec) /\ KeepsUsed(q.old, q.spec)

\* Second part: a cached Subnet is never one of an older life of the name, and a
\* status that is in the cache and stored was computed from what is cached,
\* unless a Reconcile is queued.
Current(s) ==
    Exists(subnet[s]) /\ Exists(seen[s]) =>
        /\ Frozen(seen[s], subnet[s].spec)
        /\ \/ s \in subnetQ
           \/ subnet[s].status # seen[s].status
           \/ seen[s].status = StatusFor(seen[s].spec, blocksSeen[s])

\* Third part: the Subnets of an address, any of them, and the requests for it
\* in the name of others were once under way together.
Waiting(a, T) == {q \in admitted : a \in q.spec.cidr /\ q.name \notin T}

Together ==
    /\ IsFiniteSet(admitted) /\ Cardinality(admitted) <= MaxAdmissions
    /\ \A a \in Space : \A T \in SUBSET Claimants(a) :
         T # {} => Cardinality(T) + Cardinality(Waiting(a, T)) <= MaxAdmissions

\* The inductive invariant of Spec.
SubnetInv == TypeOK /\ Admissible /\ Together /\ \A s \in SubnetNames : Current(s)

\* "Wait until all referenced IPPools disappear before removing the Subnet
\* finalizer" (cleanUpSubnet): a Subnet goes only when no IPPool is left of it.
GoneWhenUnreferenced ==
    [][\A s \in SubnetNames :
         Exists(subnet[s]) /\ ~Exists(subnet'[s]) => PoolsOf(s) = {}]_vars

\* And then it goes, whatever the last event was.
Retired ==
    \A s \in SubnetNames :
        ~<>[](subnet[s].st = "terminating" /\ PoolsOf(s) = {})
=============================================================================
