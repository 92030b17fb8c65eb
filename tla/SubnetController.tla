--------------------------- MODULE SubnetController ---------------------------
(***************************************************************************)
(* The Reconcile of subnetReconciler (pkg/controller/subnet_controller.go).*)
(* Everything it reads comes from caches and it makes one API call, so it  *)
(* is one step: a delay before the call is the same as a later informer    *)
(* event.  A Reconcile whose call fails changes nothing and stays queued.  *)
(***************************************************************************)
EXTENDS Subnets

Dequeue(s) ==
    /\ s \in subnetQ
    /\ subnetQ' = subnetQ \ {s}

\* Mutant: excluded ranges are taken out as they are.
TotalUnrounded(spec) == spec.cidr \ UNION spec.excluded

\* getTotalIPRanges: the CIDR without the IPBlocks that hold an excluded
\* address.
Total(spec) ==
    IF spec.cidr \cap UNION spec.excluded = {} THEN spec.cidr
    ELSE spec.cidr \ UNION {Widened(C, spec.size) :
                              C \in UNION {Cut(range) : range \in spec.excluded}}

\* Mutant: what is free is counted by subtraction.
StatusForSubtracted(spec, blocks) ==
    LET total == Total(spec)
        used  == UNION blocks
    IN  [ready |-> TRUE, free |-> total \ used,
         total |-> Cardinality(total) \div spec.size,
         used |-> Cardinality(used) \div spec.size,
         spare |-> (Cardinality(total) - Cardinality(used)) \div spec.size]

\* The status of a Subnet with this spec and these IPBlocks.
StatusFor(spec, blocks) ==
    LET total == Total(spec)
        used  == UNION blocks
        free  == total \ used
    IN  [ready |-> TRUE, free |-> free,
         total |-> Cardinality(total) \div spec.size,
         used |-> Cardinality(used) \div spec.size,
         spare |-> Cardinality(free) \div spec.size]

\* A merge patch sends the fields in which the new status differs from the
\* cached one, all of them when the cached one has none.
MergeStatus(stored, old, new) ==
    LET Sent(field) == ~old.ready \/ new[field] # old[field]
    IN  [field \in DOMAIN new |-> IF Sent(field) THEN new[field] ELSE stored[field]]

ForgetSubnet(s) ==
    /\ Dequeue(s)
    /\ ~Exists(seen[s])
    /\ UNCHANGED <<objects, admitted, caches, cr, budget>>

\* cleanUpSubnet goes on: no IPBlock is counted and no IPPool is cached.
Cleanable(s) ==
    /\ seen[s].st = "terminating"
    /\ seen[s].status.ready
    /\ seen[s].status.used = 0
    /\ poolsSeen[s] = {}

\* The Update without the finalizer removes the Subnet; the API server takes
\* it only if the cached Subnet was the latest version.
RemoveSubnetFinalizer(s) ==
    /\ Dequeue(s)
    /\ Cleanable(s)
    /\ subnet[s] = seen[s]
    /\ subnet' = [subnet EXCEPT ![s] = NoSubnet]
    /\ UNCHANGED <<pool, holder, admitted, caches, cr, budget>>

\* Any other Subnet, terminating or not, gets its status.  A patch of one that
\* is gone fails.
UpdateSubnetStatus(s) ==
    LET old == seen[s].status
        new == StatusFor(seen[s].spec, blocksSeen[s])
    IN  /\ Dequeue(s)
        /\ Exists(seen[s]) /\ ~Cleanable(s)
        /\ Exists(subnet[s])
        /\ subnet' = [subnet EXCEPT ![s].status = MergeStatus(@, old, new)]
        /\ UNCHANGED <<pool, holder, admitted, caches, cr, budget>>

SubnetStep(s) == ForgetSubnet(s) \/ RemoveSubnetFinalizer(s) \/ UpdateSubnetStatus(s)
=============================================================================
