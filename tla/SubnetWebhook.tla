---------------------------- MODULE SubnetWebhook ----------------------------
(***************************************************************************)
(* Admission of Subnets (pkg/webhook/subnet_webhook.go).  A request is     *)
(* admitted on what the API server holds at that moment and stored later:  *)
(* another one may be admitted or stored in between.  The API server       *)
(* stores an update only if the object it was admitted against is still    *)
(* the latest version, and a new Subnet only if there is none of its name. *)
(***************************************************************************)
EXTENDS Subnets

\* What users ask for each Subnet to be: ip and cidr are the two results of net.ParseCIDR of
\* spec.cidr; "unset" and 0 are a version and a blockSize that were left out.
CONSTANT Requests

Request == [version : Versions \cup {"unset"}, ip : Space, cidr : CIDRs,
            size : Nat, excluded : SUBSET SUBSET Space]

ASSUME RequestsAssumption == Requests \in [SubnetNames -> SUBSET Request]

\* mutate: the version follows from the CIDR, an IPBlock has 4 addresses (a
\* mask of 30 or 126 bits).
DefaultSize == 4

Mutated(r) ==
    [version |-> IF r.version = "unset" THEN VersionOf(r.cidr) ELSE r.version,
     cidr |-> r.cidr,
     size |-> IF r.size = 0 THEN DefaultSize ELSE r.size,
     excluded |-> r.excluded]

\* A mask length can be asked for at any size: a CIDR is made of IPBlocks of each size up
\* to its own, and a smaller CIDR of its version lies in one of that size.  The addresses
\* of an excluded range have one version, and CIDRIterator leaves none of them out.
ASSUME MasksAssumption ==
    \A s \in SubnetNames : \A r \in Requests[s] :
        LET spec == Mutated(r)
        IN  /\ spec.size <= Cardinality(spec.cidr) =>
                 /\ spec.cidr = UNION BlocksIn(spec.cidr, spec.size)
                 /\ \A C \in CIDRs :
                      VersionOf(C) = VersionOf(spec.cidr) /\ Cardinality(C) <= spec.size
                        => \E b \in BlocksIn(Space, spec.size) : C \subseteq b
            /\ \A range \in spec.excluded :
                 /\ range \subseteq V6 \/ range \cap V6 = {}
                 /\ range = UNION Cut(range)

\* Mutant: only the CIDR asked for is searched for the other's address.
OverlapsAbove(C, D) == Network(D) \in C

\* validateCIDR: two CIDRs overlap when one contains the other's address.
Overlaps(C, D) == Network(D) \in C \/ Network(C) \in D

ValidCIDR(s, r, spec) ==
    /\ r.ip = Network(r.cidr)
    /\ spec.version = VersionOf(spec.cidr)
    /\ \A t \in SubnetNames \ {s} :
         Exists(subnet[t]) => ~Overlaps(spec.cidr, subnet[t].spec.cidr)

ValidExcluded(spec) == \A range \in spec.excluded : VersionOf(range) = spec.version

\* Masks of 26 to 31 bits, or 122 to 127, and none shorter than the CIDR's.
ValidBlockSize(spec) ==
    /\ spec.size \in 2 .. 64
    /\ spec.size <= Cardinality(spec.cidr)

\* validateSubnetFreeze
Frozen(old, spec) ==
    /\ spec.version = old.spec.version
    /\ spec.size = old.spec.size

\* Mutant: nothing protects what is in use.
KeepsAnything(old, spec) == TRUE

\* validateIPInUse: a CIDR loses only addresses its status reports as free.
KeepsUsed(old, spec) ==
    \/ spec.cidr = old.spec.cidr
    \/ old.status.ready /\ old.spec.cidr \ spec.cidr \subseteq old.status.free

Valid(s, r) ==
    LET spec == Mutated(r)
    IN  ValidCIDR(s, r, spec) /\ ValidExcluded(spec) /\ ValidBlockSize(spec)

Admit(s, r) ==
    /\ budget.requests > 0
    /\ Cardinality(admitted) < MaxAdmissions
    /\ admitted' = admitted \cup {[name |-> s, old |-> subnet[s], spec |-> Mutated(r)]}
    /\ budget' = [budget EXCEPT !.requests = @ - 1]
    /\ UNCHANGED <<objects, caches, subnetQ, cr>>

\* ValidateCreate
AdmitCreate(s, r) ==
    /\ ~Exists(subnet[s])
    /\ Valid(s, r)
    /\ Admit(s, r)

\* ValidateUpdate: a terminating Subnet may only lose its finalizer.
AdmitUpdate(s, r) ==
    /\ subnet[s].st = "live"
    /\ Mutated(r) # subnet[s].spec
    /\ Frozen(subnet[s], Mutated(r))
    /\ Valid(s, r)
    /\ KeepsUsed(subnet[s], Mutated(r))
    /\ Admit(s, r)

\* The API server stores the object.  A status update in between is a
\* conflict too, and so is a deletion.  A name is used again only after the
\* manager's cache has seen the last Subnet of that name go.
Store(q) ==
    /\ q \in admitted
    /\ Exists(q.old) \/ ~Exists(seen[q.name])
    /\ admitted' = admitted \ {q}
    /\ subnet' = IF subnet[q.name] # q.old THEN subnet
                 ELSE [subnet EXCEPT ![q.name] =
                         IF Exists(q.old) THEN [q.old EXCEPT !.spec = q.spec]
                         ELSE [st |-> "live", spec |-> q.spec, status |-> NoStatus]]
    /\ UNCHANGED <<pool, holder, caches, subnetQ, cr, budget>>
=============================================================================
