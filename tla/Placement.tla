------------------------------ MODULE Placement ------------------------------
(***************************************************************************)
(* The claim controller as far as it deals with several Subnets            *)
(* (getOrMarkIPPool, selectSubnet, claimIPBlocks in                        *)
(* pkg/controller/ippoolclaim_controller.go): it reads Subnets from its    *)
(* cache, IPPools and IPBlocks from the API server.  A Reconcile may begin *)
(* at any time, for whatever reason; ClaimController has the rest of it.   *)
(***************************************************************************)
EXTENDS Subnets

\* Mutant: a Subnet of the other version will do.
SkippedVersionless(c, s) ==
    Exists(seen[s]) =>
        seen[s].status.ready /\ seen[s].status.spare * seen[s].spec.size < Replicas[c]

\* selectSubnet goes on to the next candidate.  It does not look at whether
\* the Subnet is terminating.
Skipped(c, s) ==
    Exists(seen[s]) =>
        \/ seen[s].spec.version # ClaimVersion[c]
        \/ seen[s].status.ready /\ seen[s].status.spare * seen[s].spec.size < Replicas[c]

\* The first candidate left, if it is ready: one that is not ready ends the
\* Reconcile, to keep the order of the candidates.
Selects(c, s) ==
    \E i \in DOMAIN Candidates[c] :
        /\ s = Candidates[c][i]
        /\ ~Skipped(c, s)
        /\ seen[s].status.ready
        /\ \A j \in 1 .. i - 1 : Skipped(c, Candidates[c][j])

\* scaleUp: how many IPBlocks the claim lacks.
Missing(c, size) ==
    LET total == Cardinality(Owned(c)) * size
    IN  IF Replicas[c] <= total THEN 0
        ELSE (Replicas[c] - total + size - 1) \div size

\* claimIPBlocks with the cached Subnet, or an error when its count is too low.
StartWork(c, rn) ==
    LET expect == Missing(c, rn.spec.size)
    IN  cr' = [cr EXCEPT ![c] =
                 IF expect = 0 \/ expect > rn.status.spare THEN Idle
                 ELSE [left |-> expect,
                       view |-> BlocksIn(rn.status.free, rn.spec.size)]]

\* The IPPool does not exist yet: an empty one is created.
MarkPool(c, s) ==
    /\ pool[c].st = "claimed"
    /\ Selects(c, s)
    /\ pool' = [pool EXCEPT ![c] = [st |-> "live", subnet |-> s]]
    /\ StartWork(c, seen[s])
    /\ UNCHANGED <<subnet, holder, admitted, caches, subnetQ, budget>>

\* The IPPool exists, and so does its Subnet in the cache, with a status.
GetPool(c) ==
    LET rn == seen[pool[c].subnet]
    IN  /\ pool[c].st = "live"
        /\ cr[c] = Idle
        /\ Exists(rn)
        /\ rn.status.ready
        /\ StartWork(c, rn)
        /\ UNCHANGED <<objects, admitted, caches, subnetQ, budget>>

\* A goroutine creates its IPBlock, which did not exist.
CreateBlock(c, b) ==
    /\ cr[c].left > 0
    /\ b \in cr[c].view
    /\ holder[b] = NoPool
    /\ holder' = [holder EXCEPT ![b] = c]
    /\ cr' = [cr EXCEPT ![c] = IF @.left = 1 THEN Idle
                               ELSE [left |-> @.left - 1, view |-> @.view]]
    /\ UNCHANGED <<subnet, pool, admitted, caches, subnetQ, budget>>

\* The goroutines left met existing IPBlocks or errors.
EndClaim(c) ==
    /\ cr[c] # Idle
    /\ cr' = [cr EXCEPT ![c] = Idle]
    /\ UNCHANGED <<objects, admitted, caches, subnetQ, budget>>

ClaimStep(c) ==
    \/ \E s \in SubnetNames : MarkPool(c, s)
    \/ GetPool(c)
    \/ \E b \in CIDRs : CreateBlock(c, b)
    \/ EndClaim(c)
=============================================================================
