------------------------------- MODULE Leasing -------------------------------
(***************************************************************************)
(* What provisioning promises, without its controllers: IPPools lease      *)
(* whole IPBlocks one at a time, offer addresses only out of IPBlocks they *)
(* lease, and give up an IPBlock only when they offer nothing of it.       *)
(***************************************************************************)
EXTENDS Addressing

CONSTANTS Pools, NoPool

VARIABLES lease, \* the IPPool that leases each IPBlock, if any
          offer  \* the addresses each IPPool offers to Pods

Leased(p) == {b \in Blocks : lease[b] = p}

Init ==
    /\ lease = [b \in Blocks |-> NoPool]
    /\ offer = [p \in Pools |-> {}]

Acquire(p, b) ==
    /\ lease[b] = NoPool
    /\ lease' = [lease EXCEPT ![b] = p]
    /\ UNCHANGED offer

Offer(p, S) ==
    /\ S \subseteq IPsOf(Leased(p))
    /\ offer' = [offer EXCEPT ![p] = S]
    /\ UNCHANGED lease

Relinquish(p, b) ==
    /\ lease[b] = p
    /\ BlockIPs(b) \cap offer[p] = {}
    /\ lease' = [lease EXCEPT ![b] = NoPool]
    /\ UNCHANGED offer

Next ==
    \E p \in Pools :
        \/ \E b \in Blocks : Acquire(p, b) \/ Relinquish(p, b)
        \/ \E S \in SUBSET IPs : Offer(p, S)

Spec == Init /\ [][Next]_<<lease, offer>>
=============================================================================
