-------------------------------- MODULE CIDRs --------------------------------
(***************************************************************************)
(* The address space of all Subnets.  A CIDR is the set of addresses it    *)
(* stands for, and an IPRanges value of the code the set of the addresses  *)
(* in it.  Every CIDR has a lowest address, and two CIDRs are apart or one *)
(* lies inside the other: nothing here needs powers of two.                *)
(***************************************************************************)
EXTENDS Integers, FiniteSets

CONSTANTS Space, \* the addresses, in their order
          CIDRs, \* the sets of addresses some CIDR notation stands for
          V6     \* the IPv6 addresses; all others are IPv4

ASSUME SpaceAssumption == Space \subseteq Nat /\ IsFiniteSet(Space) /\ V6 \subseteq Space

ASSUME CIDRsAssumption ==
    /\ CIDRs \subseteq SUBSET Space /\ IsFiniteSet(CIDRs)
    /\ \A C \in CIDRs : \E a \in C : \A x \in C : a <= x
    /\ \A C \in CIDRs : C \subseteq V6 \/ C \cap V6 = {}
    /\ \A C, D \in CIDRs : C \cap D = {} \/ C \subseteq D \/ D \subseteq C

\* The network address of a CIDR.
Network(C) == CHOOSE a \in C : \A x \in C : a <= x

Versions == {"IPv4", "IPv6"}

\* net.ParseCIDR and IPRanges.Version: the IP version of some addresses.
VersionOf(C) == IF C \cap V6 = {} THEN "IPv4" ELSE "IPv6"

\* The IPBlocks of a given size inside S: what a block iterator goes through.
BlocksIn(S, size) == {b \in CIDRs : Cardinality(b) = size /\ b \subseteq S}

\* CIDRIterator cuts a range into the largest CIDRs that fit.
Cut(range) ==
    {C \in CIDRs : /\ C \subseteq range
                   /\ \A D \in CIDRs : C \subseteq D /\ D \subseteq range => D = C}

\* One CIDR of an excluded range, rounded to the IPBlock that contains it
\* unless it is one or several IPBlocks already.
Widened(C, size) ==
    IF Cardinality(C) >= size THEN C
    ELSE CHOOSE b \in CIDRs : Cardinality(b) = size /\ C \subseteq b
=============================================================================
