---------------------------- MODULE MCSubnetting ----------------------------
(* Constants of the runs that TLC makes of Subnetting.                     *)
EXTENDS Subnetting, TLC

CONSTANTS n1, n2, c1

\* Four IPv4 addresses and four IPv6 ones, and the CIDRs that come into play.
AllAddresses == 0 .. 7
SixAddresses == 4 .. 7
SomeCIDRs == {0 .. 3, 0 .. 1, 2 .. 3, {3}, 4 .. 7}

TwoCandidates == [c \in Claims |-> <<n2, n1>>]
AllIPv4 == [c \in Claims |-> "IPv4"]
ThreeReplicas == [c \in Claims |-> 3]

Ask(C, size, excluded) ==
    [version |-> "unset", ip |-> Network(C), cidr |-> C, size |-> size, excluded |-> excluded]

\* n1 has two IPBlocks, or one of them, or two with an excluded address in
\* one; n2 has a part of the same addresses, or one IPBlock of IPv6 ones.
SomeRequests ==
    [s \in SubnetNames |->
        IF s = n1 THEN {Ask(0 .. 3, 2, {}), Ask(0 .. 1, 2, {}), Ask(0 .. 3, 2, {{3}})}
        ELSE {Ask(2 .. 3, 2, {}), Ask(4 .. 7, 0, {})}]
=============================================================================
