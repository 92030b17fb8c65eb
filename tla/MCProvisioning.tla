--------------------------- MODULE MCProvisioning ---------------------------
(* Constants of the runs that TLC makes of Provisioning.                   *)
EXTENDS Provisioning

CONSTANTS c1, c2 \* two claims

\* Each claim in a namespace of its own: they share nothing but the Subnet.
OwnNamespaces == [p \in Pools |-> p]

\* One claim asks for addresses of one IPBlock or of two, the other for one.
OneOrTwoBlocks == [p \in Pools |-> IF p = c1 THEN {1, BlockSize + 1} ELSE {1}]
NoneOneOrTwoBlocks == [p \in Pools |-> {0, 1, BlockSize + 1}]
UpToThree == [p \in Pools |-> 0 .. 3]
UpToFour == [p \in Pools |-> 0 .. 4]
=============================================================================
