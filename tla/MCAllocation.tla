---------------------------- MODULE MCAllocation ----------------------------
(***************************************************************************)
(* Instances of Allocation for TLC: a StatefulSet with up to two Pods and  *)
(* one Pod of a Deployment, which share the IPPools of their namespace.    *)
(***************************************************************************)
EXTENDS Allocation

CONSTANTS s0, s1, d1

OrdinalOf == [p \in STSPods |-> IF p = s0 THEN 0 ELSE 1]

\* Two IPv4 addresses and one IPv6 address; every hash starts at the first.
SmallPools == [v \in Versions |-> IF v = "v4" THEN {0, 1} ELSE {2}]

\* One IPv4 address, which the Pods compete for, and enough IPv6 addresses.
ScarceIPv4 == [v \in Versions |-> IF v = "v4" THEN {0} ELSE {1, 2}]
EqualHashes == [p \in Pods |-> [v \in Versions |-> 0]]

\* The StatefulSet is dual-stack; d1 competes with it for IPv4 addresses.
DualStack == [p \in Pods |-> IF p = d1 THEN {"v4"} ELSE Versions]
=============================================================================
