----------------------------- MODULE Addressing -----------------------------
(***************************************************************************)
(* The address space of one Subnet: NumBlocks equal IPBlocks of BlockSize  *)
(* addresses each, both numbered from 0 upwards.  An IPRanges value of the *)
(* code is the set of the addresses it stands for, in increasing order,    *)
(* and an IPBlock is its position in the Subnet.                           *)
(***************************************************************************)
EXTENDS Integers, FiniteSets

CONSTANTS NumBlocks, \* how many IPBlocks the Subnet's CIDR holds
          BlockSize  \* how many addresses one IPBlock holds (the code's step)

ASSUME NumBlocksAssumption == NumBlocks \in Nat \ {0}
ASSUME BlockSizeAssumption == BlockSize \in Nat \ {0}

Blocks == 0 .. NumBlocks - 1
IPs == 0 .. NumBlocks * BlockSize - 1

BlockOf(ip) == ip \div BlockSize
BlockIPs(b) == {ip \in IPs : BlockOf(ip) = b}

\* The addresses of a set of IPBlocks.
IPsOf(B) == {ip \in IPs : BlockOf(ip) \in B}

\* IPRanges.Slice(0, n - 1): the n lowest addresses of S, all of S when it
\* has no more than n, none when n is 0 (the callers never slice with n = 0).
Lowest(S, n) == {x \in S : Cardinality({y \in S : y < x}) < n}

\* blockIterator: the free IPBlock after b, or the first one when b is the
\* last (Next returned nil and the iterator was Reset).
NextBlock(F, b) ==
    LET later == {c \in F : c > b}
        ring  == IF later = {} THEN F ELSE later
    IN  CHOOSE c \in ring : \A d \in ring : c <= d

\* How many IPBlocks hold n addresses, rounded up.
BlocksFor(n) == (n + BlockSize - 1) \div BlockSize
=============================================================================
