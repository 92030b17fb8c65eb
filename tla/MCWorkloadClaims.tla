-------------------------- MODULE MCWorkloadClaims --------------------------
(* Constants of the runs that TLC makes of WorkloadClaims.                 *)
EXTENDS WorkloadClaims

\* Both versions, or more addresses of one of them only.
TwoTemplates == {[v \in Versions |-> 1],
                 [v \in Versions |-> IF v = "IPv4" THEN 2 ELSE NoSpec]}
=============================================================================
