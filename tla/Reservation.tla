----------------------------- MODULE Reservation -----------------------------
(***************************************************************************)
(* What allocation promises, without daemons, goroutines, caches and       *)
(* garbage collectors: a Pod uses a whole set of addresses, one of each    *)
(* version it wants, that it has reserved one by one; and an address is    *)
(* released only when its Pod has no title to it any more.                 *)
(***************************************************************************)
CONSTANTS Pods, NoPod,
          STSPods,  \* the Pods whose names can come back with their addresses
          Versions,
          Wants,    \* the versions each Pod wants
          IPPool    \* the addresses of each version

IPs == UNION {IPPool[v] : v \in Versions}

VARIABLES reserved, \* the Pod that each address is reserved for
          uses,     \* the addresses each Pod has been told to use
          entitled  \* the Pods whose addresses are theirs

Reserved(p) == {a \in IPs : reserved[a] = p}

Whole(p, S) ==
    /\ \A v \in Wants[p] : \E a \in IPPool[v] : S \cap IPPool[v] = {a}
    /\ \A v \in Versions \ Wants[p] : S \cap IPPool[v] = {}

Init ==
    /\ reserved = [a \in IPs |-> NoPod]
    /\ uses = [p \in Pods |-> {}]
    /\ entitled \in SUBSET Pods

Reserve(p, v, a) ==
    /\ reserved[a] = NoPod
    /\ Reserved(p) \cap IPPool[v] = {}
    /\ reserved' = [reserved EXCEPT ![a] = p]
    /\ UNCHANGED <<uses, entitled>>

Use(p, S) ==
    /\ p \in entitled /\ uses[p] = {}
    /\ S \subseteq Reserved(p) /\ Whole(p, S)
    /\ uses' = [uses EXCEPT ![p] = S]
    /\ UNCHANGED <<reserved, entitled>>

Stop(p) ==
    /\ uses' = [uses EXCEPT ![p] = {}]
    /\ UNCHANGED <<reserved, entitled>>

\* Only a Pod of the StatefulSet gets its title back.
Entitle(W) ==
    /\ W \ entitled \subseteq STSPods
    /\ entitled' = W
    /\ uses' = [p \in Pods |-> IF p \in W THEN uses[p] ELSE {}]
    /\ UNCHANGED reserved

Release(a) ==
    /\ reserved[a] \in Pods \ entitled
    /\ reserved' = [reserved EXCEPT ![a] = NoPod]
    /\ UNCHANGED <<uses, entitled>>

Next ==
    \/ \E p \in Pods :
         \/ Stop(p)
         \/ \E v \in Versions : \E a \in IPPool[v] : Reserve(p, v, a)
         \/ \E S \in SUBSET IPs : Use(p, S)
    \/ \E W \in SUBSET Pods : Entitle(W)
    \/ \E a \in IPs : Release(a)

Spec == Init /\ [][Next]_<<reserved, uses, entitled>>
=============================================================================
