------------------------------ MODULE Allocator ------------------------------
(***************************************************************************)
(* cmdAdd in requeueipd: allocator.Get (pkg/ipam/allocator.go).  It reads  *)
(* the Pod from the API server, IP objects and IPPools from the daemon's   *)
(* caches, and takes an address by creating an IP object named after it.   *)
(* The versions are assigned by two goroutines, one address each.          *)
(***************************************************************************)
EXTENDS Pods

\* The IPs of p (by its StatefulSet and name, or by its UID) in the cache.
Existing(p) == {a \in IPs : seen[node[p]][a] = p}

\* Mutant: a complete set of addresses counts as too many.
TooManyOffByOne(p) ==
    \E v \in Versions :
        Cardinality(Existing(p) \cap IPPool[v]) > 0

\* v4 or v6 would fall below zero.
TooMany(p) ==
    \E v \in Versions :
        Cardinality(Existing(p) \cap IPPool[v]) > IF v \in Wants[p] THEN 1 ELSE 0

\* Mutant: the previous addresses are not subtracted.
MissingAll(p) == Wants[p]

\* The versions left to assign.
Missing(p) == {v \in Wants[p] : Existing(p) \cap IPPool[v] = {}}

\* The address (a set of one) at the index of a hash among the free ones.
Indexed(S, h) ==
    {a \in S : Cardinality({b \in S : b < a}) = h % Cardinality(S)}

\* Linear probing: the next free address, or the first one after the last.
Following(S, a) ==
    LET later == {b \in S : b > a}
        ring  == IF later = {} THEN S ELSE later
    IN  {b \in ring : \A c \in ring : b <= c}

FreeOf(p, v) == free[node[p]] \cap IPPool[v]

-----------------------------------------------------------------------------
\* isPodAlive
Alive(p) == pod[p] = "alive"

\* The kubelet sets up the sandbox of a Pod that has none; Get reads the Pod and
\* its IPs and refuses dead Pods and those with too many.  (getWorkload refuses
\* Pods without a supported, live workload: the Pods here have one.)
Accepted(p) ==
    /\ using[p] = {} /\ ~req[p].busy
    /\ Alive(p)
    /\ ~TooMany(p)

\* All addresses are there already: they are the answer.
Retrieve(p) ==
    /\ Accepted(p) /\ Wants[p] # {}
    /\ Missing(p) = {}
    /\ using' = [using EXCEPT ![p] = Existing(p)]
    /\ UNCHANGED <<pod, node, owner, sts, daemons, manager, req, budget>>

\* assign starts a goroutine for each version that is missing.
Assign(p) ==
    /\ Accepted(p)
    /\ Missing(p) # {}
    /\ req' = [req EXCEPT ![p] =
                 [busy |-> TRUE, got |-> Existing(p),
                  try |-> [v \in Versions |->
                             [st |-> IF v \in Missing(p) THEN "first" ELSE "none",
                              ip |-> 0]]]]
    /\ UNCHANGED <<cluster, daemons, manager, budget>>

\* Mutant: AlreadyExists is taken for success.
TryCreateIdempotent(p, v, a, next) ==
    /\ owner' = [owner EXCEPT ![a] = IF @ = NoPod THEN p ELSE @]
    /\ req' = [req EXCEPT ![p].try[v] = [st |-> "ok", ip |-> a]]
    /\ UNCHANGED <<pod, node, using, sts, daemons, manager, budget>>

\* Create succeeds if the name is not taken; otherwise the goroutine of v goes
\* on with one of the next states.
TryCreate(p, v, a, next) ==
    /\ IF owner[a] = NoPod
       THEN /\ owner' = [owner EXCEPT ![a] = p]
            /\ req' = [req EXCEPT ![p].try[v] = [st |-> "ok", ip |-> a]]
       ELSE /\ req' \in {[req EXCEPT ![p].try[v] = t] : t \in next}
            /\ UNCHANGED owner
    /\ UNCHANGED <<pod, node, using, sts, daemons, manager, budget>>

CreateFirst(p, v) ==
    /\ req[p].try[v].st = "first"
    /\ \E a \in Indexed(FreeOf(p, v), Hash[p][v]) :
         TryCreate(p, v, a, [st : {"probe"}, ip : Following(FreeOf(p, v), a)])

\* Two conflicts: retry with what the cache has then, or the retries are over.
CreateProbe(p, v) ==
    /\ req[p].try[v].st = "probe"
    /\ TryCreate(p, v, req[p].try[v].ip,
                 [st : {"first", "failed"}, ip : {0}])

\* The IPPool was still not ready, or was exhausted, after the last retry.
Exhausted(p, v) ==
    /\ req[p].try[v].st = "first"
    /\ FreeOf(p, v) = {}
    /\ req' = [req EXCEPT ![p].try[v] = [st |-> "failed", ip |-> 0]]
    /\ UNCHANGED <<cluster, daemons, manager, budget>>

\* Mutant: what the other goroutine has got is answered all the same.
AnswerPartly(p) ==
    LET tries == req[p].try
        new   == {tries[v].ip : v \in {w \in Versions : tries[w].st = "ok"}}
    IN  /\ req[p].busy
        /\ \A v \in Versions : tries[v].st \in {"none", "ok", "failed"}
        /\ using' = [using EXCEPT ![p] = req[p].got \cup new]
        /\ req' = [req EXCEPT ![p] = Idle]
        /\ UNCHANGED <<pod, node, owner, sts, daemons, manager, budget>>

\* wg.Wait: one failure fails the whole request and leaves what the other
\* goroutine has created for the next one to find.
Answer(p) ==
    LET tries == req[p].try
        new   == {tries[v].ip : v \in {w \in Versions : tries[w].st = "ok"}}
    IN  /\ req[p].busy
        /\ \A v \in Versions : tries[v].st \in {"none", "ok", "failed"}
        /\ using' = IF \E v \in Versions : tries[v].st = "failed"
                    THEN using
                    ELSE [using EXCEPT ![p] = req[p].got \cup new]
        /\ req' = [req EXCEPT ![p] = Idle]
        /\ UNCHANGED <<pod, node, owner, sts, daemons, manager, budget>>

\* The daemon restarts, the plugin's minute is over, or the answer is lost.
Abort(p) ==
    /\ req[p].busy
    /\ budget.faults > 0
    /\ budget' = [budget EXCEPT !.faults = @ - 1]
    /\ req' = [req EXCEPT ![p] = Idle]
    /\ UNCHANGED <<cluster, daemons, manager>>

CmdAddStep(p) ==
    \/ Retrieve(p) \/ Assign(p) \/ Answer(p)
    \/ \E v \in Versions : CreateFirst(p, v) \/ CreateProbe(p, v) \/ Exhausted(p, v)
=============================================================================
