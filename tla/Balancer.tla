------------------------------ MODULE Balancer ------------------------------
(***************************************************************************)
(* Backend selection and health of one service: get_backend, kill_be and  *)
(* the dead-backend re-test ticker.  Their code (svc.c) is not part of    *)
(* src/; this module follows spec.md 4.4 and 4.5 ("random" algorithm):    *)
(* the normal group is used unless none of its backends is alive and     *)
(* enabled, then the emergency group; a draw r in [0, tot_pri) walks the  *)
(* group in insertion order accumulating the priorities of alive, enabled *)
(* backends and returns the first whose running sum exceeds r.            *)
(***************************************************************************)
EXTENDS Integers, Sequences, FiniteSets

CONSTANTS
    NormalSeq,     \* the normal balancer group, in insertion order
    EmergSeq,      \* the emergency group, in insertion order
    Priority,      \* backend -> priority
    Disabled,      \* backends with the disabled flag set
    NoBackend      \* get_backend's NULL

Groups == {"normal", "emerg"}
GroupSeq(g) == IF g = "normal" THEN NormalSeq ELSE EmergSeq
BalancedBackends == {NormalSeq[k] : k \in DOMAIN NormalSeq} \cup {EmergSeq[k] : k \in DOMAIN EmergSeq}

VARIABLES
    alive,         \* backend -> alive flag (be->alive)
    totPri         \* group -> tot_pri

balancerVars == <<alive, totPri>>

Eligible(b) == alive[b] /\ b \notin Disabled

\* tot_pri as spec.md 3 defines it: the sum of the priorities of the
\* members of s that are alive (under the alive map a) and enabled.
RECURSIVE PriSumWith(_, _)
PriSumWith(a, s) ==
    IF s = <<>> THEN 0
    ELSE (IF a[Head(s)] /\ Head(s) \notin Disabled THEN Priority[Head(s)] ELSE 0)
         + PriSumWith(a, Tail(s))

PriSum(s) == PriSumWith(alive, s)

BalancerInit ==
    /\ alive = [b \in BalancedBackends |-> TRUE]
    /\ totPri = [g \in Groups |-> PriSum(GroupSeq(g))]

\* The walk of the random algorithm: first backend whose running sum of
\* eligible priorities exceeds r, or NoBackend when the walk runs off the end.
RECURSIVE Walk(_, _)
Walk(s, r) ==
    IF s = <<>> THEN NoBackend
    ELSE IF Eligible(Head(s)) /\ r < Priority[Head(s)] THEN Head(s)
    ELSE Walk(Tail(s), IF Eligible(Head(s)) THEN r - Priority[Head(s)] ELSE r)

\* Group chosen by get_backend.
ChosenGroup ==
    IF \E k \in DOMAIN NormalSeq : Eligible(NormalSeq[k]) THEN "normal" ELSE "emerg"

\* Possible results of get_backend: one per draw r in [0, tot_pri).
GetBackend ==
    LET g == ChosenGroup IN
    IF totPri[g] <= 0 THEN {NoBackend}
    ELSE {Walk(GroupSeq(g), r) : r \in 0..(totPri[g] - 1)}

GroupsOf(b) == {g \in Groups : \E k \in DOMAIN GroupSeq(g) : GroupSeq(g)[k] = b}

(* kill_be(svc, be, BE_KILL): mark the backend dead and recompute tot_pri *)
(* of its group under the balancer lock.                                  *)
KillBe(b) ==
    /\ alive' = [alive EXCEPT ![b] = FALSE]
    /\ totPri' = [g \in Groups |->
                    IF g \in GroupsOf(b) THEN PriSumWith(alive', GroupSeq(g)) ELSE totPri[g]]

(* The ticker re-tests a dead backend; on success it is alive again and   *)
(* its priority is restored to the group's tot_pri.                       *)
Resurrect(b) ==
    /\ ~alive[b]
    /\ alive' = [alive EXCEPT ![b] = TRUE]
    /\ totPri' = [g \in Groups |->
                    IF g \in GroupsOf(b) /\ b \notin Disabled
                    THEN totPri[g] + Priority[b] ELSE totPri[g]]
=============================================================================
