-------------------------- MODULE CollectionPromise --------------------------
(***************************************************************************)
(* What collection promises of each vCenter, without jobs, generations,    *)
(* workers, channels, locks or reloads: one collection of a vCenter at a   *)
(* time, and no more of them than the limit; a collection that succeeds    *)
(* stores, in one step with its cursor and its status, the items that      *)
(* follow the cursor, and these only; one that fails stores nothing; and   *)
(* a restart ends what is under way and touches nothing that is stored.    *)
(* CollectorRuntime implements this specification (CollectsAsPromised).    *)
(***************************************************************************)
EXTENDS Integers, FiniteSets

CONSTANTS VCenters, Limit

VARIABLES
    source,     \* vCenter -> how many items it has produced
    stored,     \* vCenter -> the items kept for it
    cursor,     \* vCenter -> the last item passed
    status,     \* vCenter -> what is shown of its collection
    collecting  \* the vCenters that are collected from

vars == <<source, stored, cursor, status, collecting>>

Items(v, from, to) == {<<v, n>> : n \in (from + 1) .. to}

Init ==
    /\ source = [v \in VCenters |-> 0]
    /\ stored = [v \in VCenters |-> {}]
    /\ cursor = [v \in VCenters |-> 0]
    /\ status = [v \in VCenters |-> "idle"]
    /\ collecting = {}

Produce(v) ==
    /\ source' = [source EXCEPT ![v] = @ + 1]
    /\ UNCHANGED <<stored, cursor, status, collecting>>

Begin(v) ==
    /\ v \notin collecting /\ Cardinality(collecting) < Limit
    /\ collecting' = collecting \cup {v}
    /\ status' = [status EXCEPT ![v] = "running"]
    /\ UNCHANGED <<source, stored, cursor>>

(* A collector may leave its cursor; the same items come again then.        *)
Store(v) ==
    /\ v \in collecting
    /\ \E last \in cursor[v] .. source[v] :
          /\ stored' = [stored EXCEPT ![v] = @ \cup Items(v, cursor[v], last)]
          /\ cursor' \in {cursor, [cursor EXCEPT ![v] = last]}
    /\ status' = [status EXCEPT ![v] = "ok"]
    /\ collecting' = collecting \ {v}
    /\ UNCHANGED source

(* The status stays "running" only if it could not be written.              *)
Fail(v) ==
    /\ v \in collecting
    /\ status' \in {status, [status EXCEPT ![v] = "failed"]}
    /\ collecting' = collecting \ {v}
    /\ UNCHANGED <<source, stored, cursor>>

Restart ==
    /\ collecting' = {}
    /\ UNCHANGED <<source, stored, cursor, status>>

Next ==
    \/ \E v \in VCenters : Produce(v) \/ Begin(v) \/ Store(v) \/ Fail(v)
    \/ Restart

Spec == Init /\ [][Next]_vars
=============================================================================
