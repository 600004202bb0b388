----------------------------- MODULE MCCollection -----------------------------
(* Collection through a worker process, collection of events and their scores *)
(* in one state space: a behaviour is of one of them (scope), and the         *)
(* variables of the others stay at an initial value.  The vCenters of the     *)
(* first are interchangeable, and so are its jobs.  The event types of the    *)
(* last, all of the same attention, have the names of the vCenters, and its   *)
(* editors those of the jobs, so that the same permutations serve it.         *)
EXTENDS CollectorRuntime, EventCollection, ScoreRules, TLC

VARIABLE scope

MCVars == <<scope, vars, eventVars, scoreVars>>

MCInit ==
    /\ scope \in {"runtime", "events", "scores"}
    /\ Init /\ EventsInit /\ ScoresInit
    /\ scope # "events" => skew = CHOOSE s \in Skews : TRUE

MCNext ==
    \/ scope = "runtime" /\ Next /\ UNCHANGED <<scope, eventVars, scoreVars>>
    \/ scope = "events" /\ EventsNext /\ UNCHANGED <<scope, vars, scoreVars>>
    \/ scope = "scores" /\ ScoresNext /\ UNCHANGED <<scope, vars, eventVars>>

MCSpec == MCInit /\ [][MCNext]_MCVars

Symmetry == Permutations(VCenters) \cup Permutations(Jobs)

\* A vCenter's clock behind and ahead of the application's.
TheSkews == {-1, 1}

\* Deltas that take every score below 0 and above 100.
TheDeltas == {-90, 70}

\* Every state of the three has its shape.
CollectionTypeOK == TypeOK /\ EventsTypeOK /\ ScoresTypeOK
===============================================================================
