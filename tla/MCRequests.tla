------------------------------ MODULE MCRequests ------------------------------
(* What a request meets between the browser and its route, in one state     *)
(* space: a behaviour is of one state machine (scope), and the variables of  *)
(* the others stay at their first initial values.                            *)
EXTENDS AuthSessions, BrowserTabs, RequestLimits, TLC

CONSTANT Scopes   \* those to check

VARIABLE scope

MCVars == <<scope, vars, tabVars, limitsVars>>

Others(own) ==
    /\ own # "sessions" => UNCHANGED vars
    /\ own # "tabs" => UNCHANGED tabVars
    /\ own # "limits" => UNCHANGED limitsVars
    /\ UNCHANGED scope

MCInit ==
    /\ scope \in Scopes
    /\ Init /\ TabsInit /\ LimitsInit
    /\ scope # "tabs" => cookie = 0 /\ valid = {}
    /\ scope # "limits" => authOn /\ managed

MCNext ==
    \/ scope = "sessions" /\ Next /\ Others("sessions")
    \/ scope = "tabs" /\ TabsNext /\ Others("tabs")
    \/ scope = "limits" /\ LimitsNext /\ Others("limits")

MCSpec == MCInit /\ [][MCNext]_MCVars

\* Users are alike in Init, and the processes and requests of a kind always.
MCSymmetry ==
    Permutations(Users) \cup Permutations(Logins)
        \cup Permutations(Requests) \cup Permutations(Changers)
===============================================================================
