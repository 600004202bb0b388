---------------------------- MODULE AlertEvaluation ----------------------------
(***************************************************************************)
(* The alert evaluator: a scheduled job reads the enabled rules, and for   *)
(* each rule compares the stored events or metric samples with the rule's  *)
(* alert_states and registers a notification for every state it enters or  *)
(* renews.  It races with the operators who resolve an alert by hand and   *)
(* with the administrators who edit, import and delete rules.              *)
(*                                                                         *)
(* A rule's evaluation is one transaction that reads at its start and      *)
(* writes at its end; the ORM writes only the columns that it changed, and *)
(* no writer checks that a row still is what it read.  A manual resolve is *)
(* another such transaction, so each of them is two steps here.            *)
(***************************************************************************)
EXTENDS Integers, Sequences, FiniteSets

CONSTANTS
    Rules,       \* ids of alert_rules
    EventTypes,  \* context keys of event_score rules
    Hosts,       \* context keys of metric_threshold rules, vcenter:entity
    Levels,      \* notable scores of events, values of samples, thresholds
    Deltas,      \* EventScoreRule.score_delta values
    RuleTypes,   \* rule types in use
    Lookback,    \* ALERT_EVENT_EVAL_LOOKBACK_HOURS
    Cooldown,    \* cooldown_minutes
    Staleness,   \* METRIC_STALENESS_WINDOW_SECONDS
    Operators,   \* requests to resolve an alert by hand
    BadRules,    \* rules whose evaluation always raises
    MaxTime,     \* bound on the clock
    MaxEdits,    \* bound on requests: changes of rules and scores, resolves
    MaxFaults,   \* bound on crashes and database errors
    Null         \* a missing row and SQL NULL

Contexts == EventTypes \cup Hosts

ASSUME LevelAssumption == Levels \subseteq Nat /\ Deltas \subseteq Int
ASSUME TimeAssumption ==
    /\ Lookback \in Nat /\ Staleness \in Nat /\ Cooldown \in Nat \ {0}
    /\ MaxTime \in Nat /\ MaxEdits \in Nat /\ MaxFaults \in Nat
ASSUME ContextAssumption ==
    /\ EventTypes \cap Hosts = {} /\ Null \notin Contexts
    /\ RuleTypes \subseteq {"event_score", "metric_threshold"} /\ BadRules \subseteq Rules

AlertRule == [rule_type : RuleTypes, is_enabled : BOOLEAN, threshold : Levels]
Sample == [sampled_at : Nat, value : Levels]
States == {"firing", "resolved", "stale"}
AlertState == [state : States, fired_at : Nat, resolved_at : Nat \cup {Null},
               last_notified_at : Nat \cup {Null}]
Notification == [state : States, at : Nat, evidence : Nat]

ASSUME NullAssumption ==
    Null \notin AlertRule /\ Null \notin Sample /\ Null \notin AlertState
    /\ Null \notin Nat /\ Null \notin Rules \X Contexts /\ Null \notin Rules /\ Null \notin States

VARIABLES
    now,             \* datetime.now(timezone.utc)
    alert_rules,     \* table: rule id -> AlertRule or Null
    event_records,   \* latest occurred_at, per event type and score before deltas
    score_delta,     \* event_score_rules: event type -> delta
    metric_samples,  \* latest sample per host
    alert_states,    \* table: rule -> context -> AlertState or Null
    told,            \* history of the model: notifications registered, in order
    pc,              \* where evaluate_all is
    rules,           \* the rules it read at its start
    todo,            \* ids of them still to evaluate
    evaluated,       \* the rule in evaluation, or Null
    found,           \* what its transaction read: evidence per context,
    states,          \*   alert states per context,
    started,         \*   and when
    resolving,       \* operator -> <<rule, context>> it read as firing, or Null
    edits, faults    \* requests and failures so far

inputs == <<event_records, score_delta, metric_samples>>
tables == <<alert_rules, alert_states, told>>
job == <<pc, rules, todo, evaluated, found, states, started>>
vars == <<now, inputs, tables, job, resolving, edits, faults>>

(* Every variable holds a value of the shape the code gives it.            *)
TypeOK ==
    /\ now \in Nat
    /\ alert_rules \in [Rules -> AlertRule \cup {Null}]
    /\ event_records \in [EventTypes \X Levels -> Nat \cup {Null}]
    /\ score_delta \in [EventTypes -> Int]
    /\ metric_samples \in [Hosts -> Sample \cup {Null}]
    /\ alert_states \in [Rules -> [Contexts -> AlertState \cup {Null}]]
    /\ told \in [Rules -> [Contexts -> Seq(Notification)]]
    /\ pc \in {"idle", "loop", "evaluating"}
    /\ rules \in [Rules -> AlertRule \cup {Null}]
    /\ todo \subseteq Rules
    /\ evaluated \in Rules \cup {Null}
    /\ found \in IF evaluated # Null /\ rules[evaluated].rule_type = "metric_threshold"
                 THEN [Contexts -> Sample \cup {Null}] ELSE [Contexts -> Nat \cup {Null}]
    /\ states \in [Contexts -> AlertState \cup {Null}]
    /\ started \in Nat
    /\ resolving \in [Operators -> (Rules \X Contexts) \cup {Null}]
    /\ edits \in Nat /\ faults \in Nat

Init ==
    /\ now = 0
    /\ alert_rules \in [Rules -> {r \in AlertRule : r.is_enabled}]
    /\ event_records = [p \in EventTypes \X Levels |-> Null]
    /\ score_delta = [e \in EventTypes |-> 0]
    /\ metric_samples = [h \in Hosts |-> Null]
    /\ alert_states = [r \in Rules |-> [c \in Contexts |-> Null]]
    /\ told = [r \in Rules |-> [c \in Contexts |-> <<>>]]
    /\ pc = "idle" /\ todo = {} /\ evaluated = Null /\ started = 0
    /\ rules = [r \in Rules |-> Null]
    /\ found = [c \in Contexts |-> Null] /\ states = [c \in Contexts |-> Null]
    /\ resolving = [o \in Operators |-> Null]
    /\ edits = 0 /\ faults = 0

-----------------------------------------------------------------------------
(* What the collectors and the score rules feed.                           *)

Tick ==
    /\ now < MaxTime /\ now' = now + 1
    /\ UNCHANGED <<inputs, tables, job, resolving, edits, faults>>

(* Events arrive late and in any order; only the latest of a type and      *)
(* score can matter.                                                       *)
IngestEvent ==
    \E e \in EventTypes, s \in Levels, t \in 0 .. now :
        /\ event_records[<<e, s>>] # Null => event_records[<<e, s>>] < t
        /\ event_records' = [event_records EXCEPT ![<<e, s>>] = t]
        /\ UNCHANGED <<now, score_delta, metric_samples, tables, job, resolving, edits, faults>>

(* Changing a score rule recomputes the score of every stored event.       *)
RecalculateScores ==
    /\ edits < MaxEdits /\ edits' = edits + 1
    /\ \E e \in EventTypes, d \in Deltas :
           d # score_delta[e] /\ score_delta' = [score_delta EXCEPT ![e] = d]
    /\ UNCHANGED <<now, event_records, metric_samples, tables, job, resolving, faults>>

IngestSample ==
    \E h \in Hosts, t \in 0 .. now, v \in Levels :
        /\ metric_samples[h] # Null => metric_samples[h].sampled_at < t
        /\ metric_samples' = [metric_samples EXCEPT ![h] = [sampled_at |-> t, value |-> v]]
        /\ UNCHANGED <<now, event_records, score_delta, tables, job, resolving, edits, faults>>

-----------------------------------------------------------------------------
(* What a rule's transaction reads.                                        *)

LatestOf(times) == CHOOSE t \in times : \A u \in times : u <= t

(* Times of the events of type e that qualify for a threshold.             *)
Qualifying(e, threshold) ==
    {t \in {event_records[<<e, s>>] : s \in {l \in Levels : l + score_delta[e] >= threshold}} :
        t # Null /\ t >= now - Lookback}

(* The latest qualifying occurred_at of each type, Null where there is none. *)
LatestQualifying(threshold) ==
    [c \in Contexts |->
        IF c \in EventTypes /\ Qualifying(c, threshold) # {}
        THEN LatestOf(Qualifying(c, threshold)) ELSE Null]

Fresh(h) == metric_samples[h] # Null /\ metric_samples[h].sampled_at >= now - Staleness

LatestFresh == [c \in Contexts |-> IF c \in Hosts /\ Fresh(c) THEN metric_samples[c] ELSE Null]

-----------------------------------------------------------------------------
(* What it decides for one context from the row and the evidence it read.  *)

(* Mutant: no need of a later event.                                        *)
ShouldNotify_AnyEvent(row, last_at, at) ==
    \/ row = Null \/ row.state = "resolved" \/ row.last_notified_at = Null
    \/ at - row.last_notified_at >= Cooldown
ShouldNotify(row, last_at, at) ==
    \/ row = Null
    \/ row.state = "resolved"
    \/ row.last_notified_at = Null
    \/ /\ last_at > row.fired_at
       /\ at - row.last_notified_at >= Cooldown

(* The row an event_score rule leaves behind.                              *)
EventRow(row, last_at, at) ==
    IF last_at = Null THEN row
    ELSE IF ShouldNotify(row, last_at, at)
         THEN [state |-> "firing", fired_at |-> last_at, resolved_at |-> Null,
               last_notified_at |-> at]
         ELSE IF row.state = "firing" THEN [row EXCEPT !.fired_at = last_at] ELSE row

EventTells(row, last_at, at) == last_at # Null /\ ShouldNotify(row, last_at, at)

(* What a metric_threshold rule makes of a context: the state it enters,   *)
(* or Null when it stays where it is.                                      *)
(* Mutant: a stale host never fires again.                                  *)
MetricEnters_StaleStuck(row, sample, threshold) ==
    CASE sample # Null /\ sample.value >= threshold
         /\ (row = Null \/ row.state = "resolved")                         -> "firing"
      [] sample # Null /\ sample.value < threshold
         /\ row # Null /\ row.state \in {"firing", "stale"}                -> "resolved"
      [] sample = Null /\ row # Null /\ row.state = "firing"               -> "stale"
      [] OTHER                                                             -> Null
MetricEnters(row, sample, threshold) ==
    CASE sample # Null /\ sample.value >= threshold
         /\ (row = Null \/ row.state \in {"resolved", "stale"})            -> "firing"
      [] sample # Null /\ sample.value < threshold
         /\ row # Null /\ row.state \in {"firing", "stale"}                -> "resolved"
      [] sample = Null /\ row # Null /\ row.state = "firing"               -> "stale"
      [] OTHER                                                             -> Null

(* Mutant: the state is overwritten also when the context stays where it is. *)
MetricRow_Mutant(row, sample, threshold) ==
    LET s == MetricEnters(row, sample, threshold) IN
    CASE row # Null -> [row EXCEPT !.state = s]
      [] s = "firing" /\ row = Null -> [state |-> s, fired_at |-> sample.sampled_at,
                                        resolved_at |-> Null, last_notified_at |-> Null]
      [] OTHER -> row
MetricRow(row, sample, threshold) ==
    LET s == MetricEnters(row, sample, threshold) IN
    CASE s = Null -> row
      [] s = "firing" /\ row = Null -> [state |-> s, fired_at |-> sample.sampled_at,
                                        resolved_at |-> Null, last_notified_at |-> Null]
      [] s = "firing" /\ row # Null -> [row EXCEPT !.state = s, !.resolved_at = Null,
                                                   !.fired_at = sample.sampled_at]
      [] s = "resolved" -> [row EXCEPT !.state = s, !.resolved_at = sample.sampled_at]
      [] s = "stale" -> [row EXCEPT !.state = s, !.resolved_at = Null]

IsEventRule == rules[evaluated].rule_type = "event_score"

NewRow(c) == IF IsEventRule
             THEN EventRow(states[c], found[c], started)
             ELSE MetricRow(states[c], found[c], rules[evaluated].threshold)

Tells(c) == IF IsEventRule
            THEN EventTells(states[c], found[c], started)
            ELSE MetricEnters(states[c], found[c], rules[evaluated].threshold) # Null

-----------------------------------------------------------------------------
(* evaluate_all                                                            *)

ReadRules ==
    /\ pc = "idle" /\ pc' = "loop"
    /\ rules' = alert_rules
    /\ todo' = {r \in Rules : alert_rules[r] # Null /\ alert_rules[r].is_enabled}
    /\ UNCHANGED <<now, inputs, tables, evaluated, found, states, started, resolving,
                   edits, faults>>

(* The transaction of one rule reads its evidence and its alert states.    *)
ReadRule(r) ==
    /\ pc = "loop" /\ pc' = "evaluating"
    /\ r \in todo /\ todo' = todo \ {r}
    /\ evaluated' = r
    /\ found' = IF rules[r].rule_type = "event_score"
                THEN LatestQualifying(rules[r].threshold) ELSE LatestFresh
    /\ states' = alert_states[r]
    /\ started' = now
    /\ UNCHANGED <<now, inputs, tables, rules, resolving, edits, faults>>

RuleDone ==
    /\ evaluated' = Null /\ started' = 0
    /\ found' = [c \in Contexts |-> Null] /\ states' = [c \in Contexts |-> Null]
    /\ UNCHANGED <<rules, todo>>

(* The ORM writes the columns whose value differs from the one it loaded.  *)
WriteChanged(loaded, new, row) ==
    [state |-> IF new.state = loaded.state THEN row.state ELSE new.state,
     fired_at |-> IF new.fired_at = loaded.fired_at THEN row.fired_at ELSE new.fired_at,
     resolved_at |-> IF new.resolved_at = loaded.resolved_at
                     THEN row.resolved_at ELSE new.resolved_at,
     last_notified_at |-> IF new.last_notified_at = loaded.last_notified_at
                          THEN row.last_notified_at ELSE new.last_notified_at]

Changed == {c \in Contexts : NewRow(c) # states[c]}

(* A row that vanished since it was read, or a rule that did, makes the    *)
(* flush fail and rolls the whole rule back.                               *)
Writable == /\ alert_rules[evaluated] # Null
            /\ \A c \in Changed : states[c] # Null => alert_states[evaluated][c] # Null

(* The end of the transaction: states and notifications commit together.   *)
CommitRule ==
    /\ pc = "evaluating" /\ evaluated \notin BadRules
    /\ Writable
    /\ alert_states' = [alert_states EXCEPT ![evaluated] =
           [c \in Contexts |->
               IF c \notin Changed THEN @[c]
               ELSE IF states[c] = Null THEN NewRow(c)
               ELSE WriteChanged(states[c], NewRow(c), @[c])]]
    /\ told' = [told EXCEPT ![evaluated] =
           [c \in Contexts |->
               IF Tells(c)
               THEN Append(@[c], [state |-> NewRow(c).state, at |-> started,
                                  evidence |-> NewRow(c).fired_at])
               ELSE @[c]]]
    /\ pc' = "loop" /\ RuleDone
    /\ UNCHANGED <<now, inputs, alert_rules, resolving, edits, faults>>

(* Mutant: the exception ends the whole cycle.                              *)
EvaluationFails_Mutant ==
    /\ pc = "evaluating"
    /\ \/ (evaluated \in BadRules \/ ~Writable) /\ UNCHANGED faults
       \/ faults < MaxFaults /\ faults' = faults + 1
    /\ pc' = "idle" /\ todo' = {}
    /\ evaluated' = Null /\ started' = 0
    /\ found' = [c \in Contexts |-> Null] /\ states' = [c \in Contexts |-> Null]
    /\ UNCHANGED <<now, inputs, tables, rules, resolving, edits>>

(* An exception rolls the rule back; the loop goes on with the next one.   *)
EvaluationFails ==
    /\ pc = "evaluating"
    /\ \/ (evaluated \in BadRules \/ ~Writable) /\ UNCHANGED faults
       \/ faults < MaxFaults /\ faults' = faults + 1
    /\ pc' = "loop" /\ RuleDone
    /\ UNCHANGED <<now, inputs, tables, resolving, edits>>

EndEvaluation ==
    /\ pc = "loop" /\ todo = {}
    /\ pc' = "idle"
    /\ UNCHANGED <<now, inputs, tables, rules, todo, evaluated, found, states, started,
                   resolving, edits, faults>>

EvaluateAll ==
    ReadRules \/ (\E r \in Rules : ReadRule(r)) \/ CommitRule \/ EvaluationFails \/ EndEvaluation

(* The process dies: open transactions are gone, the tables stay.          *)
Crash ==
    /\ faults < MaxFaults /\ faults' = faults + 1
    /\ pc' = "idle" /\ todo' = {}
    /\ evaluated' = Null /\ started' = 0 /\ rules' = [r \in Rules |-> Null]
    /\ found' = [c \in Contexts |-> Null] /\ states' = [c \in Contexts |-> Null]
    /\ resolving' = [o \in Operators |-> Null]
    /\ UNCHANGED <<now, inputs, tables, edits>>

-----------------------------------------------------------------------------
(* resolve_event_score_manually                                            *)

(* Mutant: any alert of the rule can be resolved, firing or not.            *)
ResolveRead_Mutant(o) ==
    /\ edits < MaxEdits /\ edits' = edits + 1
    /\ resolving[o] = Null
    /\ \E r \in Rules, c \in Contexts :
           /\ alert_rules[r] # Null /\ alert_rules[r].rule_type = "event_score"
           /\ alert_states[r][c] # Null
           /\ resolving' = [resolving EXCEPT ![o] = <<r, c>>]
    /\ UNCHANGED <<now, inputs, tables, job, faults>>
ResolveRead(o) ==
    /\ edits < MaxEdits /\ edits' = edits + 1
    /\ resolving[o] = Null
    /\ \E r \in Rules, c \in Contexts :
           /\ alert_rules[r] # Null /\ alert_rules[r].rule_type = "event_score"
           /\ alert_states[r][c] # Null /\ alert_states[r][c].state = "firing"
           /\ resolving' = [resolving EXCEPT ![o] = <<r, c>>]
    /\ UNCHANGED <<now, inputs, tables, job, faults>>

(* The UPDATE does not ask whether the row is still firing.                *)
ResolveCommit(o) ==
    /\ resolving[o] # Null
    /\ LET r == resolving[o][1]
           c == resolving[o][2] IN
       /\ alert_states' = [alert_states EXCEPT ![r][c] =
              [@ EXCEPT !.state = "resolved", !.resolved_at = now]]
       /\ told' = [told EXCEPT ![r][c] =
              Append(@, [state |-> "resolved", at |-> now, evidence |-> @[Len(@)].evidence])]
    /\ resolving' = [resolving EXCEPT ![o] = Null]
    /\ UNCHANGED <<now, inputs, alert_rules, job, edits, faults>>

-----------------------------------------------------------------------------
(* Rule administration.                                                    *)

ChangeRule(r, row) ==
    /\ edits < MaxEdits /\ edits' = edits + 1
    /\ alert_rules' = [alert_rules EXCEPT ![r] = row]
    /\ UNCHANGED <<now, inputs, job, faults>>

CreateRule ==
    \E r \in Rules, row \in AlertRule :
        alert_rules[r] = Null /\ ChangeRule(r, row) /\ UNCHANGED <<alert_states, told, resolving>>

(* PATCH keeps the type; an import that overwrites may change it as well.  *)
PatchRule ==
    \E r \in Rules, row \in AlertRule :
        /\ alert_rules[r] # Null /\ alert_rules[r].rule_type = row.rule_type
        /\ ChangeRule(r, row) /\ UNCHANGED <<alert_states, told, resolving>>
ImportRule ==
    \E r \in Rules, row \in AlertRule :
        alert_rules[r] # Null /\ ChangeRule(r, row) /\ UNCHANGED <<alert_states, told, resolving>>

(* The states and the history of a deleted rule go with it, and a resolve  *)
(* that had read one of them fails.                                        *)
DeleteRule ==
    \E r \in Rules :
        /\ alert_rules[r] # Null /\ ChangeRule(r, Null)
        /\ alert_states' = [alert_states EXCEPT ![r] = [c \in Contexts |-> Null]]
        /\ told' = [told EXCEPT ![r] = [c \in Contexts |-> <<>>]]
        /\ resolving' = [o \in Operators |->
               IF resolving[o] # Null /\ resolving[o][1] = r THEN Null ELSE resolving[o]]

Administrate == CreateRule \/ PatchRule \/ ImportRule \/ DeleteRule

-----------------------------------------------------------------------------
Next ==
    \/ Tick \/ IngestEvent \/ RecalculateScores \/ IngestSample
    \/ EvaluateAll \/ Crash
    \/ \E o \in Operators : ResolveRead(o) \/ ResolveCommit(o)
    \/ Administrate

Spec == Init /\ [][Next]_vars

(* The scheduler keeps running the job and the job keeps making progress.  *)
FairSpec == Spec /\ WF_vars(EvaluateAll)
-----------------------------------------------------------------------------
(* Properties.                                                             *)

Told(r, c) == told[r][c]
Consecutive(r, c) == {<<Told(r, c)[n], Told(r, c)[n + 1]>> : n \in 1 .. Len(Told(r, c)) - 1}

(* The state an alert shows is the one its last notification announced;    *)
(* there is no alert without a notification.                               *)
StateIsLastTold ==
    \A r \in Rules, c \in Contexts :
        IF alert_states[r][c] = Null
        THEN Told(r, c) = <<>>
        ELSE Told(r, c) # <<>> /\ Told(r, c)[Len(Told(r, c))].state = alert_states[r][c].state

(* For a metric rule a context's notifications begin with a firing, never  *)
(* repeat a state, and only a firing goes stale: data that stays away or   *)
(* values that stay high or low tell nothing new.                          *)
MetricAlternates ==
    \A r \in Rules, h \in Hosts :
        /\ Told(r, h) # <<>> => Told(r, h)[1].state = "firing"
        /\ \A p \in Consecutive(r, h) :
              p[1].state # p[2].state /\ (p[2].state = "stale" => p[1].state = "firing")

(* Two firing notifications of one event type with nothing between them    *)
(* are at least the renotification interval apart.  A resolve that commits  *)
(* between the read and the write of an evaluation breaks it: the row stays *)
(* resolved and the next cycle tells the event again at once.               *)
CooldownRespected ==
    \A r \in Rules, e \in EventTypes : \A p \in Consecutive(r, e) :
        p[1].state = "firing" /\ p[2].state = "firing" => p[2].at - p[1].at >= Cooldown

(* While nobody changes rules or scores, the same event is never told twice *)
(* in a row: a renotification has a later event to show.  (A higher         *)
(* threshold takes fired_at back to an earlier event that still qualifies,  *)
(* after which a later one counts as new again.)                            *)
SameEventToldOnce ==
    edits = 0 =>
        \A r \in Rules, e \in EventTypes : \A p \in Consecutive(r, e) :
            p[1].state = "firing" /\ p[2].state = "firing" => p[2].evidence > p[1].evidence

(* Whatever comes late, out of order or not at all, the notifications of a  *)
(* context follow each other as its rule says, and the alert shows the last *)
(* of them (event_score_should_notify, evaluate_metric_threshold_rule,      *)
(* the registration in the transaction of the state).                       *)
ToldInOrder == StateIsLastTold /\ MetricAlternates /\ CooldownRespected /\ SameEventToldOnce

(* Once the renotification interval has passed, an evaluation that finds a *)
(* later event than the one last told renotifies.                          *)
NewEventRenotified ==
    [][\A e \in EventTypes :
          LET last == Told(evaluated, e)[Len(Told(evaluated, e))] IN
          /\ CommitRule /\ IsEventRule /\ Told(evaluated, e) # <<>>
          /\ last.state = "firing" /\ found[e] # Null
          /\ found[e] > last.evidence /\ started - last.at >= Cooldown
          => told'[evaluated][e] # told[evaluated][e]]_vars

(* A recovery of an event type is told once: of an alert that was told as   *)
(* firing, or as stale if an import turned its rule into a metric one.  Of  *)
(* two resolves at once each may tell it, because neither UPDATE asks for   *)
(* the state (resolve_event_score_manually).                                *)
RecoveryFollowsFiring ==
    \A r \in Rules, e \in EventTypes : \A p \in Consecutive(r, e) :
        p[2].state = "resolved" => p[1].state # "resolved"

Enabled(r, type) ==
    alert_rules[r] # Null /\ alert_rules[r].is_enabled /\ alert_rules[r].rule_type = type
Alert(r, c) == IF alert_states[r][c] = Null THEN "none" ELSE alert_states[r][c].state
Qualifies(r, e) == Enabled(r, "event_score") /\ Qualifying(e, alert_rules[r].threshold) # {}

(* A qualifying event whose type has no alert, or a resolved one, is told   *)
(* while it is in the window, also when another rule raises in every cycle. *)
QualifyingEventTold ==
    \A r \in Rules \ BadRules, e \in EventTypes :
        (Qualifies(r, e) /\ Alert(r, e) \in {"none", "resolved"})
        ~> (Alert(r, e) = "firing" \/ ~Qualifies(r, e))

FreshVerdict(r, h) ==
    IF ~Fresh(h) THEN "stale"
    ELSE IF metric_samples[h].value >= alert_rules[r].threshold THEN "firing" ELSE "resolved"

(* A host that keeps being high, low or silent under a rule that stays     *)
(* enabled ends up with the alert saying so.                               *)
MetricSettles ==
    \A r \in Rules \ BadRules, h \in Hosts, s \in States :
        <>[](Enabled(r, "metric_threshold") /\ FreshVerdict(r, h) = s)
        => <>[](\/ Alert(r, h) = s
                \/ Alert(r, h) = "none" /\ s # "firing"
                \/ Alert(r, h) = "resolved" /\ s = "stale")
=============================================================================
