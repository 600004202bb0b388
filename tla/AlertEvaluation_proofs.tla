----------------------- MODULE AlertEvaluation_proofs -----------------------
(***************************************************************************)
(* What holds of AlertEvaluation for every set of rules, event types,      *)
(* hosts and levels, every window and interval, any number of edits and    *)
(* failures: the types, the order in which the notifications of a context  *)
(* follow each other, and that a recovery follows a firing.                *)
(***************************************************************************)
EXTENDS AlertEvaluation, SequenceTheorems, WellFoundedInduction, TLAPS

-----------------------------------------------------------------------------
(* The invariant behind the types: what an evaluation and a resolve have   *)
(* read is there.                                                          *)

\* An evaluation has a rule, and evidence of the contexts the rule is about.
ReadsTrue ==
    /\ evaluated \in Rules => pc = "evaluating" /\ rules[evaluated] # Null
    /\ pc = "evaluating" => evaluated \in Rules
    /\ \A r \in todo : rules[r] # Null
    /\ evaluated \in Rules =>
          /\ IsEventRule => \A h \in Hosts : found[h] = Null
          /\ ~IsEventRule => \A e \in EventTypes : found[e] = Null

\* There is an alert exactly where something was told.
RowsTold == \A r \in Rules, c \in Contexts : alert_states[r][c] = Null <=> told[r][c] = <<>>

\* The alert that an operator has read is there until the commit.
ResolvesTrue ==
    \A o \in Operators, r \in Rules, c \in Contexts :
        resolving[o] = <<r, c>> => alert_states[r][c] # Null

RecordsPast == \A p \in EventTypes \X Levels : event_records[p] # Null => event_records[p] <= now

BaseInv == TypeOK /\ ReadsTrue /\ RowsTold /\ ResolvesTrue /\ RecordsPast

-----------------------------------------------------------------------------
(* The invariant behind recoveries, with one operator at a time.           *)

LastTold(r, c) == told[r][c][Len(told[r][c])]

\* What shows as firing was not told as resolved last, nor what is resolved.
FiringShown ==
    \A r \in Rules, e \in EventTypes :
        alert_states[r][e] # Null /\ alert_states[r][e].state = "firing"
            => LastTold(r, e).state # "resolved"
ResolvesFiring ==
    \A o \in Operators, r \in Rules, e \in EventTypes :
        resolving[o] = <<r, e>> => LastTold(r, e).state # "resolved"

\* Notifications in a row, and those among which no recovery repeats.
Pairs(q) == {<<q[n], q[n + 1]>> : n \in 1 .. Len(q) - 1}
RecoversOnce(q) == \A p \in Pairs(q) : p[2].state = "resolved" => p[1].state # "resolved"

RecoveryInv ==
    BaseInv /\ FiringShown /\ ResolvesFiring
    /\ \A r \in Rules, e \in EventTypes : RecoversOnce(told[r][e])

-----------------------------------------------------------------------------
(* The invariant behind the order, without manual resolves.                *)

\* Only a deletion comes between the read and the commit of an evaluation.
StatesRead ==
    pc = "evaluating" =>
        \/ states = alert_states[evaluated]
        \/ \A c \in Contexts : alert_states[evaluated][c] = Null

\* The interval is counted from the last firing told.
FiringNotified ==
    \A r \in Rules, e \in EventTypes :
        alert_states[r][e] # Null /\ alert_states[r][e].state = "firing"
            => alert_states[r][e].last_notified_at = LastTold(r, e).at

\* What ToldInOrder asks of one alert and its notifications.
Shows(row, q) ==
    IF row = Null THEN q = <<>> ELSE q # <<>> /\ q[Len(q)].state = row.state
Alternates(q) ==
    /\ q # <<>> => q[1].state = "firing"
    /\ \A p \in Pairs(q) :
          p[1].state # p[2].state /\ (p[2].state = "stale" => p[1].state = "firing")
Spaced(q) ==
    \A p \in Pairs(q) :
        p[1].state = "firing" /\ p[2].state = "firing" => p[2].at - p[1].at >= Cooldown
Renews(q) ==
    \A p \in Pairs(q) :
        p[1].state = "firing" /\ p[2].state = "firing" => p[2].evidence > p[1].evidence

InOrder ==
    /\ \A r \in Rules, c \in Contexts : Shows(alert_states[r][c], told[r][c])
    /\ \A r \in Rules, h \in Hosts : Alternates(told[r][h])
    /\ \A r \in Rules, e \in EventTypes : Spaced(told[r][e])

\* Some stored event of type e that scores threshold is not older than t.
StoredSince(records, delta, threshold, e, t) ==
    \E s \in Levels : /\ s + delta >= threshold
                      /\ records[<<e, s>>] # Null /\ records[<<e, s>>] >= t
Covered(r, e, t) == StoredSince(event_records, score_delta[e], alert_rules[r].threshold, e, t)

\* Without edits the events a rule is about only grow newer, and so does
\* what it finds of them.
RulesRead == pc # "idle" => rules = alert_rules
AlertsCovered ==
    \A r \in Rules, e \in EventTypes :
        alert_states[r][e] # Null =>
            /\ alert_rules[r] # Null /\ Covered(r, e, alert_states[r][e].fired_at)
            /\ LastTold(r, e).evidence <= alert_states[r][e].fired_at
FoundCovered ==
    pc = "evaluating" /\ IsEventRule =>
        \A e \in EventTypes :
            found[e] # Null => /\ Covered(evaluated, e, found[e])
                               /\ states[e] # Null => states[e].fired_at <= found[e]
Unedited ==
    /\ RulesRead /\ AlertsCovered /\ FoundCovered
    /\ \A r \in Rules, e \in EventTypes : Renews(told[r][e])

OrderInv == BaseInv /\ StatesRead /\ FiringNotified /\ InOrder /\ (edits = 0 => Unedited)

-----------------------------------------------------------------------------
(* The latest of some times.                                               *)

LEMMA LatestExists ==
  ASSUME NEW bound \in Nat, NEW times \in SUBSET (0 .. bound), times # {}
  PROVE  LatestOf(times) \in times /\ \A u \in times : u <= LatestOf(times)
<1> DEFINE Left == {bound - t : t \in times}
           R == OpToRel(<, Nat)
<1>1. Left \in SUBSET Nat
  <2>1. \A t \in times : t \in 0 .. bound
    OBVIOUS
  <2>2. \A t \in 0 .. bound : bound - t \in Nat
    OBVIOUS
  <2> QED
    BY <2>1, <2>2
<1>2. Left # {}
  OBVIOUS
<1>3. IsWellFoundedOn(R, Nat)
  BY NatLessThanWellFounded
<1>4. \E x \in Left : \A y \in Left : ~ (<<y, x>> \in R)
  <2> HIDE DEF Left, R
  <2> QED
    BY <1>1, <1>2, <1>3, WFMin
<1>5. PICK x \in Left : \A y \in Left : ~ (y < x)
  BY <1>1, <1>4 DEF OpToRel
<1>6. PICK t \in times : x = bound - t
  BY <1>5
<1>7. \A u \in times : u <= t
  <2> TAKE u \in times
  <2>1. bound - u \in Left /\ u \in 0 .. bound /\ t \in 0 .. bound
    OBVIOUS
  <2>2. ~ (bound - u < bound - t)
    BY <1>5, <1>6, <2>1
  <2> HIDE DEF Left
  <2> QED
    BY <2>1, <2>2
<1> QED
  BY <1>6, <1>7 DEF LatestOf

-----------------------------------------------------------------------------
(* What a rule decides for one context.                                    *)

LEMMA EvaluationConstants ==
    /\ Levels \subseteq Nat /\ Deltas \subseteq Int
    /\ Lookback \in Nat /\ Staleness \in Nat /\ Cooldown \in Nat \ {0}
    /\ EventTypes \cap Hosts = {} /\ Null \notin Contexts /\ Null \notin Rules
    /\ RuleTypes \subseteq {"event_score", "metric_threshold"}
    /\ Null \notin AlertRule /\ Null \notin Sample /\ Null \notin AlertState /\ Null \notin Nat
    /\ Null \notin Rules \X Contexts /\ Null \notin States
BY LevelAssumption, TimeAssumption, ContextAssumption, NullAssumption

\* An event_score rule: nothing, a later event, or firing again.
LEMMA EventOutcome ==
  ASSUME NEW row \in AlertState \cup {Null}, NEW last_at \in Nat \cup {Null}, NEW at \in Nat
  PROVE  /\ EventTells(row, last_at, at) =>
               /\ last_at \in Nat
               /\ EventRow(row, last_at, at) = [state |-> "firing", fired_at |-> last_at,
                                                resolved_at |-> Null, last_notified_at |-> at]
               /\ row # Null /\ row.state = "firing" /\ row.last_notified_at # Null =>
                     last_at > row.fired_at /\ at - row.last_notified_at >= Cooldown
         /\ ~EventTells(row, last_at, at) =>
               \/ EventRow(row, last_at, at) = row
               \/ /\ row \in AlertState /\ row.state = "firing" /\ last_at \in Nat
                  /\ EventRow(row, last_at, at) = [row EXCEPT !.fired_at = last_at]
<1>1. CASE last_at = Null
  BY <1>1 DEF EventTells, EventRow
<1>2. CASE last_at # Null
  <2>1. last_at \in Nat
    BY <1>2
  <2>2. EventTells(row, last_at, at) <=> ShouldNotify(row, last_at, at)
    BY <1>2 DEF EventTells
  <2>3. CASE ShouldNotify(row, last_at, at)
    <3>1. EventRow(row, last_at, at) = [state |-> "firing", fired_at |-> last_at,
                                        resolved_at |-> Null, last_notified_at |-> at]
      BY <1>2, <2>3 DEF EventRow
    <3>2. row # Null /\ row.state = "firing" /\ row.last_notified_at # Null =>
              last_at > row.fired_at /\ at - row.last_notified_at >= Cooldown
      BY <2>3 DEF ShouldNotify
    <3> QED
      BY <2>1, <2>2, <2>3, <3>1, <3>2
  <2>4. CASE ~ShouldNotify(row, last_at, at)
    <3>1. row \in AlertState
      BY <2>4 DEF ShouldNotify
    <3>2. EventRow(row, last_at, at) = IF row.state = "firing" THEN [row EXCEPT !.fired_at = last_at]
                                       ELSE row
      BY <1>2, <2>4, Zenon DEF EventRow
    <3> QED
      BY <2>1, <2>2, <2>4, <3>1, <3>2
  <2> QED
    BY <2>3, <2>4
<1> QED
  BY <1>1, <1>2

\* A metric_threshold rule: nothing, or another state.
LEMMA MetricOutcome ==
  ASSUME NEW row \in AlertState \cup {Null}, NEW sample \in Sample \cup {Null},
         NEW threshold \in Levels
  PROVE  LET s   == MetricEnters(row, sample, threshold)
             new == MetricRow(row, sample, threshold)
         IN  /\ s # Null => /\ new \in AlertState /\ new.state = s
                            /\ row = Null => s = "firing"
                            /\ row # Null => row.state # s
                            /\ s = "stale" => /\ row # Null /\ row.state = "firing"
                                              /\ new.fired_at = row.fired_at
                            /\ sample = Null => s = "stale"
             /\ s = Null => new = row
<1> DEFINE s   == MetricEnters(row, sample, threshold)
           new == MetricRow(row, sample, threshold)
           fires == sample # Null /\ sample.value >= threshold
                    /\ (row = Null \/ row.state \in {"resolved", "stale"})
           recovers == sample # Null /\ sample.value < threshold
                       /\ row # Null /\ row.state \in {"firing", "stale"}
           ages == sample = Null /\ row # Null /\ row.state = "firing"
<1>1. /\ s = "firing" => fires
      /\ s = "resolved" => recovers
      /\ s = "stale" => ages
      /\ s \in {"firing", "resolved", "stale", Null}
  <2>1. s = CASE fires -> "firing" [] recovers -> "resolved" [] ages -> "stale" [] OTHER -> Null
    BY DEF MetricEnters
  <2>2. (fires => ~recovers /\ ~ages) /\ (recovers => ~ages)
    <3>1. Levels \subseteq Int
      BY EvaluationConstants
    <3>2. sample # Null => sample.value \in Levels
      BY DEF Sample
    <3>3. threshold \in Int /\ (sample # Null => sample.value \in Int)
      BY <3>1, <3>2
    <3> QED
      BY <3>3
  <2>3. Null \notin {"firing", "resolved", "stale"}
    BY EvaluationConstants DEF States
  <2> HIDE DEF s, fires, recovers, ages
  <2> QED
    BY <2>1, <2>2, <2>3
<1>2. Null \notin {"firing", "resolved", "stale"}
  BY EvaluationConstants DEF States
<1> HIDE DEF s
<1>3. new = CASE s = Null -> row
              [] s = "firing" /\ row = Null -> [state |-> s, fired_at |-> sample.sampled_at,
                                                resolved_at |-> Null, last_notified_at |-> Null]
              [] s = "firing" /\ row # Null -> [row EXCEPT !.state = s, !.resolved_at = Null,
                                                           !.fired_at = sample.sampled_at]
              [] s = "resolved" -> [row EXCEPT !.state = s, !.resolved_at = sample.sampled_at]
              [] s = "stale" -> [row EXCEPT !.state = s, !.resolved_at = Null]
  BY DEF MetricRow, s
<1> HIDE DEF new
<1>4. CASE s = Null
  BY <1>2, <1>3, <1>4 DEF s, new
<1>5. CASE s = "firing"
  <2>1. fires /\ sample \in Sample
    BY <1>1, <1>5
  <2>2. CASE row = Null
    <3>1. new = [state |-> s, fired_at |-> sample.sampled_at,
                 resolved_at |-> Null, last_notified_at |-> Null]
      BY <1>2, <1>3, <1>5, <2>2
    <3>2. new \in AlertState /\ new.state = s
      BY <1>5, <2>1, <3>1 DEF AlertState, Sample, States
    <3> QED
      BY <1>2, <1>5, <2>1, <2>2, <3>2 DEF s, new
  <2>3. CASE row # Null
    <3>1. new = [row EXCEPT !.state = s, !.resolved_at = Null, !.fired_at = sample.sampled_at]
      BY <1>2, <1>3, <1>5, <2>3
    <3>2. new \in AlertState /\ new.state = s
      BY <1>5, <2>1, <2>3, <3>1 DEF AlertState, Sample, States
    <3> QED
      BY <1>2, <1>5, <2>1, <2>3, <3>2 DEF s, new
  <2> QED
    BY <2>2, <2>3
<1>6. CASE s = "resolved"
  <2>1. recovers /\ sample \in Sample /\ row \in AlertState
    BY <1>1, <1>6
  <2>2. new = [row EXCEPT !.state = s, !.resolved_at = sample.sampled_at]
    BY <1>2, <1>3, <1>6
  <2>3. new \in AlertState /\ new.state = s
    BY <1>6, <2>1, <2>2 DEF AlertState, Sample, States
  <2> QED
    BY <1>2, <1>6, <2>1, <2>3 DEF s, new
<1>7. CASE s = "stale"
  <2>1. ages /\ row \in AlertState
    BY <1>1, <1>7
  <2>2. new = [row EXCEPT !.state = s, !.resolved_at = Null]
    BY <1>2, <1>3, <1>7
  <2>3. new \in AlertState /\ new.state = s /\ new.fired_at = row.fired_at
    BY <1>7, <2>1, <2>2 DEF AlertState, States
  <2> QED
    BY <1>2, <1>7, <2>1, <2>3 DEF s, new
<1> QED
  BY <1>1, <1>4, <1>5, <1>6, <1>7

-----------------------------------------------------------------------------
(* What an evaluation decides and commits.                                 *)

LEMMA Evaluating ==
  ASSUME BaseInv, pc = "evaluating"
  PROVE  /\ evaluated \in Rules /\ rules[evaluated] \in AlertRule /\ started \in Nat
         /\ states \in [Contexts -> AlertState \cup {Null}]
         /\ rules[evaluated].threshold \in Levels
         /\ IsEventRule => /\ \A c \in Contexts : found[c] \in Nat \cup {Null}
                           /\ \A h \in Hosts : found[h] = Null
         /\ ~IsEventRule => /\ \A c \in Contexts : found[c] \in Sample \cup {Null}
                            /\ \A e \in EventTypes : found[e] = Null
<1>1. /\ evaluated \in Rules /\ rules[evaluated] # Null
      /\ rules \in [Rules -> AlertRule \cup {Null}] /\ started \in Nat
      /\ states \in [Contexts -> AlertState \cup {Null}]
      /\ IsEventRule => \A h \in Hosts : found[h] = Null
      /\ ~IsEventRule => \A e \in EventTypes : found[e] = Null
  BY DEF BaseInv, TypeOK, ReadsTrue
<1>2. rules[evaluated] \in AlertRule
  BY <1>1
<1>3. /\ rules[evaluated].threshold \in Levels
      /\ rules[evaluated].rule_type \in {"event_score", "metric_threshold"}
  BY <1>2, EvaluationConstants DEF AlertRule
<1>4. evaluated # Null
  BY <1>1, EvaluationConstants
<1>5. found \in IF evaluated # Null /\ rules[evaluated].rule_type = "metric_threshold"
                THEN [Contexts -> Sample \cup {Null}] ELSE [Contexts -> Nat \cup {Null}]
  BY DEF BaseInv, TypeOK
<1>6. CASE IsEventRule
  <2>1. found \in [Contexts -> Nat \cup {Null}]
    BY <1>5, <1>6 DEF IsEventRule
  <2> QED
    BY <1>1, <1>2, <1>3, <1>6, <2>1
<1>7. CASE ~IsEventRule
  <2>1. found \in [Contexts -> Sample \cup {Null}]
    BY <1>3, <1>4, <1>5, <1>7 DEF IsEventRule
  <2> QED
    BY <1>1, <1>2, <1>3, <1>7, <2>1
<1> QED
  BY <1>6, <1>7

\* A context of which something is told, and one of which nothing is.
TellsEvent(c) ==
    /\ IsEventRule /\ found[c] \in Nat
    /\ NewRow(c) = [state |-> "firing", fired_at |-> found[c], resolved_at |-> Null,
                    last_notified_at |-> started]
    /\ states[c] # Null /\ states[c].state = "firing" /\ states[c].last_notified_at # Null =>
          found[c] > states[c].fired_at /\ started - states[c].last_notified_at >= Cooldown
TellsMetric(c) ==
    /\ ~IsEventRule /\ NewRow(c) \in AlertState
    /\ states[c] = Null => NewRow(c).state = "firing"
    /\ states[c] # Null => NewRow(c).state # states[c].state
    /\ NewRow(c).state = "stale" => /\ states[c] # Null /\ states[c].state = "firing"
                                    /\ NewRow(c).fired_at = states[c].fired_at
    /\ found[c] = Null => NewRow(c).state = "stale"
Updates(c) ==
    /\ IsEventRule /\ found[c] \in Nat /\ states[c] \in AlertState /\ states[c].state = "firing"
    /\ NewRow(c) = [states[c] EXCEPT !.fired_at = found[c]]

LEMMA Decides ==
  ASSUME BaseInv, pc = "evaluating", NEW c \in Contexts
  PROVE  /\ Tells(c) => TellsEvent(c) \/ TellsMetric(c)
         /\ ~Tells(c) => NewRow(c) = states[c] \/ Updates(c)
<1>1. /\ started \in Nat /\ states[c] \in AlertState \cup {Null}
      /\ rules[evaluated].threshold \in Levels
      /\ IsEventRule => found[c] \in Nat \cup {Null}
      /\ ~IsEventRule => found[c] \in Sample \cup {Null}
  BY Evaluating
<1>2. CASE IsEventRule
  <2>1. /\ NewRow(c) = EventRow(states[c], found[c], started)
        /\ Tells(c) <=> EventTells(states[c], found[c], started)
    BY <1>2, Zenon DEF NewRow, Tells
  <2>2. found[c] \in Nat \cup {Null}
    BY <1>1, <1>2
  <2> DEFINE row == states[c]
             at == started
             last_at == found[c]
             tells == EventTells(row, last_at, at)
             new == EventRow(row, last_at, at)
  <2>3. row \in AlertState \cup {Null} /\ last_at \in Nat \cup {Null} /\ at \in Nat
    BY <1>1, <2>2
  <2>4. /\ tells =>
              /\ last_at \in Nat
              /\ new = [state |-> "firing", fired_at |-> last_at,
                        resolved_at |-> Null, last_notified_at |-> at]
              /\ row # Null /\ row.state = "firing" /\ row.last_notified_at # Null =>
                    last_at > row.fired_at /\ at - row.last_notified_at >= Cooldown
        /\ ~tells => \/ new = row
                     \/ /\ row \in AlertState /\ row.state = "firing" /\ last_at \in Nat
                        /\ new = [row EXCEPT !.fired_at = last_at]
    <3> HIDE DEF row, at, last_at
    <3> QED
      BY <2>3, EventOutcome
  <2>5. (Tells(c) <=> tells) /\ NewRow(c) = new
    BY <2>1
  <2> HIDE DEF tells, new
  <2> QED
    BY <1>2, <2>4, <2>5 DEF TellsEvent, Updates
<1>3. CASE ~IsEventRule
  <2>1. /\ NewRow(c) = MetricRow(states[c], found[c], rules[evaluated].threshold)
        /\ Tells(c) <=> MetricEnters(states[c], found[c], rules[evaluated].threshold) # Null
    BY <1>3, Zenon DEF NewRow, Tells
  <2>2. found[c] \in Sample \cup {Null}
    BY <1>1, <1>3
  <2> DEFINE row == states[c]
             sample == found[c]
             threshold == rules[evaluated].threshold
             s == MetricEnters(row, sample, threshold)
             new == MetricRow(row, sample, threshold)
  <2>3. row \in AlertState \cup {Null} /\ sample \in Sample \cup {Null} /\ threshold \in Levels
    BY <1>1, <2>2
  <2>4. /\ s # Null => /\ new \in AlertState /\ new.state = s
                       /\ row = Null => s = "firing"
                       /\ row # Null => row.state # s
                       /\ s = "stale" => /\ row # Null /\ row.state = "firing"
                                         /\ new.fired_at = row.fired_at
                       /\ sample = Null => s = "stale"
        /\ s = Null => new = row
    <3> HIDE DEF row, sample, threshold
    <3> QED
      BY <2>3, MetricOutcome
  <2>5. (Tells(c) <=> s # Null) /\ NewRow(c) = new
    BY <2>1
  <2> HIDE DEF s, new
  <2> QED
    BY <1>3, <2>4, <2>5 DEF TellsMetric
<1> QED
  BY <1>2, <1>3

\* The row that is left, and whether it is another.
LEMMA RowsDecided ==
  ASSUME BaseInv, pc = "evaluating", NEW c \in Contexts
  PROVE  /\ Tells(c) => /\ NewRow(c) \in AlertState /\ c \in Changed
                        /\ states[c] = Null => NewRow(c).state = "firing"
         /\ c \in Changed => NewRow(c) \in AlertState
         /\ c \in Changed /\ ~Tells(c) => Updates(c)
<1>1. /\ Tells(c) => TellsEvent(c) \/ TellsMetric(c)
      /\ ~Tells(c) => NewRow(c) = states[c] \/ Updates(c)
  BY Decides
<1>2. /\ started \in Nat /\ states[c] \in AlertState \cup {Null}
      /\ Cooldown \in Nat \ {0} /\ Null \notin AlertState /\ Null \notin Nat
  BY Evaluating, EvaluationConstants
<1>3. ASSUME TellsEvent(c)
      PROVE  NewRow(c) \in AlertState /\ NewRow(c) # states[c] /\ NewRow(c).state = "firing"
  <2>1. /\ NewRow(c) \in AlertState /\ NewRow(c).state = "firing"
        /\ NewRow(c).last_notified_at = started /\ NewRow(c).fired_at = found[c]
    BY <1>2, <1>3 DEF TellsEvent, AlertState, States
  <2>2. ASSUME NewRow(c) = states[c] PROVE FALSE
    <3>1. /\ states[c] # Null /\ states[c].state = "firing"
          /\ states[c].last_notified_at = started /\ started # Null
      BY <1>2, <2>1, <2>2
    <3>2. started - started >= Cooldown
      BY <1>3, <3>1 DEF TellsEvent
    <3> QED
      BY <1>2, <3>2
  <2> QED
    BY <2>1, <2>2
<1>4. ASSUME TellsMetric(c)
      PROVE  /\ NewRow(c) \in AlertState /\ NewRow(c) # states[c]
             /\ states[c] = Null => NewRow(c).state = "firing"
  BY <1>2, <1>4 DEF TellsMetric
<1>5. ASSUME Updates(c) PROVE NewRow(c) \in AlertState
  BY <1>5 DEF Updates, AlertState
<1>6. c \in Changed <=> NewRow(c) # states[c]
  BY DEF Changed
<1> QED
  BY <1>1, <1>3, <1>4, <1>5, <1>6

\* What the ORM writes is a row, and the new one if nobody wrote between.
LEMMA WritesRow ==
  ASSUME NEW loaded \in AlertState, NEW new \in AlertState, NEW row \in AlertState
  PROVE  /\ WriteChanged(loaded, new, row) \in AlertState
         /\ WriteChanged(loaded, new, loaded) = new
         /\ WriteChanged(loaded, new, row).state =
               IF new.state = loaded.state THEN row.state ELSE new.state
<1> DEFINE W(r) == [state |-> IF new.state = loaded.state THEN r.state ELSE new.state,
                    fired_at |-> IF new.fired_at = loaded.fired_at THEN r.fired_at ELSE new.fired_at,
                    resolved_at |-> IF new.resolved_at = loaded.resolved_at
                                    THEN r.resolved_at ELSE new.resolved_at,
                    last_notified_at |-> IF new.last_notified_at = loaded.last_notified_at
                                         THEN r.last_notified_at ELSE new.last_notified_at]
<1>1. WriteChanged(loaded, new, row) = W(row) /\ WriteChanged(loaded, new, loaded) = W(loaded)
  BY Zenon DEF WriteChanged
<1>2. W(row) \in AlertState
  BY DEF AlertState
<1>3. W(loaded) = [state |-> new.state, fired_at |-> new.fired_at, resolved_at |-> new.resolved_at,
                   last_notified_at |-> new.last_notified_at]
  OBVIOUS
<1>4. new = [state |-> new.state, fired_at |-> new.fired_at, resolved_at |-> new.resolved_at,
             last_notified_at |-> new.last_notified_at]
  BY DEF AlertState
<1> QED
  BY <1>1, <1>2, <1>3, <1>4

Message(c) == [state |-> NewRow(c).state, at |-> started, evidence |-> NewRow(c).fired_at]

LEMMA CommitEffect ==
  ASSUME BaseInv, CommitRule
  PROVE  /\ evaluated \in Rules /\ pc = "evaluating"
         /\ alert_states' \in [Rules -> [Contexts -> AlertState \cup {Null}]]
         /\ told' \in [Rules -> [Contexts -> Seq(Notification)]]
         /\ \A r \in Rules \ {evaluated} : alert_states'[r] = alert_states[r] /\ told'[r] = told[r]
         /\ \A c \in Contexts :
               /\ Tells(c) => /\ told'[evaluated][c] = Append(told[evaluated][c], Message(c))
                              /\ Message(c) \in Notification
               /\ ~Tells(c) => told'[evaluated][c] = told[evaluated][c]
               /\ c \notin Changed => alert_states'[evaluated][c] = alert_states[evaluated][c]
               /\ c \in Changed /\ states[c] = Null => alert_states'[evaluated][c] = NewRow(c)
               /\ c \in Changed /\ states[c] # Null =>
                     /\ states[c] \in AlertState /\ alert_states[evaluated][c] \in AlertState
                     /\ alert_states'[evaluated][c] =
                           WriteChanged(states[c], NewRow(c), alert_states[evaluated][c])
<1> DEFINE old(c) == alert_states[evaluated][c]
           row(c) == IF c \notin Changed THEN old(c)
                     ELSE IF states[c] = Null THEN NewRow(c)
                     ELSE WriteChanged(states[c], NewRow(c), old(c))
           said(c) == IF Tells(c) THEN Append(told[evaluated][c], Message(c)) ELSE told[evaluated][c]
           rows == [c \in Contexts |-> row(c)]
           saids == [c \in Contexts |-> said(c)]
<1>1. /\ evaluated \in Rules /\ pc = "evaluating" /\ started \in Nat
      /\ states \in [Contexts -> AlertState \cup {Null}]
      /\ alert_states \in [Rules -> [Contexts -> AlertState \cup {Null}]]
      /\ told \in [Rules -> [Contexts -> Seq(Notification)]]
  <2>1. pc = "evaluating"
    BY DEF CommitRule
  <2>2. evaluated \in Rules /\ states \in [Contexts -> AlertState \cup {Null}] /\ started \in Nat
    BY <2>1, Evaluating
  <2> QED
    BY <2>1, <2>2 DEF BaseInv, TypeOK
<1>2. alert_states' = [alert_states EXCEPT ![evaluated] = rows]
  BY <1>1 DEF CommitRule
<1>3. told' = [told EXCEPT ![evaluated] = saids]
  BY <1>1 DEF CommitRule, Message
<1>4. ASSUME NEW c \in Contexts
      PROVE  /\ row(c) \in AlertState \cup {Null} /\ said(c) \in Seq(Notification)
             /\ Tells(c) => Message(c) \in Notification
             /\ c \in Changed /\ states[c] # Null => states[c] \in AlertState /\ old(c) \in AlertState
  <2>1. /\ Tells(c) => NewRow(c) \in AlertState
        /\ c \in Changed => NewRow(c) \in AlertState
    BY <1>1, RowsDecided
  <2>2. Tells(c) => Message(c) \in Notification
    BY <1>1, <2>1 DEF Message, Notification, AlertState
  <2>3. c \in Changed /\ states[c] # Null => states[c] \in AlertState /\ old(c) \in AlertState
    BY <1>1 DEF CommitRule, Writable
  <2>4. c \in Changed /\ states[c] # Null => WriteChanged(states[c], NewRow(c), old(c)) \in AlertState
    BY <2>1, <2>3, WritesRow
  <2>5. row(c) \in AlertState \cup {Null}
    <3> HIDE DEF Changed, NewRow
    <3> QED
      BY <1>1, <2>1, <2>4
  <2>6. said(c) \in Seq(Notification)
    <3> HIDE DEF Tells, Message
    <3> QED
      BY <1>1, <2>2
  <2> QED
    BY <2>2, <2>3, <2>5, <2>6
<1>5. rows \in [Contexts -> AlertState \cup {Null}] /\ saids \in [Contexts -> Seq(Notification)]
  <2> HIDE DEF row, said
  <2> QED
    BY <1>4
<1>6. \A c \in Contexts : rows[c] = row(c) /\ saids[c] = said(c)
  <2> HIDE DEF row, said
  <2> QED
    OBVIOUS
<1> HIDE DEF rows, saids
<1>7. /\ alert_states' \in [Rules -> [Contexts -> AlertState \cup {Null}]]
      /\ told' \in [Rules -> [Contexts -> Seq(Notification)]]
      /\ \A r \in Rules \ {evaluated} : alert_states'[r] = alert_states[r] /\ told'[r] = told[r]
      /\ alert_states'[evaluated] = rows /\ told'[evaluated] = saids
  BY <1>1, <1>2, <1>3, <1>5
<1> QED
  BY <1>1, <1>4, <1>6, <1>7

-----------------------------------------------------------------------------
(* What an evaluation reads.                                               *)

LEMMA LatestQualifies ==
  ASSUME BaseInv, NEW e \in EventTypes, NEW threshold, Qualifying(e, threshold) # {}
  PROVE  LET last_at == LatestOf(Qualifying(e, threshold))
         IN  /\ last_at \in Nat /\ last_at \in Qualifying(e, threshold)
             /\ \A t \in Qualifying(e, threshold) : t \in Nat /\ t <= last_at
<1> DEFINE times == Qualifying(e, threshold)
<1>1. \A t \in times : \E s \in Levels : t = event_records[<<e, s>>] /\ t # Null
  BY DEF Qualifying
<1>2. /\ event_records \in [EventTypes \X Levels -> Nat \cup {Null}] /\ now \in Nat
      /\ \A s \in Levels : event_records[<<e, s>>] # Null => event_records[<<e, s>>] <= now
  BY DEF BaseInv, TypeOK, RecordsPast
<1> HIDE DEF times
<1>3. times \in SUBSET (0 .. now)
  <2>1. ASSUME NEW t \in times PROVE t \in 0 .. now
    <3>1. PICK s \in Levels : t = event_records[<<e, s>>] /\ t # Null
      BY <1>1
    <3>2. <<e, s>> \in EventTypes \X Levels
      OBVIOUS
    <3>3. t \in Nat /\ t <= now
      BY <1>2, <3>1, <3>2
    <3> QED
      BY <1>2, <3>3
  <2> QED
    BY <2>1
<1>4. LatestOf(times) \in times /\ \A u \in times : u <= LatestOf(times)
  BY <1>2, <1>3, LatestExists DEF times
<1> QED
  BY <1>3, <1>4 DEF times

LEMMA EvidenceType ==
  ASSUME BaseInv, NEW threshold
  PROVE  /\ LatestQualifying(threshold) \in [Contexts -> Nat \cup {Null}]
         /\ \A h \in Hosts : LatestQualifying(threshold)[h] = Null
         /\ LatestFresh \in [Contexts -> Sample \cup {Null}]
         /\ \A e \in EventTypes : LatestFresh[e] = Null
<1>1. EventTypes \cap Hosts = {}
  BY EvaluationConstants
<1>2. metric_samples \in [Hosts -> Sample \cup {Null}]
  BY DEF BaseInv, TypeOK
<1>3. LatestFresh \in [Contexts -> Sample \cup {Null}] /\ \A e \in EventTypes : LatestFresh[e] = Null
  BY <1>1, <1>2 DEF LatestFresh, Contexts
<1> DEFINE last(c) == IF c \in EventTypes /\ Qualifying(c, threshold) # {}
                      THEN LatestOf(Qualifying(c, threshold)) ELSE Null
<1>4. \A c \in Contexts : last(c) \in Nat \cup {Null}
  BY LatestQualifies, Zenon
<1>5. \A h \in Hosts : last(h) = Null
  BY <1>1
<1>6. LatestQualifying(threshold) = [c \in Contexts |-> last(c)]
  BY DEF LatestQualifying
<1> HIDE DEF last
<1> QED
  BY <1>3, <1>4, <1>5, <1>6 DEF Contexts

-----------------------------------------------------------------------------
(* Every step keeps the types.                                             *)

\* What the collectors and the administrators of scores do.
LEMMA InputsKeep ==
  ASSUME BaseInv, Tick \/ IngestEvent \/ RecalculateScores \/ IngestSample
  PROVE  BaseInv'
<1>1. /\ UNCHANGED <<tables, job, resolving, faults>> /\ now \in Nat /\ edits \in Nat
      /\ event_records \in [EventTypes \X Levels -> Nat \cup {Null}]
      /\ score_delta \in [EventTypes -> Int] /\ metric_samples \in [Hosts -> Sample \cup {Null}]
  BY DEF Tick, IngestEvent, RecalculateScores, IngestSample, BaseInv, TypeOK
<1>2. now' \in Nat /\ now <= now' /\ edits' \in Nat
  <2>1. (now' = now \/ now' = now + 1) /\ (edits' = edits \/ edits' = edits + 1)
    BY DEF Tick, IngestEvent, RecalculateScores, IngestSample
  <2> QED
    BY <1>1, <2>1
<1>3. /\ event_records' \in [EventTypes \X Levels -> Nat \cup {Null}]
      /\ \A p \in EventTypes \X Levels : event_records'[p] # Null => event_records'[p] <= now'
  <2>1. CASE UNCHANGED event_records
    BY <1>1, <1>2, <2>1 DEF BaseInv, RecordsPast
  <2>2. CASE IngestEvent
    <3>1. PICK p \in EventTypes \X Levels, t \in 0 .. now :
             event_records' = [event_records EXCEPT ![p] = t] /\ now' = now
      BY <2>2 DEF IngestEvent
    <3>2. \A q \in EventTypes \X Levels : event_records[q] # Null => event_records[q] <= now
      BY DEF BaseInv, RecordsPast
    <3> HIDE DEF BaseInv
    <3> QED
      BY <1>1, <3>1, <3>2
  <2> QED
    BY <2>1, <2>2 DEF Tick, RecalculateScores, IngestSample, inputs
<1>4. score_delta' \in [EventTypes -> Int]
  BY <1>1, EvaluationConstants DEF Tick, IngestEvent, RecalculateScores, IngestSample, inputs
<1>5. metric_samples' \in [Hosts -> Sample \cup {Null}]
  <2>1. CASE UNCHANGED metric_samples
    BY <1>1, <2>1
  <2>2. CASE IngestSample
    <3>1. PICK h \in Hosts, t \in 0 .. now, v \in Levels :
             metric_samples' = [metric_samples EXCEPT ![h] = [sampled_at |-> t, value |-> v]]
      BY <2>2 DEF IngestSample
    <3>2. [sampled_at |-> t, value |-> v] \in Sample
      BY <1>1 DEF Sample
    <3> QED
      BY <1>1, <3>1, <3>2
  <2> QED
    BY <2>1, <2>2 DEF Tick, RecalculateScores, IngestEvent, inputs
<1>6. TypeOK'
  BY <1>1, <1>2, <1>3, <1>4, <1>5 DEF BaseInv, TypeOK, tables, job
<1>7. ReadsTrue' /\ RowsTold' /\ ResolvesTrue' /\ RecordsPast'
  BY <1>1, <1>3 DEF BaseInv, ReadsTrue, RowsTold, ResolvesTrue, RecordsPast, tables, job, IsEventRule
<1> QED
  BY <1>6, <1>7 DEF BaseInv

\* A cycle begins, ends, or dies.
LEMMA CyclesKeep ==
  ASSUME BaseInv, ReadRules \/ EndEvaluation \/ EvaluationFails \/ Crash
  PROVE  BaseInv'
<1>1. UNCHANGED <<now, inputs, tables, edits>> /\ faults' \in Nat
  BY DEF ReadRules, EndEvaluation, EvaluationFails, Crash, BaseInv, TypeOK
<1>2. CASE ReadRules \/ EndEvaluation
  <2>1. /\ evaluated \notin Rules /\ evaluated = Null
        /\ pc' \in {"idle", "loop"} /\ UNCHANGED <<evaluated, found, states, started, resolving>>
        /\ rules' \in [Rules -> AlertRule \cup {Null}] /\ todo' \subseteq Rules
        /\ \A r \in todo' : rules'[r] # Null
        /\ found \in [Contexts -> Nat \cup {Null}]
    BY <1>2 DEF ReadRules, EndEvaluation, BaseInv, TypeOK, ReadsTrue
  <2>2. TypeOK'
    BY <1>1, <2>1 DEF BaseInv, TypeOK, tables, inputs
  <2>3. ReadsTrue' /\ RowsTold' /\ ResolvesTrue' /\ RecordsPast'
    BY <1>1, <2>1 DEF BaseInv, ReadsTrue, RowsTold, ResolvesTrue, RecordsPast, tables, inputs
  <2> QED
    BY <2>2, <2>3 DEF BaseInv
<1>3. CASE EvaluationFails \/ Crash
  <2>1. /\ evaluated' = Null /\ started' = 0 /\ pc' \in {"idle", "loop"}
        /\ found' \in [Contexts -> Nat \cup {Null}] /\ states' \in [Contexts -> AlertState \cup {Null}]
        /\ rules' \in [Rules -> AlertRule \cup {Null}] /\ todo' \subseteq Rules
        /\ \A r \in todo' : rules'[r] # Null
        /\ resolving' \in [Operators -> (Rules \X Contexts) \cup {Null}]
    BY <1>3 DEF EvaluationFails, Crash, RuleDone, BaseInv, TypeOK, ReadsTrue
  <2>2. TypeOK'
    BY <1>1, <2>1 DEF BaseInv, TypeOK, tables, inputs
  <2>3. UNCHANGED resolving \/ resolving' = [o \in Operators |-> Null]
    BY <1>3 DEF EvaluationFails, Crash
  <2>4. ResolvesTrue'
    <3>1. CASE UNCHANGED resolving
      BY <1>1, <3>1 DEF BaseInv, ResolvesTrue, tables
    <3>2. CASE resolving' = [o \in Operators |-> Null]
      <4>1. \A o \in Operators, r \in Rules, c \in Contexts : resolving'[o] # <<r, c>>
        BY <3>2, EvaluationConstants
      <4> QED
        BY <4>1 DEF ResolvesTrue
    <3> QED
      BY <2>3, <3>1, <3>2
  <2>5. ReadsTrue' /\ RowsTold' /\ RecordsPast'
    BY <1>1, <2>1, EvaluationConstants DEF BaseInv, ReadsTrue, RowsTold, RecordsPast, tables, inputs
  <2> QED
    BY <2>2, <2>4, <2>5 DEF BaseInv
<1> QED
  BY <1>2, <1>3

LEMMA ReadKeeps ==
  ASSUME BaseInv, NEW r \in Rules, ReadRule(r)
  PROVE  BaseInv'
<1>1. /\ UNCHANGED <<now, inputs, tables, rules, resolving, edits, faults>>
      /\ pc' = "evaluating" /\ evaluated' = r /\ todo' = todo \ {r} /\ started' = now
      /\ states' = alert_states[r] /\ r \in todo
      /\ found' = IF rules[r].rule_type = "event_score"
                  THEN LatestQualifying(rules[r].threshold) ELSE LatestFresh
  BY DEF ReadRule
<1>2. /\ rules[r] \in AlertRule /\ r # Null /\ now \in Nat
      /\ alert_states[r] \in [Contexts -> AlertState \cup {Null}]
      /\ rules[r].rule_type \in {"event_score", "metric_threshold"}
  <2>1. rules[r] # Null /\ rules \in [Rules -> AlertRule \cup {Null}]
        /\ alert_states \in [Rules -> [Contexts -> AlertState \cup {Null}]] /\ now \in Nat
    BY <1>1 DEF BaseInv, TypeOK, ReadsTrue
  <2>2. rules[r] \in AlertRule
    BY <2>1
  <2> QED
    BY <2>1, <2>2, EvaluationConstants DEF AlertRule
<1>3. CASE rules[r].rule_type = "event_score"
  <2>1. found' \in [Contexts -> Nat \cup {Null}] /\ \A h \in Hosts : found'[h] = Null
    BY <1>1, <1>3, EvidenceType
  <2>2. TypeOK'
    BY <1>1, <1>2, <1>3, <2>1 DEF BaseInv, TypeOK, tables, inputs
  <2>3. ReadsTrue' /\ RowsTold' /\ ResolvesTrue' /\ RecordsPast'
    BY <1>1, <1>2, <1>3, <2>1, EvaluationConstants
       DEF BaseInv, ReadsTrue, RowsTold, ResolvesTrue, RecordsPast, tables, inputs, IsEventRule
  <2> QED
    BY <2>2, <2>3 DEF BaseInv
<1>4. CASE rules[r].rule_type = "metric_threshold"
  <2>1. found' \in [Contexts -> Sample \cup {Null}] /\ \A e \in EventTypes : found'[e] = Null
    BY <1>1, <1>4, EvidenceType
  <2>2. TypeOK'
    BY <1>1, <1>2, <1>4, <2>1 DEF BaseInv, TypeOK, tables, inputs
  <2>3. ReadsTrue' /\ RowsTold' /\ ResolvesTrue' /\ RecordsPast'
    BY <1>1, <1>2, <1>4, <2>1, EvaluationConstants
       DEF BaseInv, ReadsTrue, RowsTold, ResolvesTrue, RecordsPast, tables, inputs, IsEventRule
  <2> QED
    BY <2>2, <2>3 DEF BaseInv
<1> QED
  BY <1>2, <1>3, <1>4

\* What is told of a context is never taken back by a commit.
LEMMA AppendNotEmpty ==
  ASSUME NEW S, NEW q \in Seq(S), NEW x \in S
  PROVE  /\ Append(q, x) \in Seq(S) /\ Append(q, x) # <<>>
         /\ Len(Append(q, x)) = Len(q) + 1 /\ Append(q, x)[Len(q) + 1] = x
         /\ \A n \in 1 .. Len(q) : Append(q, x)[n] = q[n]
BY AppendProperties

LEMMA CommitKeeps ==
  ASSUME BaseInv, CommitRule
  PROVE  BaseInv'
<1>1. /\ UNCHANGED <<now, inputs, alert_rules, rules, todo, resolving, edits, faults>>
      /\ pc' = "loop" /\ evaluated' = Null /\ started' = 0
      /\ found' = [c \in Contexts |-> Null] /\ states' = [c \in Contexts |-> Null]
  BY DEF CommitRule, RuleDone
<1>2. /\ evaluated \in Rules /\ pc = "evaluating"
      /\ alert_states' \in [Rules -> [Contexts -> AlertState \cup {Null}]]
      /\ told' \in [Rules -> [Contexts -> Seq(Notification)]]
      /\ \A r \in Rules \ {evaluated} : alert_states'[r] = alert_states[r] /\ told'[r] = told[r]
  BY CommitEffect
<1>3. /\ evaluated' \in Rules \cup {Null} /\ started' \in Nat
      /\ found' \in [Contexts -> Nat \cup {Null}] /\ states' \in [Contexts -> AlertState \cup {Null}]
      /\ evaluated' \notin Rules
  BY <1>1, EvaluationConstants
<1>4. TypeOK'
  BY <1>1, <1>2, <1>3 DEF BaseInv, TypeOK, inputs
<1>5. ReadsTrue' /\ RecordsPast'
  BY <1>1, <1>3 DEF BaseInv, ReadsTrue, RecordsPast, inputs
<1>6. ASSUME NEW c \in Contexts
      PROVE  /\ alert_states'[evaluated][c] = Null <=> told'[evaluated][c] = <<>>
             /\ alert_states[evaluated][c] # Null => alert_states'[evaluated][c] # Null
  <2>1. /\ Tells(c) => /\ told'[evaluated][c] = Append(told[evaluated][c], Message(c))
                       /\ Message(c) \in Notification
        /\ ~Tells(c) => told'[evaluated][c] = told[evaluated][c]
        /\ c \notin Changed => alert_states'[evaluated][c] = alert_states[evaluated][c]
        /\ c \in Changed /\ states[c] = Null => alert_states'[evaluated][c] = NewRow(c)
        /\ c \in Changed /\ states[c] # Null =>
              /\ states[c] \in AlertState /\ alert_states[evaluated][c] \in AlertState
              /\ alert_states'[evaluated][c] =
                    WriteChanged(states[c], NewRow(c), alert_states[evaluated][c])
    BY CommitEffect
  <2>2. /\ Tells(c) => c \in Changed
        /\ c \in Changed => NewRow(c) \in AlertState
        /\ c \in Changed /\ ~Tells(c) => Updates(c)
    BY <1>2, RowsDecided
  <2>3. c \in Changed => alert_states'[evaluated][c] # Null
    BY <2>1, <2>2, WritesRow, EvaluationConstants
  <2>4. alert_states[evaluated][c] = Null <=> told[evaluated][c] = <<>>
    BY <1>2 DEF BaseInv, RowsTold
  <2>5. Tells(c) => told'[evaluated][c] # <<>>
    <3>1. told[evaluated][c] \in Seq(Notification)
      BY <1>2 DEF BaseInv, TypeOK
    <3> QED
      BY <2>1, <3>1, AppendNotEmpty
  <2>6. c \in Changed /\ ~Tells(c) => alert_states[evaluated][c] # Null
    <3>1. Updates(c) => states[c] # Null
      BY EvaluationConstants DEF Updates
    <3> QED
      BY <2>1, <2>2, <3>1, EvaluationConstants
  <2> QED
    BY <2>1, <2>2, <2>3, <2>4, <2>5, <2>6
<1>7. RowsTold'
  <2> SUFFICES ASSUME NEW r \in Rules, NEW c \in Contexts
               PROVE  alert_states'[r][c] = Null <=> told'[r][c] = <<>>
    BY DEF RowsTold
  <2>1. CASE r = evaluated
    BY <1>6, <2>1
  <2>2. CASE r # evaluated
    BY <1>2, <2>2 DEF BaseInv, RowsTold
  <2> QED
    BY <2>1, <2>2
<1>8. ResolvesTrue'
  BY <1>1, <1>2, <1>6 DEF BaseInv, ResolvesTrue
<1> QED
  BY <1>4, <1>5, <1>7, <1>8 DEF BaseInv

\* What the commit of a resolve tells, and what it leaves.
Recovery(r, c) == [state |-> "resolved", at |-> now, evidence |-> LastTold(r, c).evidence]

LEMMA ResolveEffect ==
  ASSUME BaseInv, NEW o \in Operators, ResolveCommit(o),
         NEW r \in Rules, NEW c \in Contexts, resolving[o] = <<r, c>>
  PROVE  /\ alert_states' \in [Rules -> [Contexts -> AlertState \cup {Null}]]
         /\ told' \in [Rules -> [Contexts -> Seq(Notification)]]
         /\ told[r][c] \in Seq(Notification) /\ told[r][c] # <<>> /\ Recovery(r, c) \in Notification
         /\ alert_states'[r][c] \in AlertState /\ alert_states'[r][c].state = "resolved"
         /\ told'[r][c] = Append(told[r][c], Recovery(r, c)) /\ told'[r][c] # <<>>
         /\ \A q \in Rules, d \in Contexts :
               ~(q = r /\ d = c) =>
                  alert_states'[q][d] = alert_states[q][d] /\ told'[q][d] = told[q][d]
         /\ resolving' = [resolving EXCEPT ![o] = Null]
<1> DEFINE row == [alert_states[r][c] EXCEPT !.state = "resolved", !.resolved_at = now]
           said == Recovery(r, c)
<1>1. /\ alert_states \in [Rules -> [Contexts -> AlertState \cup {Null}]]
      /\ told \in [Rules -> [Contexts -> Seq(Notification)]] /\ now \in Nat
  BY DEF BaseInv, TypeOK
<1>2. /\ alert_states' = [alert_states EXCEPT ![r] = [alert_states[r] EXCEPT ![c] = row]]
      /\ told' = [told EXCEPT ![r] = [told[r] EXCEPT ![c] = Append(told[r][c], said)]]
      /\ resolving' = [resolving EXCEPT ![o] = Null]
  BY <1>1 DEF ResolveCommit, Recovery, LastTold
<1>3. alert_states[r][c] \in AlertState /\ told[r][c] \in Seq(Notification) /\ told[r][c] # <<>>
  BY <1>1 DEF BaseInv, ResolvesTrue, RowsTold
<1>4. row \in AlertState /\ row.state = "resolved"
  BY <1>1, <1>3 DEF AlertState, States
<1>5. said \in Notification
  <2>1. Len(told[r][c]) \in Nat \ {0}
    BY <1>3, EmptySeq, LenProperties, Zenon
  <2>2. LastTold(r, c) \in Notification
    BY <1>3, <2>1 DEF LastTold
  <2> QED
    BY <1>1, <2>2 DEF Notification, States, Recovery
<1> DEFINE sayings == Append(told[r][c], said)
<1> HIDE DEF row, said
<1>6. sayings \in Seq(Notification) /\ sayings # <<>>
  BY <1>3, <1>5, AppendNotEmpty
<1> HIDE DEF sayings
<1>7. /\ alert_states' \in [Rules -> [Contexts -> AlertState \cup {Null}]]
      /\ \A q \in Rules, d \in Contexts :
            alert_states'[q][d] = IF q = r /\ d = c THEN row ELSE alert_states[q][d]
  BY <1>1, <1>2, <1>4
<1>8. /\ told' \in [Rules -> [Contexts -> Seq(Notification)]]
      /\ \A q \in Rules, d \in Contexts :
            told'[q][d] = IF q = r /\ d = c THEN sayings ELSE told[q][d]
  <2>1. told' = [told EXCEPT ![r] = [told[r] EXCEPT ![c] = sayings]]
    BY <1>2 DEF sayings
  <2> QED
    BY <1>1, <1>6, <2>1
<1>9. told'[r][c] = sayings
  BY <1>8, Zenon
<1>10. \A q \in Rules, d \in Contexts :
          ~(q = r /\ d = c) => alert_states'[q][d] = alert_states[q][d] /\ told'[q][d] = told[q][d]
  BY <1>7, <1>8, Zenon
<1>11. alert_states'[r][c] = row
  BY <1>7, Zenon
<1> QED
  BY <1>2, <1>3, <1>4, <1>5, <1>6, <1>7, <1>8, <1>9, <1>10, <1>11 DEF said, sayings

\* An operator reads an alert, and resolves it.
LEMMA ResolvesKeep ==
  ASSUME BaseInv, NEW o \in Operators, ResolveRead(o) \/ ResolveCommit(o)
  PROVE  BaseInv'
<1>1. /\ UNCHANGED <<now, inputs, alert_rules, job, faults>>
      /\ resolving \in [Operators -> (Rules \X Contexts) \cup {Null}]
      /\ alert_states \in [Rules -> [Contexts -> AlertState \cup {Null}]]
      /\ told \in [Rules -> [Contexts -> Seq(Notification)]] /\ now \in Nat /\ edits \in Nat
  BY DEF ResolveRead, ResolveCommit, BaseInv, TypeOK, tables
<1>2. CASE ResolveRead(o)
  <2>1. PICK r \in Rules, c \in Contexts :
           alert_states[r][c] # Null /\ resolving' = [resolving EXCEPT ![o] = <<r, c>>]
    BY <1>2 DEF ResolveRead
  <2>2. UNCHANGED tables /\ edits' = edits + 1
    BY <1>2 DEF ResolveRead
  <2>3. resolving' \in [Operators -> (Rules \X Contexts) \cup {Null}]
    BY <1>1, <2>1
  <2>4. TypeOK'
    BY <1>1, <2>2, <2>3 DEF BaseInv, TypeOK, tables, inputs, job
  <2>5. ResolvesTrue'
    BY <1>1, <2>1, <2>2 DEF BaseInv, ResolvesTrue, tables
  <2>6. ReadsTrue' /\ RowsTold' /\ RecordsPast'
    BY <1>1, <2>2 DEF BaseInv, ReadsTrue, RowsTold, RecordsPast, tables, inputs, job, IsEventRule
  <2> QED
    BY <2>4, <2>5, <2>6 DEF BaseInv
<1>3. CASE ResolveCommit(o)
  <2>1. PICK r \in Rules, c \in Contexts : resolving[o] = <<r, c>>
    BY <1>1, <1>3 DEF ResolveCommit
  <2>2. /\ alert_states' \in [Rules -> [Contexts -> AlertState \cup {Null}]]
        /\ told' \in [Rules -> [Contexts -> Seq(Notification)]]
        /\ told'[r][c] # <<>> /\ alert_states'[r][c] \in AlertState
        /\ \A q \in Rules, d \in Contexts :
              ~(q = r /\ d = c) =>
                 alert_states'[q][d] = alert_states[q][d] /\ told'[q][d] = told[q][d]
        /\ resolving' = [resolving EXCEPT ![o] = Null]
    BY <1>3, <2>1, ResolveEffect
  <2>3. /\ resolving' \in [Operators -> (Rules \X Contexts) \cup {Null}]
        /\ \A p \in Operators : resolving'[p] # Null => resolving'[p] = resolving[p]
    BY <1>1, <2>2
  <2>4. UNCHANGED edits
    BY <1>3 DEF ResolveCommit
  <2>5. TypeOK'
    BY <1>1, <2>2, <2>3, <2>4 DEF BaseInv, TypeOK, inputs, job
  <2>6. alert_states'[r][c] # Null /\ told'[r][c] # <<>>
    BY <2>2, EvaluationConstants
  <2>7. RowsTold'
    <3> SUFFICES ASSUME NEW q \in Rules, NEW d \in Contexts
                 PROVE  alert_states'[q][d] = Null <=> told'[q][d] = <<>>
      BY DEF RowsTold
    <3>1. CASE q = r /\ d = c
      BY <2>6, <3>1
    <3>2. CASE ~(q = r /\ d = c)
      <4>1. alert_states'[q][d] = alert_states[q][d] /\ told'[q][d] = told[q][d]
        BY <2>2, <3>2, Zenon
      <4>2. alert_states[q][d] = Null <=> told[q][d] = <<>>
        BY DEF BaseInv, RowsTold
      <4> QED
        BY <4>1, <4>2
    <3> QED
      BY <3>1, <3>2
  <2>8. ResolvesTrue'
    <3> SUFFICES ASSUME NEW p \in Operators, NEW q \in Rules, NEW d \in Contexts,
                        resolving'[p] = <<q, d>>
                 PROVE  alert_states'[q][d] # Null
      BY DEF ResolvesTrue
    <3>1. <<q, d>> # Null
      BY EvaluationConstants
    <3>2. alert_states[q][d] # Null
      BY <2>3, <3>1 DEF BaseInv, ResolvesTrue
    <3> QED
      BY <2>2, <2>6, <3>2
  <2>9. ReadsTrue' /\ RecordsPast'
    BY <1>1 DEF BaseInv, ReadsTrue, RecordsPast, inputs, job, IsEventRule
  <2> QED
    BY <2>5, <2>7, <2>8, <2>9 DEF BaseInv
<1> QED
  BY <1>2, <1>3

\* A rule is deleted with its alerts and all that was told of them.
LEMMA DeleteEffect ==
  ASSUME BaseInv, DeleteRule
  PROVE  \E r \in Rules :
            /\ alert_states' \in [Rules -> [Contexts -> AlertState \cup {Null}]]
            /\ told' \in [Rules -> [Contexts -> Seq(Notification)]]
            /\ \A q \in Rules \ {r} : alert_states'[q] = alert_states[q] /\ told'[q] = told[q]
            /\ \A c \in Contexts : alert_states'[r][c] = Null /\ told'[r][c] = <<>>
            /\ resolving' \in [Operators -> (Rules \X Contexts) \cup {Null}]
            /\ \A o \in Operators : resolving'[o] # Null =>
                  resolving'[o] = resolving[o] /\ resolving[o][1] # r
<1>1. PICK r \in Rules :
        /\ alert_states' = [alert_states EXCEPT ![r] = [c \in Contexts |-> Null]]
        /\ told' = [told EXCEPT ![r] = [c \in Contexts |-> <<>>]]
        /\ resolving' = [o \in Operators |->
              IF resolving[o] # Null /\ resolving[o][1] = r THEN Null ELSE resolving[o]]
  BY DEF DeleteRule
<1>2. /\ resolving \in [Operators -> (Rules \X Contexts) \cup {Null}]
      /\ alert_states \in [Rules -> [Contexts -> AlertState \cup {Null}]]
      /\ told \in [Rules -> [Contexts -> Seq(Notification)]]
  BY DEF BaseInv, TypeOK
<1> DEFINE none == [c \in Contexts |-> Null]
           nothing == [c \in Contexts |-> <<>>]
<1>3. /\ none \in [Contexts -> AlertState \cup {Null}] /\ nothing \in [Contexts -> Seq(Notification)]
      /\ \A c \in Contexts : none[c] = Null /\ nothing[c] = <<>>
  BY EmptySeq
<1> HIDE DEF none, nothing
<1>4. /\ alert_states' \in [Rules -> [Contexts -> AlertState \cup {Null}]]
      /\ told' \in [Rules -> [Contexts -> Seq(Notification)]]
      /\ \A q \in Rules \ {r} : alert_states'[q] = alert_states[q] /\ told'[q] = told[q]
      /\ alert_states'[r] = none /\ told'[r] = nothing
  BY <1>1, <1>2, <1>3 DEF none, nothing
<1>5. /\ resolving' \in [Operators -> (Rules \X Contexts) \cup {Null}]
      /\ \A o \in Operators : resolving'[o] # Null =>
            resolving'[o] = resolving[o] /\ resolving[o][1] # r
  BY <1>1, <1>2
<1> QED
  BY <1>3, <1>4, <1>5

\* Rules are created, changed and deleted.
LEMMA RulesKeep ==
  ASSUME BaseInv, Administrate
  PROVE  BaseInv'
<1>1. /\ UNCHANGED <<now, inputs, job, faults>> /\ edits' \in Nat
      /\ alert_rules' \in [Rules -> AlertRule \cup {Null}]
  <2>1. PICK r \in Rules, row \in AlertRule \cup {Null} : ChangeRule(r, row)
    BY DEF Administrate, CreateRule, PatchRule, ImportRule, DeleteRule
  <2> QED
    BY <2>1 DEF ChangeRule, BaseInv, TypeOK
<1>2. CASE UNCHANGED <<alert_states, told, resolving>>
  <2>1. TypeOK'
    BY <1>1, <1>2 DEF BaseInv, TypeOK, inputs, job
  <2>2. ReadsTrue' /\ RowsTold' /\ ResolvesTrue' /\ RecordsPast'
    BY <1>1, <1>2 DEF BaseInv, ReadsTrue, RowsTold, ResolvesTrue, RecordsPast, inputs, job, IsEventRule
  <2> QED
    BY <2>1, <2>2 DEF BaseInv
<1>3. CASE DeleteRule
  <2>1. PICK r \in Rules :
            /\ alert_states' \in [Rules -> [Contexts -> AlertState \cup {Null}]]
            /\ told' \in [Rules -> [Contexts -> Seq(Notification)]]
            /\ \A q \in Rules \ {r} : alert_states'[q] = alert_states[q] /\ told'[q] = told[q]
            /\ \A c \in Contexts : alert_states'[r][c] = Null /\ told'[r][c] = <<>>
            /\ resolving' \in [Operators -> (Rules \X Contexts) \cup {Null}]
            /\ \A o \in Operators : resolving'[o] # Null =>
                  resolving'[o] = resolving[o] /\ resolving[o][1] # r
    BY <1>3, DeleteEffect
  <2>2. /\ alert_states' \in [Rules -> [Contexts -> AlertState \cup {Null}]]
        /\ told' \in [Rules -> [Contexts -> Seq(Notification)]]
        /\ resolving' \in [Operators -> (Rules \X Contexts) \cup {Null}]
    BY <2>1, Zenon
  <2>3. \A q \in Rules \ {r} : alert_states'[q] = alert_states[q] /\ told'[q] = told[q]
    BY <2>1, Zenon
  <2>4. \A c \in Contexts : alert_states'[r][c] = Null /\ told'[r][c] = <<>>
    BY <2>1, Zenon
  <2>5. \A o \in Operators : resolving'[o] # Null =>
              resolving'[o] = resolving[o] /\ resolving[o][1] # r
    BY <2>1, Zenon
  <2>6. TypeOK'
    BY <1>1, <2>2 DEF BaseInv, TypeOK, inputs, job
  <2>7. RowsTold'
    BY <2>3, <2>4 DEF BaseInv, RowsTold
  <2>8. ResolvesTrue'
    <3> SUFFICES ASSUME NEW o \in Operators, NEW q \in Rules, NEW c \in Contexts,
                        resolving'[o] = <<q, c>>
                 PROVE  alert_states'[q][c] # Null
      BY DEF ResolvesTrue
    <3>1. <<q, c>> # Null
      BY EvaluationConstants
    <3>2. resolving[o] = <<q, c>> /\ q # r
      <4>1. resolving'[o] = resolving[o] /\ resolving[o][1] # r
        BY <2>5, <3>1, Zenon
      <4>2. <<q, c>>[1] = q
        OBVIOUS
      <4> QED
        BY <4>1, <4>2, Zenon
    <3>3. alert_states[q][c] # Null
      BY <3>2 DEF BaseInv, ResolvesTrue
    <3> QED
      BY <2>3, <3>2, <3>3
  <2>9. ReadsTrue' /\ RecordsPast'
    BY <1>1 DEF BaseInv, ReadsTrue, RecordsPast, inputs, job, IsEventRule
  <2> QED
    BY <2>6, <2>7, <2>8, <2>9 DEF BaseInv
<1> QED
  BY <1>2, <1>3 DEF Administrate, CreateRule, PatchRule, ImportRule

LEMMA BaseInit == Init => BaseInv
<1> SUFFICES ASSUME Init PROVE BaseInv
  OBVIOUS
<1>1. alert_rules \in [Rules -> AlertRule \cup {Null}]
  BY DEF Init
<1>2. /\ alert_states \in [Rules -> [Contexts -> AlertState \cup {Null}]]
      /\ told \in [Rules -> [Contexts -> Seq(Notification)]]
      /\ \A r \in Rules, c \in Contexts : alert_states[r][c] = Null /\ told[r][c] = <<>>
  BY EmptySeq DEF Init
<1>3. /\ resolving \in [Operators -> (Rules \X Contexts) \cup {Null}]
      /\ \A o \in Operators, r \in Rules, c \in Contexts : resolving[o] # <<r, c>>
  BY EvaluationConstants DEF Init
<1>4. TypeOK
  BY <1>1, <1>2, <1>3 DEF Init, TypeOK
<1>5. ReadsTrue /\ RecordsPast
  BY EvaluationConstants DEF Init, ReadsTrue, RecordsPast
<1>6. RowsTold /\ ResolvesTrue
  BY <1>2, <1>3 DEF RowsTold, ResolvesTrue
<1> QED
  BY <1>4, <1>5, <1>6 DEF BaseInv

LEMMA BaseStep == BaseInv /\ [Next]_vars => BaseInv'
<1> SUFFICES ASSUME BaseInv, [Next]_vars PROVE BaseInv'
  OBVIOUS
<1>1. CASE UNCHANGED vars
  BY <1>1 DEF vars, inputs, tables, job, BaseInv, TypeOK, ReadsTrue, RowsTold, ResolvesTrue,
              RecordsPast, IsEventRule
<1> QED
  BY <1>1, InputsKeep, CyclesKeep, ReadKeeps, CommitKeeps, ResolvesKeep, RulesKeep
     DEF Next, EvaluateAll

(* Everything the evaluator keeps has its type, with any rules, operators    *)
(* and edits: an evaluation has the rule it evaluates, an alert that an      *)
(* operator resolves is there and has been told before.                      *)
THEOREM EvaluationTypes == Spec => []TypeOK
<1>1. BaseInv => TypeOK
  BY DEF BaseInv
<1> QED
  BY <1>1, BaseInit, BaseStep, PTL DEF Spec

-----------------------------------------------------------------------------
(* Notifications in a row.                                                 *)

LEMMA PairsAppend ==
  ASSUME NEW S, NEW q \in Seq(S), NEW x \in S
  PROVE  /\ \A p \in Pairs(Append(q, x)) : p \in Pairs(q) \/ (q # <<>> /\ p = <<q[Len(q)], x>>)
         /\ Append(q, x)[Len(Append(q, x))] = x
         /\ q # <<>> => Append(q, x)[1] = q[1]
         /\ q = <<>> => Append(q, x)[1] = x
<1> DEFINE a == Append(q, x)
<1>1. /\ Len(a) = Len(q) + 1 /\ a[Len(q) + 1] = x /\ \A n \in 1 .. Len(q) : a[n] = q[n]
      /\ Len(q) \in Nat /\ (q = <<>> <=> Len(q) = 0)
  BY AppendProperties, LenProperties, EmptySeq
<1> HIDE DEF a
<1>2. ASSUME NEW n \in 1 .. Len(a) - 1
      PROVE  \/ n \in 1 .. Len(q) - 1 /\ a[n] = q[n] /\ a[n + 1] = q[n + 1]
             \/ n = Len(q) /\ q # <<>> /\ a[n] = q[Len(q)] /\ a[n + 1] = x
  <2>1. CASE n \in 1 .. Len(q) - 1
    <3>1. n \in 1 .. Len(q) /\ n + 1 \in 1 .. Len(q)
      BY <1>1, <2>1
    <3> QED
      BY <1>1, <2>1, <3>1
  <2>2. CASE n = Len(q)
    BY <1>1, <2>2
  <2>3. n \in 1 .. Len(q) - 1 \/ n = Len(q)
    BY <1>1
  <2> QED
    BY <2>1, <2>2, <2>3
<1>3. ASSUME NEW p \in Pairs(a)
      PROVE  p \in Pairs(q) \/ (q # <<>> /\ p = <<q[Len(q)], x>>)
  <2>1. PICK n \in 1 .. Len(a) - 1 : p = <<a[n], a[n + 1]>>
    BY DEF Pairs
  <2> QED
    BY <1>2, <2>1 DEF Pairs
<1>4. q # <<>> => a[1] = q[1]
  BY <1>1
<1>5. q = <<>> => a[1] = x
  BY <1>1
<1> QED
  BY <1>1, <1>3, <1>4, <1>5 DEF a

LEMMA PairsEmpty == Pairs(<<>>) = {}
BY DEF Pairs

-----------------------------------------------------------------------------
(* A recovery is told of what was firing.                                  *)

AtMostOneOperator == \A o, p \in Operators : o = p

\* Where nothing is written, nothing changes.
LEMMA RecoveryFrame ==
  ASSUME RecoveryInv, BaseInv', UNCHANGED <<alert_states, told>>,
         \A o \in Operators, r \in Rules, c \in Contexts :
            resolving'[o] = <<r, c>> => resolving[o] = <<r, c>>
  PROVE  RecoveryInv'
<1>1. FiringShown'
  BY DEF RecoveryInv, FiringShown, LastTold
<1>2. ResolvesFiring'
  BY DEF RecoveryInv, ResolvesFiring, LastTold, Contexts
<1>3. \A r \in Rules, e \in EventTypes : RecoversOnce(told'[r][e])
  BY DEF RecoveryInv
<1> QED
  BY <1>1, <1>2, <1>3 DEF RecoveryInv

\* One more notification, which is no recovery.
LEMMA ToldMore ==
  ASSUME NEW q \in Seq(Notification), NEW x \in Notification, RecoversOnce(q),
         x.state = "resolved" => q = <<>> \/ q[Len(q)].state # "resolved"
  PROVE  RecoversOnce(Append(q, x)) /\ Append(q, x)[Len(Append(q, x))] = x
<1>1. /\ \A p \in Pairs(Append(q, x)) : p \in Pairs(q) \/ (q # <<>> /\ p = <<q[Len(q)], x>>)
      /\ Append(q, x)[Len(Append(q, x))] = x
  BY PairsAppend
<1> DEFINE a == Append(q, x)
           last == q[Len(q)]
<1> SUFFICES ASSUME NEW p \in Pairs(a), p[2].state = "resolved" PROVE p[1].state # "resolved"
  BY <1>1 DEF RecoversOnce
<1>2. p \in Pairs(q) \/ (q # <<>> /\ p = <<last, x>>)
  BY <1>1
<1> HIDE DEF a, last
<1>3. CASE p \in Pairs(q)
  BY <1>3 DEF RecoversOnce
<1>4. CASE q # <<>> /\ p = <<last, x>>
  BY <1>4 DEF last
<1> QED
  BY <1>2, <1>3, <1>4

LatestIn(q) == q[Len(q)]

LEMMA RecoveryCommit ==
  ASSUME RecoveryInv, CommitRule, BaseInv'
  PROVE  RecoveryInv'
<1>1. BaseInv /\ FiringShown /\ ResolvesFiring
  BY DEF RecoveryInv
<1>2. /\ evaluated \in Rules /\ pc = "evaluating" /\ UNCHANGED resolving
      /\ \A r \in Rules \ {evaluated} : alert_states'[r] = alert_states[r] /\ told'[r] = told[r]
      /\ \A h \in Hosts : IsEventRule => found[h] = Null
      /\ \A e \in EventTypes : ~IsEventRule => found[e] = Null
      /\ told \in [Rules -> [Contexts -> Seq(Notification)]]
  BY <1>1, CommitEffect, Evaluating DEF CommitRule, BaseInv, TypeOK
<1>3. ASSUME NEW e \in EventTypes
      PROVE  /\ alert_states'[evaluated][e] # Null /\ alert_states'[evaluated][e].state = "firing"
                   => LatestIn(told'[evaluated][e]).state # "resolved"
             /\ LatestIn(told[evaluated][e]).state # "resolved" => LatestIn(told'[evaluated][e]).state # "resolved"
             /\ RecoversOnce(told'[evaluated][e])
  <2> DEFINE before == told[evaluated][e]
             after == told'[evaluated][e]
             row == alert_states[evaluated][e]
             written == alert_states'[evaluated][e]
  <2>1. e \in Contexts
    BY DEF Contexts
  <2>2. /\ Tells(e) => after = Append(before, Message(e)) /\ Message(e) \in Notification
        /\ ~Tells(e) => after = before
        /\ e \notin Changed => written = row
        /\ e \in Changed /\ states[e] # Null =>
              /\ states[e] \in AlertState /\ row \in AlertState
              /\ written = WriteChanged(states[e], NewRow(e), row)
    BY <1>1, <2>1, CommitEffect
  <2>3. /\ before \in Seq(Notification) /\ RecoversOnce(before)
        /\ row # Null /\ row.state = "firing" => before[Len(before)].state # "resolved"
    BY <1>2, <2>1 DEF RecoveryInv, FiringShown, LastTold
  <2>4. /\ Tells(e) => TellsEvent(e) \/ TellsMetric(e)
        /\ e \in Changed => NewRow(e) \in AlertState
        /\ e \in Changed /\ ~Tells(e) => Updates(e)
    BY <1>1, <1>2, <2>1, Decides, RowsDecided
  <2> HIDE DEF before, after, row, written
  <2>5. CASE Tells(e)
    <3>1. Message(e).state # "resolved"
      <4>1. Message(e).state = NewRow(e).state
        BY DEF Message
      <4>2. TellsEvent(e) => NewRow(e).state = "firing"
        BY DEF TellsEvent
      <4>3. TellsMetric(e) => NewRow(e).state = "stale"
        BY <1>2 DEF TellsMetric
      <4> QED
        BY <2>4, <2>5, <4>1, <4>2, <4>3
    <3>2. RecoversOnce(after) /\ after[Len(after)].state # "resolved"
      BY <2>2, <2>3, <2>5, <3>1, ToldMore
    <3> QED
      BY <3>2 DEF after, LatestIn
  <2>6. CASE ~Tells(e)
    <3>1. after = before
      BY <2>2, <2>6
    <3>2. written # Null /\ written.state = "firing" => row # Null /\ row.state = "firing"
      <4>1. CASE e \notin Changed
        BY <2>2, <4>1
      <4>2. CASE e \in Changed
        <5>1. /\ states[e] \in AlertState /\ NewRow(e).state = states[e].state
              /\ NewRow(e) \in AlertState
          BY <2>4, <2>6, <4>2 DEF Updates, AlertState
        <5>2. states[e] # Null
          BY <5>1, EvaluationConstants
        <5>3. row \in AlertState /\ written = WriteChanged(states[e], NewRow(e), row)
          BY <2>2, <4>2, <5>2
        <5>4. written.state = row.state
          BY <5>1, <5>3, WritesRow
        <5> QED
          BY <5>3, <5>4, EvaluationConstants
      <4> QED
        BY <4>1, <4>2
    <3> QED
      BY <2>3, <3>1, <3>2 DEF before, after, written, LatestIn
  <2> QED
    BY <2>5, <2>6
<1>4. FiringShown'
  <2> SUFFICES ASSUME NEW r \in Rules, NEW e \in EventTypes,
                      alert_states'[r][e] # Null /\ alert_states'[r][e].state = "firing"
               PROVE  LastTold(r, e)'.state # "resolved"
    BY DEF FiringShown
  <2>1. CASE r = evaluated
    BY <1>3, <2>1 DEF LastTold, LatestIn
  <2>2. CASE r # evaluated
    BY <1>1, <1>2, <2>2 DEF FiringShown, LastTold
  <2> QED
    BY <2>1, <2>2
<1>5. ResolvesFiring'
  <2> SUFFICES ASSUME NEW o \in Operators, NEW r \in Rules, NEW e \in EventTypes,
                      resolving'[o] = <<r, e>>
               PROVE  LastTold(r, e)'.state # "resolved"
    BY DEF ResolvesFiring
  <2>1. LastTold(r, e).state # "resolved"
    BY <1>1, <1>2 DEF ResolvesFiring
  <2>2. CASE r = evaluated
    BY <1>3, <2>1, <2>2 DEF LastTold, LatestIn
  <2>3. CASE r # evaluated
    BY <1>2, <2>1, <2>3 DEF LastTold
  <2> QED
    BY <2>2, <2>3
<1>6. \A r \in Rules, e \in EventTypes : RecoversOnce(told'[r][e])
  BY <1>2, <1>3 DEF RecoveryInv
<1> QED
  BY <1>4, <1>5, <1>6 DEF RecoveryInv

\* An operator resolves what was told as firing, and nobody else does.
LEMMA RecoveryResolves ==
  ASSUME AtMostOneOperator, RecoveryInv, BaseInv',
         NEW o \in Operators, ResolveRead(o) \/ ResolveCommit(o)
  PROVE  RecoveryInv'
<1>1. BaseInv /\ FiringShown /\ ResolvesFiring
  BY DEF RecoveryInv
<1>2. CASE ResolveRead(o)
  <2>1. UNCHANGED <<alert_states, told>>
    BY <1>2 DEF ResolveRead, tables
  <2>2. PICK r \in Rules, c \in Contexts :
           /\ alert_states[r][c] # Null /\ alert_states[r][c].state = "firing"
           /\ resolving' = [resolving EXCEPT ![o] = <<r, c>>]
    BY <1>2 DEF ResolveRead
  <2>3. ResolvesFiring'
    <3> SUFFICES ASSUME NEW p \in Operators, NEW q \in Rules, NEW e \in EventTypes,
                        resolving'[p] = <<q, e>>
                 PROVE  LastTold(q, e)'.state # "resolved"
      BY DEF ResolvesFiring
    <3>1. LastTold(q, e).state # "resolved"
      <4>1. p = o /\ resolving'[p] = <<r, c>>
        BY <2>2 DEF AtMostOneOperator, BaseInv, TypeOK
      <4>2. q = r /\ e = c
        BY <4>1
      <4> QED
        BY <1>1, <2>2, <4>2 DEF FiringShown
    <3> QED
      BY <2>1, <3>1 DEF LastTold
  <2>4. FiringShown' /\ \A q \in Rules, e \in EventTypes : RecoversOnce(told'[q][e])
    BY <2>1 DEF RecoveryInv, FiringShown, LastTold
  <2> QED
    BY <2>3, <2>4 DEF RecoveryInv
<1>3. CASE ResolveCommit(o)
  <2>1. PICK r \in Rules, c \in Contexts : resolving[o] = <<r, c>>
    BY <1>1, <1>3 DEF ResolveCommit, BaseInv, TypeOK
  <2>2. /\ told[r][c] \in Seq(Notification) /\ told[r][c] # <<>> /\ Recovery(r, c) \in Notification
        /\ alert_states'[r][c].state = "resolved"
        /\ told'[r][c] = Append(told[r][c], Recovery(r, c))
        /\ \A q \in Rules, d \in Contexts :
              ~(q = r /\ d = c) =>
                 alert_states'[q][d] = alert_states[q][d] /\ told'[q][d] = told[q][d]
        /\ resolving' = [resolving EXCEPT ![o] = Null]
    BY <1>1, <1>3, <2>1, ResolveEffect
  <2>3. \A p \in Operators, q \in Rules, d \in Contexts : resolving'[p] # <<q, d>>
    <3>1. \A p \in Operators : resolving'[p] = Null
      BY <2>2 DEF AtMostOneOperator, RecoveryInv, BaseInv, TypeOK
    <3> QED
      BY <3>1, EvaluationConstants
  <2>4. ASSUME NEW q \in Rules, NEW e \in EventTypes
        PROVE  /\ alert_states'[q][e] # Null /\ alert_states'[q][e].state = "firing"
                     => LastTold(q, e)'.state # "resolved"
               /\ RecoversOnce(told'[q][e])
    <3>1. CASE q = r /\ e = c
      <4>1. LastTold(r, c).state # "resolved" /\ RecoversOnce(told[r][c])
        BY <2>1, <3>1 DEF RecoveryInv, ResolvesFiring
      <4>2. RecoversOnce(told'[r][c])
        <5> DEFINE before == told[r][c]
                   said == Recovery(r, c)
        <5>1. /\ before \in Seq(Notification) /\ said \in Notification /\ RecoversOnce(before)
              /\ before[Len(before)].state # "resolved" /\ told'[r][c] = Append(before, said)
          BY <2>2, <4>1 DEF LastTold
        <5> HIDE DEF before, said
        <5>2. RecoversOnce(Append(before, said))
          BY <5>1, ToldMore
        <5> QED
          BY <5>1, <5>2
      <4> QED
        BY <2>2, <3>1, <4>2
    <3>2. CASE ~(q = r /\ e = c)
      <4>1. alert_states'[q][e] = alert_states[q][e] /\ told'[q][e] = told[q][e]
        <5>1. e \in Contexts
          BY DEF Contexts
        <5> QED
          BY <2>2, <3>2, <5>1, Zenon
      <4>2. /\ RecoversOnce(told[q][e])
            /\ alert_states[q][e] # Null /\ alert_states[q][e].state = "firing"
                  => LastTold(q, e).state # "resolved"
        BY DEF RecoveryInv, FiringShown
      <4> QED
        BY <4>1, <4>2 DEF LastTold
    <3> QED
      BY <3>1, <3>2
  <2>5. FiringShown'
    BY <2>4 DEF FiringShown
  <2>6. ResolvesFiring'
    BY <2>3 DEF ResolvesFiring, Contexts
  <2> QED
    BY <2>4, <2>5, <2>6 DEF RecoveryInv
<1> QED
  BY <1>2, <1>3

LEMMA RecoveryRules ==
  ASSUME RecoveryInv, BaseInv', Administrate
  PROVE  RecoveryInv'
<1>1. CASE DeleteRule
  <2>1. BaseInv
    BY DEF RecoveryInv
  <2>2. PICK r \in Rules :
          /\ \A q \in Rules \ {r} : alert_states'[q] = alert_states[q] /\ told'[q] = told[q]
          /\ \A c \in Contexts : alert_states'[r][c] = Null /\ told'[r][c] = <<>>
          /\ \A o \in Operators : resolving'[o] # Null =>
                resolving'[o] = resolving[o] /\ resolving[o][1] # r
    BY <1>1, <2>1, DeleteEffect
  <2>3. ASSUME NEW q \in Rules, NEW e \in EventTypes, q # r
        PROVE  alert_states'[q][e] = alert_states[q][e] /\ told'[q][e] = told[q][e]
    <3>1. q \in Rules \ {r}
      BY <2>3
    <3> QED
      BY <2>2, <3>1, Zenon
  <2>4. \A e \in EventTypes : alert_states'[r][e] = Null /\ told'[r][e] = <<>>
    BY <2>2, Zenon DEF Contexts
  <2>5. FiringShown'
    BY <2>3, <2>4 DEF RecoveryInv, FiringShown, LastTold
  <2>6. ResolvesFiring'
    <3> SUFFICES ASSUME NEW o \in Operators, NEW q \in Rules, NEW e \in EventTypes,
                        resolving'[o] = <<q, e>>
                 PROVE  LastTold(q, e)'.state # "resolved"
      BY DEF ResolvesFiring
    <3>1. <<q, e>> # Null
      BY EvaluationConstants DEF Contexts
    <3>2. resolving'[o] = resolving[o] /\ resolving[o][1] # r
      BY <2>2, <3>1, Zenon
    <3>3. <<q, e>>[1] = q
      OBVIOUS
    <3>4. q # r /\ resolving[o] = <<q, e>>
      BY <3>2, <3>3, Zenon
    <3>5. LastTold(q, e).state # "resolved"
      BY <3>4 DEF RecoveryInv, ResolvesFiring
    <3> QED
      BY <2>3, <3>4, <3>5 DEF LastTold
  <2>7. \A q \in Rules, e \in EventTypes : RecoversOnce(told'[q][e])
    <3> SUFFICES ASSUME NEW q \in Rules, NEW e \in EventTypes PROVE RecoversOnce(told'[q][e])
      OBVIOUS
    <3>1. CASE q = r
      BY <2>4, <3>1, PairsEmpty DEF RecoversOnce
    <3>2. CASE q # r
      BY <2>3, <3>2 DEF RecoveryInv
    <3> QED
      BY <3>1, <3>2
  <2> QED
    BY <2>5, <2>6, <2>7 DEF RecoveryInv
<1>2. CASE UNCHANGED <<alert_states, told, resolving>>
  BY <1>2, RecoveryFrame
<1> QED
  BY <1>1, <1>2 DEF Administrate, CreateRule, PatchRule, ImportRule

LEMMA RecoveryInit == Init => RecoveryInv
<1> SUFFICES ASSUME Init PROVE RecoveryInv
  OBVIOUS
<1>1. \A r \in Rules, e \in EventTypes : alert_states[r][e] = Null /\ told[r][e] = <<>>
  BY DEF Init, Contexts
<1>2. \A o \in Operators, r \in Rules, e \in EventTypes : resolving[o] # <<r, e>>
  BY EvaluationConstants DEF Init, Contexts
<1> QED
  BY <1>1, <1>2, BaseInit, PairsEmpty
     DEF RecoveryInv, FiringShown, ResolvesFiring, RecoversOnce

LEMMA RecoveryStep == AtMostOneOperator /\ RecoveryInv /\ [Next]_vars => RecoveryInv'
<1> SUFFICES ASSUME AtMostOneOperator, RecoveryInv, [Next]_vars PROVE RecoveryInv'
  OBVIOUS
<1>1. BaseInv'
  BY BaseStep DEF RecoveryInv
<1>2. CASE UNCHANGED <<alert_states, told, resolving>>
  BY <1>1, <1>2, RecoveryFrame
<1>3. CASE Crash
  <2>1. UNCHANGED <<alert_states, told>> /\ resolving' = [o \in Operators |-> Null]
    BY <1>3 DEF Crash, tables
  <2>2. \A o \in Operators, r \in Rules, c \in Contexts : resolving'[o] # <<r, c>>
    BY <2>1, EvaluationConstants
  <2> QED
    BY <1>1, <2>1, <2>2, RecoveryFrame
<1>4. CASE CommitRule
  BY <1>1, <1>4, RecoveryCommit
<1>5. CASE \E o \in Operators : ResolveRead(o) \/ ResolveCommit(o)
  BY <1>1, <1>5, RecoveryResolves
<1>6. CASE Administrate
  BY <1>1, <1>6, RecoveryRules
<1>7. ASSUME \/ Tick \/ IngestEvent \/ RecalculateScores \/ IngestSample
             \/ ReadRules \/ (\E r \in Rules : ReadRule(r)) \/ EvaluationFails \/ EndEvaluation
             \/ UNCHANGED vars
      PROVE  UNCHANGED <<alert_states, told, resolving>>
  BY <1>7 DEF Tick, IngestEvent, RecalculateScores, IngestSample, ReadRules, ReadRule,
              EvaluationFails, EndEvaluation, vars, tables
<1> QED
  BY <1>2, <1>3, <1>4, <1>5, <1>6, <1>7 DEF Next, EvaluateAll

(* With one resolve in flight at a time, a recovery of an event type is      *)
(* never told twice in a row (resolve_event_score_manually), whatever the    *)
(* evaluator commits and the administrators change between its read and its  *)
(* write.  With two it is: neither UPDATE asks whether the row is firing.    *)
THEOREM RecoveriesFollow == AtMostOneOperator => (Spec => []RecoveryFollowsFiring)
<1>1. RecoveryInv => RecoveryFollowsFiring
  BY DEF RecoveryInv, RecoversOnce, Pairs, RecoveryFollowsFiring, Consecutive, Told
<1> SUFFICES ASSUME AtMostOneOperator PROVE Spec => []RecoveryFollowsFiring
  OBVIOUS
<1>2. RecoveryInv /\ [Next]_vars => RecoveryInv'
  BY RecoveryStep
<1> QED
  BY <1>1, <1>2, RecoveryInit, PTL DEF Spec

-----------------------------------------------------------------------------
(* Without manual resolves the notifications follow their order.           *)

\* Nobody writes an alert between the read and the commit of its evaluation.
LEMMA CommitInOrder ==
  ASSUME BaseInv, StatesRead, CommitRule, NEW c \in Contexts
  PROVE  /\ c \in Changed => /\ alert_states[evaluated][c] = states[c]
                             /\ alert_states'[evaluated][c] = NewRow(c) /\ NewRow(c) \in AlertState
         /\ c \notin Changed => /\ alert_states'[evaluated][c] = alert_states[evaluated][c]
                                /\ ~Tells(c)
         /\ Tells(c) => /\ told'[evaluated][c] = Append(told[evaluated][c], Message(c))
                        /\ Message(c) \in Notification /\ (TellsEvent(c) \/ TellsMetric(c))
         /\ ~Tells(c) => /\ told'[evaluated][c] = told[evaluated][c]
                         /\ c \in Changed => Updates(c)
<1>1. /\ evaluated \in Rules /\ pc = "evaluating"
      /\ Tells(c) => /\ told'[evaluated][c] = Append(told[evaluated][c], Message(c))
                     /\ Message(c) \in Notification
      /\ ~Tells(c) => told'[evaluated][c] = told[evaluated][c]
      /\ c \notin Changed => alert_states'[evaluated][c] = alert_states[evaluated][c]
      /\ c \in Changed /\ states[c] = Null => alert_states'[evaluated][c] = NewRow(c)
      /\ c \in Changed /\ states[c] # Null =>
            /\ states[c] \in AlertState /\ alert_states[evaluated][c] \in AlertState
            /\ alert_states'[evaluated][c] =
                  WriteChanged(states[c], NewRow(c), alert_states[evaluated][c])
  BY CommitEffect
<1>2. /\ Tells(c) => c \in Changed /\ (TellsEvent(c) \/ TellsMetric(c))
      /\ c \in Changed => NewRow(c) \in AlertState
      /\ c \in Changed /\ ~Tells(c) => Updates(c)
  BY <1>1, Decides, RowsDecided
<1>3. c \in Changed => alert_states[evaluated][c] = states[c]
  <2>1. states = alert_states[evaluated] \/ alert_states[evaluated][c] = Null
    BY <1>1 DEF StatesRead
  <2> QED
    BY <1>1, <2>1, EvaluationConstants
<1>4. c \in Changed => alert_states'[evaluated][c] = NewRow(c)
  BY <1>1, <1>2, <1>3, WritesRow
<1> QED
  BY <1>1, <1>2, <1>3, <1>4

\* What one more notification asks of the last one.
LEMMA OneMore ==
  ASSUME NEW q \in Seq(Notification), NEW x \in Notification
  PROVE  LET last == LatestIn(q)
         IN  /\ Alternates(q) /\ (q = <<>> => x.state = "firing")
                /\ (q # <<>> => /\ last.state # x.state
                                /\ x.state = "stale" => last.state = "firing")
                => Alternates(Append(q, x))
             /\ Spaced(q) /\ (q # <<>> /\ last.state = "firing" /\ x.state = "firing"
                                 => x.at - last.at >= Cooldown)
                => Spaced(Append(q, x))
             /\ Renews(q) /\ (q # <<>> /\ last.state = "firing" /\ x.state = "firing"
                                 => x.evidence > last.evidence)
                => Renews(Append(q, x))
             /\ LatestIn(Append(q, x)) = x /\ Append(q, x) # <<>>
<1> DEFINE a == Append(q, x)
           last == LatestIn(q)
<1>1. /\ \A p \in Pairs(a) : p \in Pairs(q) \/ (q # <<>> /\ p = <<last, x>>)
      /\ LatestIn(a) = x /\ a # <<>>
      /\ q # <<>> => a[1] = q[1]
      /\ q = <<>> => a[1] = x
  BY PairsAppend, AppendNotEmpty DEF LatestIn
<1> HIDE DEF a, last
<1>2. /\ <<last, x>>[1] = last
      /\ <<last, x>>[2] = x
  OBVIOUS
<1>3. ASSUME Alternates(q), q = <<>> => x.state = "firing",
             q # <<>> => last.state # x.state /\ (x.state = "stale" => last.state = "firing")
      PROVE  Alternates(a)
  BY <1>1, <1>2, <1>3 DEF Alternates
<1>4. ASSUME Spaced(q),
             q # <<>> /\ last.state = "firing" /\ x.state = "firing" => x.at - last.at >= Cooldown
      PROVE  Spaced(a)
  BY <1>1, <1>2, <1>4 DEF Spaced
<1>5. ASSUME Renews(q),
             q # <<>> /\ last.state = "firing" /\ x.state = "firing" => x.evidence > last.evidence
      PROVE  Renews(a)
  BY <1>1, <1>2, <1>5 DEF Renews
<1> QED
  BY <1>1, <1>3, <1>4, <1>5 DEF a, last

\* One context of the rule that commits.
LEMMA ContextInOrder ==
  ASSUME BaseInv, StatesRead, CommitRule, NEW c \in Contexts,
         Shows(alert_states[evaluated][c], told[evaluated][c])
  PROVE  /\ Shows(alert_states'[evaluated][c], told'[evaluated][c])
         /\ c \in Hosts /\ Alternates(told[evaluated][c]) => Alternates(told'[evaluated][c])
<1> DEFINE row == alert_states[evaluated][c]
           new == alert_states'[evaluated][c]
           q == told[evaluated][c]
           next == told'[evaluated][c]
           said == Message(c)
<1>1. /\ c \in Changed => row = states[c] /\ new = NewRow(c) /\ NewRow(c) \in AlertState
      /\ c \notin Changed => new = row /\ ~Tells(c)
      /\ Tells(c) => /\ next = Append(q, said) /\ said \in Notification
                     /\ TellsEvent(c) \/ TellsMetric(c)
      /\ ~Tells(c) => next = q /\ (c \in Changed => Updates(c))
  BY CommitInOrder
<1>2. /\ q \in Seq(Notification) /\ said.state = NewRow(c).state
      /\ c \in Hosts /\ IsEventRule => found[c] \notin Nat
      /\ Shows(row, q)
  <2>1. pc = "evaluating"
    BY DEF CommitRule
  <2>2. evaluated \in Rules /\ (IsEventRule => \A h \in Hosts : found[h] = Null)
    BY <2>1, Evaluating
  <2>3. told \in [Rules -> [Contexts -> Seq(Notification)]]
    BY DEF BaseInv, TypeOK
  <2> QED
    BY <2>2, <2>3, EvaluationConstants DEF Message
<1> HIDE DEF row, new, q, next, said
<1>3. CASE Tells(c)
  <2>1. /\ next # <<>> /\ LatestIn(next) = said /\ new = NewRow(c) /\ new \in AlertState
        /\ row = states[c]
    BY <1>1, <1>2, <1>3, OneMore
  <2>2. Shows(new, next)
    BY <1>2, <2>1, EvaluationConstants DEF Shows, LatestIn
  <2>3. ASSUME c \in Hosts, Alternates(q) PROVE Alternates(next)
    <3>1. TellsMetric(c)
      BY <1>1, <1>2, <1>3, <2>3 DEF TellsEvent
    <3>2. /\ q = <<>> => said.state = "firing"
          /\ q # <<>> => /\ LatestIn(q).state # said.state
                         /\ said.state = "stale" => LatestIn(q).state = "firing"
      BY <1>2, <2>1, <3>1 DEF TellsMetric, Shows, LatestIn
    <3> QED
      BY <1>1, <1>2, <1>3, <2>3, <3>2, OneMore
  <2> QED
    BY <2>2, <2>3 DEF new, next, q
<1>4. CASE ~Tells(c)
  <2>1. next = q
    BY <1>1, <1>4
  <2>2. new = row \/ (row # Null /\ new # Null /\ new.state = row.state)
    <3>1. CASE c \notin Changed
      BY <1>1, <3>1
    <3>2. CASE c \in Changed
      <4>1. /\ row \in AlertState /\ new \in AlertState
            /\ new = [row EXCEPT !.fired_at = found[c]]
        BY <1>1, <1>4, <3>2 DEF Updates
      <4>2. new.state = row.state
        BY <4>1 DEF AlertState
      <4> QED
        BY <4>1, <4>2, EvaluationConstants
    <3> QED
      BY <3>1, <3>2
  <2>3. Shows(new, next)
    BY <1>2, <2>1, <2>2 DEF Shows
  <2> QED
    BY <2>1, <2>3 DEF new, next, q
<1> QED
  BY <1>3, <1>4

\* One event type of the rule that commits.
LEMMA EventInOrder ==
  ASSUME BaseInv, StatesRead, FiringNotified, CommitRule, NEW e \in EventTypes,
         Shows(alert_states[evaluated][e], told[evaluated][e])
  PROVE  LET row  == alert_states[evaluated][e]
             new  == alert_states'[evaluated][e]
             q    == told[evaluated][e]
             next == told'[evaluated][e]
         IN  /\ new # Null /\ new.state = "firing" => new.last_notified_at = LatestIn(next).at
             /\ Spaced(q) => Spaced(next)
             /\ edits = 0 /\ Unedited =>
                   /\ Renews(next)
                   /\ new # Null => /\ alert_rules[evaluated] # Null
                                    /\ Covered(evaluated, e, new.fired_at)
                                    /\ LatestIn(next).evidence <= new.fired_at
<1> DEFINE row == alert_states[evaluated][e]
           new == alert_states'[evaluated][e]
           q == told[evaluated][e]
           next == told'[evaluated][e]
           said == Message(e)
           last == LatestIn(q)
           covered(t) == Covered(evaluated, e, t)
           rule == alert_rules[evaluated]
<1>1. e \in Contexts /\ evaluated \in Rules /\ pc = "evaluating"
  BY CommitEffect DEF Contexts
<1>2. /\ e \in Changed => row = states[e] /\ new = NewRow(e) /\ NewRow(e) \in AlertState
      /\ e \notin Changed => new = row /\ ~Tells(e)
      /\ Tells(e) => /\ next = Append(q, said) /\ said \in Notification
                     /\ TellsEvent(e) \/ TellsMetric(e)
      /\ ~Tells(e) => next = q /\ (e \in Changed => Updates(e))
  BY <1>1, CommitInOrder
<1>3. /\ q \in Seq(Notification) /\ row \in AlertState \cup {Null}
      /\ said = [state |-> NewRow(e).state, at |-> started, evidence |-> NewRow(e).fired_at]
      /\ ~IsEventRule => found[e] = Null
      /\ Shows(row, q) /\ rule # Null /\ started \in Nat /\ Null \notin AlertState /\ Null \notin Nat
      /\ row # Null /\ row.state = "firing" => row.last_notified_at = last.at
  <2>1. ~IsEventRule => found[e] = Null
    BY <1>1, Evaluating
  <2>2. q \in Seq(Notification) /\ row \in AlertState \cup {Null} /\ started \in Nat
    BY <1>1 DEF BaseInv, TypeOK
  <2>3. row # Null /\ row.state = "firing" => row.last_notified_at = last.at
    BY <1>1 DEF FiringNotified, LastTold, LatestIn
  <2> QED
    BY <2>1, <2>2, <2>3, EvaluationConstants DEF CommitRule, Writable, Message
<1>4. Unedited =>
        /\ Renews(q)
        /\ row # Null => covered(row.fired_at) /\ last.evidence <= row.fired_at
        /\ IsEventRule /\ found[e] # Null =>
              covered(found[e]) /\ (states[e] # Null => states[e].fired_at <= found[e])
  BY <1>1 DEF Unedited, AlertsCovered, FoundCovered, LastTold, LatestIn
<1>5. q # <<>> => last \in Notification
  <2>1. q # <<>> => Len(q) \in Nat \ {0}
    BY <1>3, EmptySeq, LenProperties, Zenon
  <2> QED
    BY <1>3, <2>1 DEF LatestIn
<1> HIDE DEF row, new, q, next, said, last, covered, rule
<1> SUFFICES /\ new # Null /\ new.state = "firing" => new.last_notified_at = LatestIn(next).at
             /\ Spaced(q) => Spaced(next)
             /\ Unedited =>
                   /\ Renews(next)
                   /\ new # Null => /\ rule # Null /\ covered(new.fired_at)
                                    /\ LatestIn(next).evidence <= new.fired_at
  BY DEF row, new, q, next, covered, rule
<1>6. CASE Tells(e) /\ TellsEvent(e)
  <2>1. /\ new = [state |-> "firing", fired_at |-> found[e], resolved_at |-> Null,
                  last_notified_at |-> started]
        /\ found[e] \in Nat /\ IsEventRule /\ row = states[e]
        /\ next = Append(q, said) /\ said \in Notification
    BY <1>2, <1>6 DEF TellsEvent
  <2>2. said = [state |-> "firing", at |-> started, evidence |-> found[e]]
    BY <1>3, <1>6 DEF TellsEvent
  <2>3. LatestIn(next) = said /\ new.last_notified_at = LatestIn(next).at
    <3>1. LatestIn(next) = said
      BY <1>3, <2>1, OneMore
    <3>2. new.last_notified_at = started /\ said.at = started
      BY <2>1, <2>2
    <3> QED
      BY <3>1, <3>2
  <2>4. q # <<>> /\ last.state = "firing" =>
          /\ row # Null /\ row.state = "firing" /\ row.last_notified_at = last.at
          /\ last.at \in Nat /\ last.at # Null
    <3>1. q # <<>> => last.at \in Nat
      BY <1>5 DEF Notification
    <3>2. q # <<>> => row # Null /\ last.state = row.state
      BY <1>3 DEF Shows, last, LatestIn
    <3> QED
      BY <1>3, <3>1, <3>2
  <2>5. q # <<>> /\ last.state = "firing" =>
          found[e] > row.fired_at /\ started - last.at >= Cooldown
    BY <1>6, <2>1, <2>4 DEF TellsEvent
  <2>6. Spaced(q) => Spaced(next)
    <3>1. q # <<>> /\ last.state = "firing" /\ said.state = "firing" => said.at - last.at >= Cooldown
      BY <2>2, <2>5
    <3> QED
      BY <1>3, <2>1, <3>1, OneMore DEF last
  <2>7. ASSUME Unedited
        PROVE  /\ Renews(next) /\ covered(new.fired_at)
               /\ LatestIn(next).evidence <= new.fired_at
    <3>1. new.fired_at = found[e] /\ said.evidence = found[e]
      BY <2>1, <2>2
    <3>2. covered(new.fired_at) /\ LatestIn(next).evidence <= new.fired_at
      BY <1>3, <1>4, <2>1, <2>3, <2>7, <3>1
    <3>3. q # <<>> /\ last.state = "firing" /\ said.state = "firing" => said.evidence > last.evidence
      <4>1. q # <<>> => last.evidence \in Nat
        BY <1>5 DEF Notification
      <4>2. row # Null => row.fired_at \in Nat
        BY <1>3 DEF AlertState
      <4> QED
        BY <1>4, <2>1, <2>4, <2>5, <2>7, <3>1, <4>1, <4>2
    <3>4. Renews(next)
      BY <1>3, <1>4, <2>1, <2>7, <3>3, OneMore DEF last
    <3> QED
      BY <3>2, <3>4
  <2> QED
    BY <1>3, <2>3, <2>6, <2>7
<1>7. CASE Tells(e) /\ TellsMetric(e)
  <2>1. /\ said.state = "stale" /\ new.state = "stale" /\ row # Null /\ new.fired_at = row.fired_at
        /\ next = Append(q, said) /\ said \in Notification /\ said.evidence = row.fired_at
        /\ new \in AlertState
    BY <1>2, <1>3, <1>7 DEF TellsMetric
  <2>2. LatestIn(next) = said
    BY <1>3, <2>1, OneMore
  <2>3. (Spaced(q) => Spaced(next)) /\ (Renews(q) => Renews(next))
    BY <1>3, <2>1, OneMore
  <2>4. row.fired_at \in Nat
    BY <1>3, <2>1 DEF AlertState
  <2> QED
    BY <1>3, <1>4, <2>1, <2>2, <2>3, <2>4
<1>8. CASE ~Tells(e)
  <2>1. next = q
    BY <1>2, <1>8
  <2>2. CASE new = row
    <3>1. new # Null => Shows(row, q)
      BY <1>3
    <3> QED
      BY <1>3, <1>4, <2>1, <2>2 DEF last
  <2>3. CASE new # row
    <3>1. /\ row \in AlertState /\ row.state = "firing" /\ IsEventRule /\ found[e] \in Nat
          /\ new = [row EXCEPT !.fired_at = found[e]] /\ row = states[e]
      BY <1>2, <1>8, <2>3 DEF Updates
    <3>2. new.fired_at = found[e] /\ new.last_notified_at = row.last_notified_at
      BY <3>1 DEF AlertState
    <3>3. new.last_notified_at = LatestIn(next).at
      BY <1>3, <2>1, <3>1, <3>2 DEF last
    <3>4. ASSUME Unedited
          PROVE  covered(new.fired_at) /\ LatestIn(next).evidence <= new.fired_at
      <4>1. /\ covered(found[e]) /\ row.fired_at <= found[e]
            /\ last.evidence <= row.fired_at
        BY <1>3, <1>4, <3>1, <3>4
      <4>2. row.fired_at \in Nat /\ last.evidence \in Nat
        <5>1. q # <<>>
          BY <1>3, <3>1 DEF Shows
        <5> QED
          BY <1>5, <3>1, <5>1 DEF AlertState, Notification
      <4> QED
        BY <2>1, <3>1, <3>2, <4>1, <4>2 DEF last
    <3> QED
      BY <1>3, <1>4, <2>1, <3>3, <3>4
  <2> QED
    BY <2>2, <2>3
<1> QED
  BY <1>2, <1>6, <1>7, <1>8

LEMMA OrderCommit ==
  ASSUME OrderInv, CommitRule, BaseInv'
  PROVE  OrderInv'
<1>1. BaseInv /\ StatesRead /\ FiringNotified /\ InOrder
  BY DEF OrderInv
<1>2. /\ evaluated \in Rules /\ pc' = "loop" /\ pc = "evaluating"
      /\ UNCHANGED <<rules, alert_rules, event_records, score_delta, edits>>
      /\ \A r \in Rules \ {evaluated} : alert_states'[r] = alert_states[r] /\ told'[r] = told[r]
  BY <1>1, CommitEffect DEF CommitRule, RuleDone, inputs
<1>3. ASSUME NEW c \in Contexts
      PROVE  /\ Shows(alert_states'[evaluated][c], told'[evaluated][c])
             /\ c \in Hosts => Alternates(told'[evaluated][c])
  BY <1>1, <1>2, ContextInOrder DEF InOrder
<1>4. ASSUME NEW e \in EventTypes
      PROVE  /\ alert_states'[evaluated][e] # Null /\ alert_states'[evaluated][e].state = "firing"
                    => alert_states'[evaluated][e].last_notified_at = LatestIn(told'[evaluated][e]).at
             /\ Spaced(told'[evaluated][e])
             /\ edits = 0 =>
                   /\ Renews(told'[evaluated][e])
                   /\ alert_states'[evaluated][e] # Null =>
                         /\ alert_rules[evaluated] # Null
                         /\ Covered(evaluated, e, alert_states'[evaluated][e].fired_at)
                         /\ LatestIn(told'[evaluated][e]).evidence
                               <= alert_states'[evaluated][e].fired_at
  <2>1. /\ Shows(alert_states[evaluated][e], told[evaluated][e]) /\ Spaced(told[evaluated][e])
        /\ edits = 0 => Unedited
    BY <1>1, <1>2 DEF InOrder, OrderInv, Contexts
  <2> QED
    BY <1>1, <2>1, EventInOrder
<1>5. StatesRead'
  BY <1>2 DEF StatesRead
<1>6. FiringNotified'
  <2> SUFFICES ASSUME NEW r \in Rules, NEW e \in EventTypes,
                      alert_states'[r][e] # Null /\ alert_states'[r][e].state = "firing"
               PROVE  alert_states'[r][e].last_notified_at = LastTold(r, e)'.at
    BY DEF FiringNotified
  <2>1. CASE r = evaluated
    BY <1>4, <2>1 DEF LastTold, LatestIn
  <2>2. CASE r # evaluated
    BY <1>1, <1>2, <2>2 DEF FiringNotified, LastTold
  <2> QED
    BY <2>1, <2>2
<1>7. InOrder'
  <2>1. ASSUME NEW r \in Rules, NEW c \in Contexts
        PROVE  /\ Shows(alert_states'[r][c], told'[r][c])
               /\ c \in Hosts => Alternates(told'[r][c])
               /\ c \in EventTypes => Spaced(told'[r][c])
    <3>1. CASE r = evaluated
      BY <1>3, <1>4, <3>1
    <3>2. CASE r # evaluated
      <4>1. alert_states'[r] = alert_states[r] /\ told'[r] = told[r]
        BY <1>2, <3>2
      <4> QED
        BY <1>1, <4>1 DEF InOrder
    <3> QED
      BY <3>1, <3>2
  <2> QED
    BY <2>1 DEF InOrder, Contexts
<1>8. ASSUME edits' = 0 PROVE Unedited'
  <2>1. edits = 0 /\ Unedited
    BY <1>2, <1>8 DEF OrderInv
  <2>2. RulesRead' /\ FoundCovered'
    BY <1>2, <2>1 DEF Unedited, RulesRead, FoundCovered
  <2>3. ASSUME NEW r \in Rules, NEW e \in EventTypes
        PROVE  /\ Renews(told'[r][e])
               /\ alert_states'[r][e] # Null =>
                     /\ alert_rules[r] # Null /\ Covered(r, e, alert_states'[r][e].fired_at)
                     /\ LatestIn(told'[r][e]).evidence <= alert_states'[r][e].fired_at
    <3>1. CASE r = evaluated
      BY <1>4, <2>1, <3>1
    <3>2. CASE r # evaluated
      <4>1. alert_states'[r] = alert_states[r] /\ told'[r] = told[r]
        BY <1>2, <3>2
      <4> QED
        BY <2>1, <4>1 DEF Unedited, AlertsCovered, LastTold, LatestIn
    <3> QED
      BY <3>1, <3>2
  <2>4. AlertsCovered'
    BY <1>2, <2>3 DEF AlertsCovered, Covered, LastTold, LatestIn
  <2> QED
    BY <2>2, <2>3, <2>4 DEF Unedited
<1> QED
  BY <1>5, <1>6, <1>7, <1>8 DEF OrderInv

\* What a rule's transaction finds is the newest event its rule is about,
\* if that is in the window, and otherwise nothing.
LEMMA FindsCovered ==
  ASSUME OrderInv, edits = 0, NEW r \in Rules, ReadRule(r)
  PROVE  FoundCovered'
<1>1. BaseInv /\ RulesRead /\ AlertsCovered
  BY DEF OrderInv, Unedited
<1>2. /\ pc = "loop" /\ evaluated' = r /\ states' = alert_states[r]
      /\ UNCHANGED <<rules, alert_rules, event_records, score_delta, now>>
      /\ rules[r].rule_type = "event_score" => found' = LatestQualifying(rules[r].threshold)
  BY DEF ReadRule, inputs, tables
<1> SUFFICES ASSUME rules[r].rule_type = "event_score", NEW e \in EventTypes, found'[e] # Null
             PROVE  /\ Covered(r, e, found'[e])
                    /\ alert_states[r][e] # Null => alert_states[r][e].fired_at <= found'[e]
  BY <1>2 DEF FoundCovered, IsEventRule, Covered
<1> DEFINE threshold == rules[r].threshold
           times == Qualifying(e, threshold)
           latest == found'[e]
           delta == score_delta[e]
<1>3. rules = alert_rules
  BY <1>1, <1>2 DEF RulesRead
<1>4. times # {} /\ latest = LatestOf(times)
  BY <1>2 DEF LatestQualifying, Contexts
<1>5. latest \in Nat /\ latest \in times /\ \A t \in times : t \in Nat /\ t <= latest
  BY <1>1, <1>4, LatestQualifies
<1>6. \A t : t \in times <=>
         /\ \E s \in Levels : s + delta >= threshold /\ t = event_records[<<e, s>>]
         /\ t # Null /\ t >= now - Lookback
  BY DEF Qualifying
<1>7. /\ now \in Nat /\ Lookback \in Nat
      /\ \A s \in Levels : event_records[<<e, s>>] \in Nat \cup {Null}
      /\ alert_states[r][e] # Null => alert_states[r][e].fired_at \in Nat
  <2>1. alert_states[r][e] \in AlertState \cup {Null}
    BY <1>1 DEF BaseInv, TypeOK, Contexts
  <2> QED
    BY <1>1, <2>1, EvaluationConstants DEF BaseInv, TypeOK, AlertState
<1>8. \A t : Covered(r, e, t) <=>
         \E s \in Levels : /\ s + delta >= threshold
                           /\ event_records[<<e, s>>] # Null /\ event_records[<<e, s>>] >= t
  BY <1>3 DEF Covered, StoredSince
<1>9. alert_states[r][e] # Null => Covered(r, e, alert_states[r][e].fired_at)
  BY <1>1 DEF AlertsCovered
<1> HIDE DEF times, latest, delta, threshold
<1>10. Covered(r, e, latest)
  <2>1. PICK s \in Levels : s + delta >= threshold /\ latest = event_records[<<e, s>>]
    BY <1>5, <1>6
  <2> QED
    BY <1>5, <1>7, <1>8, <2>1, EvaluationConstants
<1>11. ASSUME alert_states[r][e] # Null PROVE alert_states[r][e].fired_at <= latest
  <2> DEFINE fired == alert_states[r][e].fired_at
  <2>1. PICK s \in Levels : /\ s + delta >= threshold
                            /\ event_records[<<e, s>>] # Null /\ event_records[<<e, s>>] >= fired
    BY <1>8, <1>9, <1>11
  <2> DEFINE stored == event_records[<<e, s>>]
  <2>2. stored \in Nat /\ fired \in Nat /\ stored >= fired
    BY <1>7, <1>11, <2>1
  <2>3. stored >= now - Lookback => stored \in times
    BY <1>6, <2>1
  <2>4. latest >= now - Lookback
    BY <1>5, <1>6
  <2> HIDE DEF stored, fired
  <2>5. CASE stored >= now - Lookback
    <3>1. stored <= latest
      BY <1>5, <2>3, <2>5
    <3> QED
      BY <1>5, <2>2, <3>1 DEF fired
  <2>6. CASE ~(stored >= now - Lookback)
    BY <1>5, <1>7, <2>2, <2>4, <2>6 DEF fired
  <2> QED
    BY <2>5, <2>6
<1> QED
  BY <1>10, <1>11 DEF latest

\* Stored events only grow newer, and nothing told is written.
LEMMA OrderFrame ==
  ASSUME OrderInv, BaseInv', UNCHANGED <<tables, edits>>, UNCHANGED score_delta \/ edits' # 0,
         StatesRead', edits' = 0 => RulesRead' /\ FoundCovered',
         \A p \in EventTypes \X Levels :
            event_records[p] # Null => /\ event_records'[p] # Null
                                       /\ event_records'[p] >= event_records[p]
  PROVE  OrderInv'
<1>1. FiringNotified'
  BY DEF OrderInv, FiringNotified, LastTold, tables
<1>2. InOrder'
  BY DEF OrderInv, InOrder, tables
<1>3. ASSUME edits' = 0 PROVE Unedited'
  <2>1. /\ Unedited /\ UNCHANGED <<score_delta, alert_rules, alert_states, told>>
        /\ RulesRead' /\ FoundCovered'
    BY <1>3 DEF OrderInv, tables
  <2>2. ASSUME NEW r \in Rules, NEW e \in EventTypes, alert_states[r][e] # Null
        PROVE  Covered(r, e, alert_states[r][e].fired_at)'
    <3> DEFINE fired == alert_states[r][e].fired_at
    <3>1. PICK s \in Levels : /\ s + score_delta[e] >= alert_rules[r].threshold
                              /\ event_records[<<e, s>>] # Null /\ event_records[<<e, s>>] >= fired
      BY <2>1, <2>2 DEF Unedited, AlertsCovered, Covered, StoredSince
    <3>2. event_records'[<<e, s>>] # Null /\ event_records'[<<e, s>>] >= event_records[<<e, s>>]
      BY <3>1
    <3>3. fired \in Nat /\ event_records[<<e, s>>] \in Int /\ event_records'[<<e, s>>] \in Int
      <4>1. alert_states[r][e] \in AlertState /\ <<e, s>> \in EventTypes \X Levels
        BY <2>2 DEF OrderInv, BaseInv, TypeOK, Contexts
      <4>2. /\ event_records \in [EventTypes \X Levels -> Nat \cup {Null}]
            /\ event_records' \in [EventTypes \X Levels -> Nat \cup {Null}]
        BY DEF OrderInv, BaseInv, TypeOK
      <4> QED
        BY <3>1, <3>2, <4>1, <4>2 DEF AlertState
    <3> DEFINE older == event_records[<<e, s>>]
               newer == event_records'[<<e, s>>]
    <3>4. newer # Null /\ newer >= fired
      <4>1. newer \in Int /\ older \in Int /\ fired \in Int /\ newer >= older /\ older >= fired
        BY <3>1, <3>2, <3>3
      <4> HIDE DEF newer, older, fired
      <4> QED
        BY <3>2, <4>1 DEF newer
    <3>5. StoredSince(event_records', score_delta[e], alert_rules[r].threshold, e, fired)
      BY <3>1, <3>4 DEF StoredSince
    <3> QED
      BY <2>1, <3>5 DEF Covered
  <2>3. AlertsCovered'
    BY <2>1, <2>2 DEF Unedited, AlertsCovered, LastTold
  <2> QED
    BY <2>1, <2>3 DEF Unedited
<1> QED
  BY <1>1, <1>2, <1>3 DEF OrderInv

\* New events, samples and scores.
LEMMA OrderInputs ==
  ASSUME OrderInv, BaseInv', Tick \/ IngestEvent \/ RecalculateScores \/ IngestSample
  PROVE  OrderInv'
<1>1. UNCHANGED <<tables, job>> /\ edits \in Nat
  BY DEF Tick, IngestEvent, RecalculateScores, IngestSample, OrderInv, BaseInv, TypeOK
<1>2. StatesRead'
  BY <1>1 DEF OrderInv, StatesRead, tables, job
<1>3. CASE RecalculateScores
  <2>1. edits' = edits + 1 /\ edits' # 0
    BY <1>1, <1>3 DEF RecalculateScores
  <2>2. FiringNotified' /\ InOrder'
    BY <1>1 DEF OrderInv, FiringNotified, InOrder, LastTold, tables
  <2> QED
    BY <1>2, <2>1, <2>2 DEF OrderInv
<1>4. CASE Tick \/ IngestEvent \/ IngestSample
  <2>1. UNCHANGED <<edits, score_delta>>
    BY <1>4 DEF Tick, IngestEvent, IngestSample, inputs
  <2>2. /\ event_records \in [EventTypes \X Levels -> Nat \cup {Null}]
        /\ event_records' \in [EventTypes \X Levels -> Nat \cup {Null}]
    BY DEF OrderInv, BaseInv, TypeOK
  <2>3. \A p \in EventTypes \X Levels :
           event_records[p] # Null => /\ event_records'[p] # Null
                                      /\ event_records'[p] >= event_records[p]
    <3>1. CASE UNCHANGED event_records
      BY <2>2, <3>1
    <3>2. CASE IngestEvent
      <4>1. PICK e \in EventTypes, s \in Levels, t \in 0 .. now :
               /\ event_records[<<e, s>>] # Null => event_records[<<e, s>>] < t
               /\ event_records' = [event_records EXCEPT ![<<e, s>>] = t]
        BY <3>2 DEF IngestEvent
      <4>2. now \in Nat
        BY DEF OrderInv, BaseInv, TypeOK
      <4>3. t \in Nat
        BY <4>2
      <4> QED
        BY <2>2, <4>1, <4>3, EvaluationConstants
    <3> QED
      BY <1>4, <3>1, <3>2 DEF Tick, IngestSample, inputs
  <2>4. ASSUME edits' = 0 PROVE RulesRead' /\ FoundCovered'
    <3>1. /\ Unedited /\ UNCHANGED <<score_delta, alert_rules, pc, rules, evaluated, found, states>>
      BY <1>1, <2>1, <2>4 DEF OrderInv, tables, job
    <3>2. RulesRead'
      BY <3>1 DEF Unedited, RulesRead
    <3>3. ASSUME NEW r \in Rules, NEW e \in EventTypes, NEW t \in Nat, Covered(r, e, t)
          PROVE  StoredSince(event_records', score_delta[e], alert_rules[r].threshold, e, t)
      <4>1. PICK s \in Levels : /\ s + score_delta[e] >= alert_rules[r].threshold
                                /\ event_records[<<e, s>>] # Null /\ event_records[<<e, s>>] >= t
        BY <3>3 DEF Covered, StoredSince
      <4> DEFINE older == event_records[<<e, s>>]
                 newer == event_records'[<<e, s>>]
      <4>2. newer # Null /\ newer >= older /\ older \in Nat /\ newer \in Nat /\ older >= t
        BY <2>2, <2>3, <4>1
      <4> HIDE DEF newer, older
      <4>3. newer # Null /\ newer >= t
        BY <4>2
      <4> QED
        BY <4>1, <4>3 DEF newer, StoredSince
    <3>4. FoundCovered'
      <4> SUFFICES ASSUME pc = "evaluating", IsEventRule, NEW e \in EventTypes, found[e] # Null
                   PROVE  /\ StoredSince(event_records', score_delta[e],
                                         alert_rules[evaluated].threshold, e, found[e])
                          /\ states[e] # Null => states[e].fired_at <= found[e]
        BY <3>1 DEF FoundCovered, IsEventRule, Covered
      <4>1. evaluated \in Rules /\ found[e] \in Nat
        BY Evaluating DEF OrderInv, Contexts
      <4>2. Covered(evaluated, e, found[e]) /\ (states[e] # Null => states[e].fired_at <= found[e])
        BY <3>1 DEF Unedited, FoundCovered
      <4> QED
        BY <3>3, <4>1, <4>2
    <3> QED
      BY <3>2, <3>4
  <2> QED
    BY <1>1, <1>2, <2>1, <2>3, <2>4, OrderFrame
<1> QED
  BY <1>3, <1>4

\* A cycle begins, reads, ends or dies.
LEMMA OrderCycles ==
  ASSUME OrderInv, BaseInv',
         \/ ReadRules \/ (\E r \in Rules : ReadRule(r)) \/ EvaluationFails \/ EndEvaluation
         \/ Crash \/ UNCHANGED vars
  PROVE  OrderInv'
<1>1. UNCHANGED <<now, inputs, tables, edits>>
  BY DEF ReadRules, ReadRule, EvaluationFails, EndEvaluation, Crash, vars
<1>2. \A p \in EventTypes \X Levels :
         event_records[p] # Null => /\ event_records'[p] # Null
                                    /\ event_records'[p] >= event_records[p]
  BY <1>1 DEF OrderInv, BaseInv, TypeOK, inputs
<1>3. StatesRead' /\ (edits' = 0 => RulesRead' /\ FoundCovered')
  <2>1. CASE ReadRules \/ EvaluationFails \/ EndEvaluation \/ Crash
    <3>1. /\ pc' \in {"idle", "loop"}
          /\ pc' # "idle" => rules' = alert_rules \/ (UNCHANGED rules /\ pc # "idle")
      BY <2>1 DEF ReadRules, EvaluationFails, EndEvaluation, Crash, RuleDone
    <3> QED
      BY <1>1, <3>1 DEF OrderInv, Unedited, StatesRead, RulesRead, FoundCovered, tables
  <2>2. CASE \E r \in Rules : ReadRule(r)
    <3>1. PICK r \in Rules : ReadRule(r)
      BY <2>2
    <3>2. StatesRead'
      BY <1>1, <3>1 DEF ReadRule, StatesRead, tables
    <3>3. ASSUME edits' = 0 PROVE RulesRead' /\ FoundCovered'
      <4>1. RulesRead'
        BY <1>1, <3>1, <3>3 DEF OrderInv, Unedited, RulesRead, ReadRule, tables
      <4>2. FoundCovered'
        BY <1>1, <3>1, <3>3, FindsCovered
      <4> QED
        BY <4>1, <4>2
    <3> QED
      BY <3>2, <3>3
  <2>3. CASE UNCHANGED vars
    BY <2>3 DEF OrderInv, Unedited, StatesRead, RulesRead, FoundCovered, Covered, IsEventRule,
                vars, tables, inputs, job
  <2> QED
    BY <2>1, <2>2, <2>3
<1> QED
  BY <1>1, <1>2, <1>3, OrderFrame DEF inputs

\* An edit changes no alert; a deletion takes all of a rule's.
LEMMA OrderRules ==
  ASSUME OrderInv, BaseInv', Administrate
  PROVE  OrderInv'
<1>1. edits' # 0 /\ UNCHANGED job
  <2>1. PICK r \in Rules, row \in AlertRule \cup {Null} : ChangeRule(r, row)
    BY DEF Administrate, CreateRule, PatchRule, ImportRule, DeleteRule
  <2>2. edits' = edits + 1 /\ edits \in Nat
    BY <2>1 DEF ChangeRule, OrderInv, BaseInv, TypeOK
  <2> QED
    BY <2>1, <2>2 DEF ChangeRule
<1>2. CASE UNCHANGED <<alert_states, told>>
  BY <1>1, <1>2 DEF OrderInv, StatesRead, FiringNotified, InOrder, LastTold, job
<1>3. CASE DeleteRule
  <2>1. PICK r \in Rules :
          /\ \A q \in Rules \ {r} : alert_states'[q] = alert_states[q] /\ told'[q] = told[q]
          /\ \A c \in Contexts : alert_states'[r][c] = Null /\ told'[r][c] = <<>>
    BY <1>3, DeleteEffect DEF OrderInv
  <2>2. StatesRead'
    <3> SUFFICES ASSUME pc = "evaluating"
                 PROVE  \/ states = alert_states'[evaluated]
                        \/ \A c \in Contexts : alert_states'[evaluated][c] = Null
      BY <1>1 DEF StatesRead, job
    <3>1. evaluated \in Rules
      BY Evaluating DEF OrderInv
    <3>2. CASE evaluated = r
      BY <2>1, <3>2
    <3>3. CASE evaluated # r
      <4>1. alert_states'[evaluated] = alert_states[evaluated]
        BY <2>1, <3>1, <3>3
      <4> QED
        BY <4>1 DEF OrderInv, StatesRead
    <3> QED
      BY <3>2, <3>3
  <2>3. ASSUME NEW q \in Rules, NEW c \in Contexts
        PROVE  \/ alert_states'[q] = alert_states[q] /\ told'[q] = told[q]
               \/ alert_states'[q][c] = Null /\ told'[q][c] = <<>>
    BY <2>1
  <2>4. FiringNotified'
    BY <2>3 DEF OrderInv, FiringNotified, LastTold, Contexts
  <2>5. Shows(Null, <<>>) /\ Alternates(<<>>) /\ Spaced(<<>>)
    BY PairsEmpty DEF Shows, Alternates, Spaced
  <2>6. InOrder'
    <3>1. ASSUME NEW q \in Rules, NEW c \in Contexts
          PROVE  /\ Shows(alert_states'[q][c], told'[q][c])
                 /\ c \in Hosts => Alternates(told'[q][c])
                 /\ c \in EventTypes => Spaced(told'[q][c])
      BY <2>3, <2>5 DEF OrderInv, InOrder
    <3> QED
      BY <3>1 DEF InOrder, Contexts
  <2> QED
    BY <1>1, <2>2, <2>4, <2>6 DEF OrderInv
<1> QED
  BY <1>2, <1>3 DEF Administrate, CreateRule, PatchRule, ImportRule

LEMMA OrderInit == Init => OrderInv
<1> SUFFICES ASSUME Init PROVE OrderInv
  OBVIOUS
<1>1. \A r \in Rules, c \in Contexts : alert_states[r][c] = Null /\ told[r][c] = <<>>
  BY DEF Init
<1>2. Shows(Null, <<>>) /\ Alternates(<<>>) /\ Spaced(<<>>) /\ Renews(<<>>)
  BY PairsEmpty DEF Shows, Alternates, Spaced, Renews
<1>3. InOrder /\ \A r \in Rules, e \in EventTypes : Renews(told[r][e])
  BY <1>1, <1>2 DEF InOrder, Contexts
<1>4. StatesRead /\ RulesRead /\ FoundCovered
  BY DEF Init, StatesRead, RulesRead, FoundCovered
<1>5. FiringNotified /\ AlertsCovered
  BY <1>1 DEF FiringNotified, AlertsCovered, Contexts
<1> QED
  BY <1>3, <1>4, <1>5, BaseInit DEF OrderInv, Unedited

LEMMA OrderStep == Operators = {} /\ OrderInv /\ [Next]_vars => OrderInv'
<1> SUFFICES ASSUME Operators = {}, OrderInv, [Next]_vars PROVE OrderInv'
  OBVIOUS
<1>1. BaseInv'
  BY BaseStep DEF OrderInv
<1> QED
  BY <1>1, OrderInputs, OrderCycles, OrderCommit, OrderRules DEF Next, EvaluateAll

(* While no alert is resolved by hand, whatever the administrators edit,     *)
(* import and delete, whatever comes late or fails: an alert shows what was  *)
(* told last, a metric context is never told the same state twice and goes   *)
(* stale only from firing, two firings of an event type are the              *)
(* renotification interval apart, and without edits the second of them is    *)
(* about a later event.                                                      *)
THEOREM NotificationsInOrder == Operators = {} => (Spec => []ToldInOrder)
<1>1. OrderInv => ToldInOrder
  <2> SUFFICES ASSUME OrderInv PROVE ToldInOrder
    OBVIOUS
  <2>1. StateIsLastTold
    BY DEF OrderInv, InOrder, Shows, StateIsLastTold, Told
  <2>2. MetricAlternates
    BY DEF OrderInv, InOrder, Alternates, Pairs, MetricAlternates, Told, Consecutive
  <2>3. CooldownRespected
    BY DEF OrderInv, InOrder, Spaced, Pairs, CooldownRespected, Told, Consecutive
  <2>4. SameEventToldOnce
    BY DEF OrderInv, Unedited, Renews, Pairs, SameEventToldOnce, Told, Consecutive
  <2> QED
    BY <2>1, <2>2, <2>3, <2>4 DEF ToldInOrder
<1> SUFFICES ASSUME Operators = {} PROVE Spec => []ToldInOrder
  OBVIOUS
<1>2. OrderInv /\ [Next]_vars => OrderInv'
  BY OrderStep
<1> QED
  BY <1>1, <1>2, OrderInit, PTL DEF Spec
=============================================================================
