------------------------------ MODULE ScoreRules ------------------------------
(***************************************************************************)
(* The notable score of stored events.  An event is scored when its batch  *)
(* is inserted, by the score rules its transaction has read; a change of a *)
(* rule rescores the stored events of its type in its own transaction,     *)
(* those it has read: what is inserted until it commits keeps the score it *)
(* was inserted with.                                                      *)
(*                                                                         *)
(* Transactions read what is committed at each statement and lock what     *)
(* they write until they end (PostgreSQL; on SQLite, where one transaction *)
(* writes at a time, fewer interleavings are left).                        *)
(***************************************************************************)
EXTENDS Integers, FiniteSets, Functions, FiniteSetsExt

CONSTANTS
    EventTypes,
    HighAttention,  \* HIGH_ATTENTION_TYPES
    Severities,
    Keywords,       \* whether a message has one of ALERT_KEYWORDS
    ScoreDeltas,    \* what administrators enter as score_delta
    Editors,        \* requests that change rules
    NoRule,
    MaxScored,      \* bound: events stored
    MaxFile,        \* bound: rules of an imported file
    MaxRuleId,      \* bound: rules ever created
    MaxOpen         \* bound: transactions that overlap

ASSUME ScoreRulesAssumption ==
    /\ HighAttention \subseteq EventTypes
    /\ ScoreDeltas \subseteq Int /\ Keywords \subseteq BOOLEAN
    /\ {MaxScored, MaxFile, MaxRuleId, MaxOpen} \subseteq Nat
    /\ NoRule \notin [id : 1 .. MaxRuleId, delta : ScoreDeltas]

VARIABLES
    scoreRules,     \* event_score_rules: NoRule or [id, delta] per event type
    ruleId,         \* the last id given
    scored,         \* rows of events: [key, type, severity, keyword, score]
    edits,          \* the request of each editor, or NoEdit
    batch,          \* the transaction that stores a batch
    disturbed       \* ghost: types whose scores an overlap of two transactions
                    \* has made wrong, as long as no change has rescored them

scoreVars == <<scoreRules, ruleId, scored, edits, batch, disturbed>>

NoEdit == [phase |-> "none"]
NoBatchOpen == [open |-> FALSE, deltas |-> [t \in EventTypes |-> 0], overtaken |-> {}]

ScoresInit ==
    /\ scoreRules = [t \in EventTypes |-> NoRule]
    /\ ruleId = 0
    /\ scored = {}
    /\ edits = [p \in Editors |-> NoEdit]
    /\ batch = NoBatchOpen
    /\ disturbed = {}

-----------------------------------------------------------------------------
(* The score.                                                               *)

SeverityWeight(severity) ==
    CASE severity = "error" -> 40 [] severity = "warning" -> 20 [] OTHER -> 0

BaseScore(type, severity, keyword) ==
    SeverityWeight(severity) + (IF type \in HighAttention THEN 35 ELSE 0)
                             + (IF keyword THEN 10 ELSE 0)

Clamp(score) == IF score < 0 THEN 0 ELSE IF score > 100 THEN 100 ELSE score

FinalScore(e, delta) == Clamp(BaseScore(e.type, e.severity, e.keyword) + delta)

\* load_event_score_delta_map: 0 where there is no rule.
DeltaMap(someRules) ==
    [t \in EventTypes |-> IF someRules[t] = NoRule THEN 0 ELSE someRules[t].delta]

(* Mutant: the delta is added to the score that is stored.                  *)
Rescored_FromStored(e, delta) == [e EXCEPT !.score = Clamp(e.score + delta)]
\* recalculate_notable_scores_for_event_type, for one row.
Rescored(e, delta) == [e EXCEPT !.score = FinalScore(e, delta)]

-----------------------------------------------------------------------------
(* A batch: its transaction reads the deltas, then inserts and commits.     *)

Open == Cardinality({p \in Editors : edits[p].phase # "none"}) + (IF batch.open THEN 1 ELSE 0)

\* Who has read a rule that a commit changes (changed), and has not locked it, is
\* overtaken; so is who has read the events, where they are scored by another delta
\* (by) than its own meanwhile.
Overtaken(q, changed, by) ==
    IF q.phase = "none" THEN q
    ELSE IF q.phase = "read" THEN [q EXCEPT !.overtaken = @ \cup (changed \cap DOMAIN q.file)]
    ELSE [q EXCEPT !.overtaken = @ \cup (changed \cap DOMAIN q.deltas) \cup
             {t \in DOMAIN by \cap DOMAIN q.deltas : q.phase = "scanned" /\ by[t] # q.deltas[t]}]

ReadDeltas ==
    /\ ~ batch.open /\ Open < MaxOpen
    /\ batch' = [open |-> TRUE, deltas |-> DeltaMap(scoreRules), overtaken |-> {}]
    /\ UNCHANGED <<scoreRules, ruleId, scored, edits, disturbed>>

InsertScored(type, severity, keyword) ==
    LET row == [key |-> Cardinality(scored) + 1, type |-> type, severity |-> severity,
                keyword |-> keyword, score |-> 0]
    IN /\ batch.open
       /\ Cardinality(scored) < MaxScored
       /\ scored' = scored \cup {[row EXCEPT !.score = FinalScore(row, batch.deltas[type])]}
       /\ disturbed' = disturbed \cup ({type} \cap batch.overtaken)
       /\ edits' = [p \in Editors |-> Overtaken(edits[p], {}, Restrict(batch.deltas, {type}))]
       /\ batch' = NoBatchOpen
       /\ UNCHANGED <<scoreRules, ruleId>>

-----------------------------------------------------------------------------
(* A change of rules: a request with the rules of its file as it found      *)
(* them, then the transaction with what it has written and rescores by.     *)

Files == UNION {[S -> ScoreDeltas] : S \in {T \in SUBSET EventTypes : Cardinality(T) <= MaxFile}}

RuleRequest(verb, file, overwrite, remove) ==
    [phase |-> "read", verb |-> verb, file |-> file, overwrite |-> overwrite, remove |-> remove,
     found |-> Restrict(scoreRules, DOMAIN file), overtaken |-> {}]

BeginEdit(p, q) ==
    /\ edits[p].phase = "none" /\ Open < MaxOpen
    /\ edits' = [edits EXCEPT ![p] = q]
    /\ UNCHANGED <<scoreRules, ruleId, scored, batch, disturbed>>

\* create_event_score_rule: a second rule for the type is refused.
CreateRule(p) == \E t \in EventTypes, d \in ScoreDeltas :
    scoreRules[t] = NoRule /\ BeginEdit(p, RuleRequest("create", [x \in {t} |-> d], FALSE, FALSE))

\* patch_event_score_rule.
PatchRule(p) == \E t \in EventTypes, d \in ScoreDeltas :
    scoreRules[t] # NoRule /\ BeginEdit(p, RuleRequest("patch", [x \in {t} |-> d], TRUE, FALSE))

\* delete_event_score_rule.
DeleteRule(p) == \E t \in EventTypes :
    scoreRules[t] # NoRule /\ BeginEdit(p, RuleRequest("delete", [x \in {t} |-> 0], FALSE, FALSE))

\* import_event_score_rules: an empty file may not delete every rule.
ImportRules(p) == \E file \in Files, overwrite \in BOOLEAN, remove \in BOOLEAN :
    /\ ~ (remove /\ DOMAIN file = {})
    /\ BeginEdit(p, RuleRequest("import", file, overwrite, remove))

Inserted(q) == {t \in DOMAIN q.file : q.verb \in {"create", "import"} /\ q.found[t] = NoRule}

\* A value that is set to what was read is not written.
Updated(q) == {t \in DOMAIN q.file : q.overwrite /\ q.found[t] # NoRule
                                     /\ q.found[t].delta # q.file[t]}

Same(t, found) == scoreRules[t] # NoRule /\ scoreRules[t].id = found.id

\* The one rule by its id, those not in the file by their type.
Removed(q) ==
    IF q.verb = "delete" THEN {t \in DOMAIN q.file : Same(t, q.found[t])}
    ELSE {t \in EventTypes : q.remove /\ t \notin DOMAIN q.file /\ scoreRules[t] # NoRule}

\* A unique key that exists by now, or a row that is gone.
Collides(q) ==
    \/ \E t \in Inserted(q) : scoreRules[t] # NoRule
    \/ \E t \in Updated(q) : ~ Same(t, q.found[t])

Writes(q) ==
    [t \in Inserted(q) \cup Updated(q) \cup Removed(q) |->
        IF t \in Inserted(q) THEN [id |-> ruleId + 1, delta |-> q.file[t]]
        ELSE IF t \in Updated(q) THEN [id |-> q.found[t].id, delta |-> q.file[t]]
        ELSE NoRule]

\* An import has yet to load the map of deltas, the others have the one delta at hand.
Transaction(q) ==
    [phase |-> IF q.verb = "import" THEN "flushed" ELSE "loaded", verb |-> q.verb,
     writes |-> Writes(q), deltas |-> q.file, dirty |-> {},
     overtaken |-> q.overtaken \ DOMAIN Writes(q)]

\* Phases of a transaction that has written and locked.
Locking == {"flushed", "loaded", "scanned"}

\* The rules as the transaction itself sees them, and as its commit leaves them.
RulesAfter(tx) ==
    [t \in EventTypes |-> IF t \in DOMAIN tx.writes THEN tx.writes[t] ELSE scoreRules[t]]

\* The changes are written and locked: nobody else may write these rules.
FlushEdit(p) ==
    LET tx == Transaction(edits[p])
    IN /\ edits[p].phase = "read"
       /\ \A o \in Editors : IF edits[o].phase \in Locking
                             THEN DOMAIN edits[o].writes \cap DOMAIN tx.writes = {} ELSE TRUE
       /\ IF Collides(edits[p])
          THEN edits' = [edits EXCEPT ![p] = NoEdit] /\ UNCHANGED ruleId
          ELSE /\ ruleId < MaxRuleId \/ Inserted(edits[p]) = {}
               /\ edits' = [edits EXCEPT ![p] = tx]
               /\ ruleId' = IF Inserted(edits[p]) = {} THEN ruleId ELSE ruleId + 1
       /\ UNCHANGED <<scoreRules, scored, batch, disturbed>>

\* load_event_score_delta_map, of an import: the committed rules and its own changes.
LoadDeltas(p) ==
    /\ edits[p].phase = "flushed"
    /\ edits' = [edits EXCEPT ![p] = [@ EXCEPT !.phase = "loaded", !.overtaken = {},
                                              !.deltas = DeltaMap(RulesAfter(edits[p]))]]
    /\ UNCHANGED <<scoreRules, ruleId, scored, batch, disturbed>>

\* The stored events are read, without a lock, and rescored: a row is to be written
\* when its score is not the one that was read.
ReadStored(p) ==
    LET deltas == edits[p].deltas
        rows == {e \in scored : e.type \in DOMAIN deltas}
    IN /\ edits[p].phase = "loaded"
       /\ edits' = [edits EXCEPT ![p] = [@ EXCEPT !.phase = "scanned",
                       !.dirty = {e.key : e \in {r \in rows : Rescored(r, deltas[r.type]) # r}}]]
       /\ UNCHANGED <<scoreRules, ruleId, scored, batch, disturbed>>

\* A patched rule is read again before the commit; it is an error when it is gone.
Gone(tx) == tx.verb = "patch" /\ \E t \in DOMAIN tx.deltas : scoreRules[t] = NoRule

\* The rescored rows are written, and all of it is committed.
CommitEdit(p) ==
    LET tx == edits[p]
        types == DOMAIN tx.writes
        scope == DOMAIN tx.deltas
    IN /\ tx.phase = "scanned"
       /\ ~ Gone(tx)
       /\ scoreRules' = RulesAfter(tx)
       /\ scored' = {IF e.type \in scope /\ e.key \in tx.dirty
                        THEN Rescored(e, tx.deltas[e.type]) ELSE e : e \in scored}
       /\ edits' = [o \in Editors |-> IF o = p THEN NoEdit
                                        ELSE Overtaken(edits[o], types, tx.deltas)]
       /\ batch' = IF batch.open THEN [batch EXCEPT !.overtaken = @ \cup types] ELSE batch
       /\ disturbed' = (disturbed \ scope) \cup tx.overtaken
       /\ UNCHANGED ruleId

\* The database refuses, or the request ends early: all of it is rolled back.
EditFails(p) ==
    /\ edits[p].phase # "none"
    /\ edits' = [edits EXCEPT ![p] = NoEdit]
    /\ UNCHANGED <<scoreRules, ruleId, scored, batch, disturbed>>

BatchFails ==
    /\ batch.open
    /\ batch' = NoBatchOpen
    /\ UNCHANGED <<scoreRules, ruleId, scored, edits, disturbed>>

ScoresNext ==
    \/ ReadDeltas \/ BatchFails
    \/ \E type \in EventTypes, severity \in Severities, keyword \in Keywords :
          InsertScored(type, severity, keyword)
    \/ \E p \in Editors :
          \/ CreateRule(p) \/ PatchRule(p) \/ DeleteRule(p) \/ ImportRules(p)
          \/ FlushEdit(p) \/ LoadDeltas(p) \/ ReadStored(p) \/ CommitEdit(p) \/ EditFails(p)

ScoresSpec == ScoresInit /\ [][ScoresNext]_scoreVars

-----------------------------------------------------------------------------
\* query_top_event_type_buckets: the highest score of a type by the rules of
\* now, one representative for each severity with and without a keyword.
ShownMax(type) ==
    LET inputs == {[type |-> type, severity |-> e.severity, keyword |-> e.keyword] :
                       e \in {x \in scored : x.type = type}}
    IN Max({0} \cup {FinalScore(i, DeltaMap(scoreRules)[type]) : i \in inputs})

(***************************************************************************)
(* Properties                                                              *)
(***************************************************************************)
EventScoreRule == [id : 1 .. MaxRuleId, delta : ScoreDeltas]
EventRecord == [key : 1 .. MaxScored, type : EventTypes, severity : Severities,
                keyword : Keywords, score : 0 .. 100]

\* Rules, events and the transactions have their shape.
ScoresTypeOK ==
    /\ scoreRules \in [EventTypes -> {NoRule} \cup EventScoreRule]
    /\ scored \subseteq EventRecord
    /\ disturbed \subseteq EventTypes

\* Every stored score is the base score of the event and the rule of its type as
\* it is now, and the lists that score anew show the same.  Where a change of a
\* rule overtook the insertion of events or another request about that rule, or
\* events were scored by another delta between the reading of the stored events
\* and the commit, this may fail until the type is rescored, and never after
\* (score-rules.md 5).
ScoresFollowRules ==
    \A t \in EventTypes \ disturbed :
        /\ \A e \in scored : e.type = t => e.score = FinalScore(e, DeltaMap(scoreRules)[t])
        /\ ShownMax(t) = Max({0} \cup {e.score : e \in {x \in scored : x.type = t}})
===============================================================================
