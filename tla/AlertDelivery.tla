---------------------------- MODULE AlertDelivery ----------------------------
(***************************************************************************)
(* The notification outbox: alert notifications are registered in the      *)
(* tables alert_history and alert_notification_outbox, and one background  *)
(* job mails them, retries with back-off, gives up at a deadline, survives *)
(* a crash between any two of its transactions, and races with the REST    *)
(* handlers that delete history rows and rules and with the purge job.     *)
(*                                                                         *)
(* A database transaction is one step: the writers of these two tables run *)
(* on one event loop, and a row deleted between a read and the flush makes *)
(* the UPDATE match no row, which aborts the transaction (the same outcome *)
(* as reading no row, or as DatabaseError below).                          *)
(***************************************************************************)
EXTENDS RetryBackoff, FiniteSets

CONSTANTS
    Intents,       \* notifications; an intent is identified by its Message-ID
    Rules,         \* alert rules, whose deletion cascades to their history
    MaxId,         \* bound on alert_history.id
    ReuseIds,      \* TRUE: SQLite rowids (largest + 1), FALSE: a sequence
    RetryInitial,  \* ALERT_RETRY_INITIAL_SECONDS
    RetryMax,      \* ALERT_RETRY_MAX_SECONDS
    RetryTTL,      \* ALERT_RETRY_TTL_SECONDS
    BatchSize,     \* ALERT_DELIVERY_BATCH_SIZE
    Retention,     \* ALERT_HISTORY_RETENTION_DAYS, 0 disables the purge
    LastEnqueue,   \* bound: no notification is registered after this time
    MaxTime,       \* bound on the clock
    MaxFaults,     \* bound on crashes, cancellations and database errors
    Configs,       \* the settings a (re)start may run with
    Null           \* a missing row and SQL NULL

ASSUME RetryAssumption ==
    /\ RetryInitial \in Nat \ {0} /\ RetryMax \in Nat \ {0} /\ RetryTTL \in Nat \ {0}
    /\ RetryInitial <= RetryMax /\ RetryMax <= RetryTTL
    /\ BatchSize \in Nat \ {0}
ASSUME BoundAssumption ==
    /\ MaxId \in Nat /\ MaxTime \in Nat /\ LastEnqueue \in Nat
    /\ MaxFaults \in Nat /\ Retention \in Nat
ASSUME ConfigAssumption ==
    ReuseIds \in BOOLEAN /\ Configs \subseteq {"smtp", "unset", "mock"}

Ids == 1 .. MaxId
RetryDelay(attempt) == BackoffDelay(RetryInitial, RetryMax, attempt)

Waiting == {"pending", "retrying"}
Final == {"succeeded", "failed", "skipped"}

HistoryRow ==
    [intent : Intents, rule : Rules, channel : {"email", "mock", "none"},
     success : {"None", "True", "False"}, delivery_status : Waiting \cup Final,
     attempt_count : Nat, notified_at : Nat, next_attempt_at : Nat \cup {Null}]
OutboxRow ==
    [message_id : Intents, state : {"firing", "resolved"}, created_at : Nat,
     expires_at : Nat, next_attempt_at : Nat]

ASSUME NullAssumption == Null \notin HistoryRow /\ Null \notin OutboxRow /\ Null \notin Nat

VARIABLES
    now,                        \* utc_now()
    config,                     \* "smtp", "unset" (SMTP_HOST or ALERT_EMAIL_TO missing), "mock"
    alert_history,              \* table: id -> HistoryRow or Null
    alert_notification_outbox,  \* table: history_id -> OutboxRow or Null
    last_id,                    \* last value of the id sequence
    pc,                         \* where deliver_notifications / _deliver_one is
    batch,                      \* its <<created_at, history_id>> still to deliver
    item,                       \* the locals of _deliver_one, or Null
    outcome,                    \* NotificationDeliveryOutcome and `finished`, or Null
    origin,                     \* history of the model: how an intent was registered
    accepted,                   \* mails the SMTP server accepted, per intent
    lost,                       \* accepted mails whose success was never recorded
    snapshots,                  \* incident snapshots saved, per intent
    deleted,                    \* intents an administrator deleted
    faults                      \* crashes, cancellations and database errors so far

tables == <<alert_history, alert_notification_outbox, last_id>>
job == <<pc, batch, item, outcome>>
ghosts == <<origin, accepted, lost, snapshots, deleted>>
vars == <<now, config, tables, job, ghosts, faults>>

Item == [id : Ids, intent : Intents, state : {"firing", "resolved"},
         attempt : Nat \ {0}, mock : BOOLEAN]
Outcome == [channel : {"email", "mock", "none"},
            success : {"None", "True", "False"}, finished : Nat]

(* Every variable holds a value of the shape the code gives it.            *)
TypeOK ==
    /\ now \in Nat
    /\ config \in Configs
    /\ alert_history \in [Ids -> HistoryRow \cup {Null}]
    /\ alert_notification_outbox \in [Ids -> OutboxRow \cup {Null}]
    /\ last_id \in 0 .. MaxId
    /\ pc \in {"idle", "loop", "snapshot", "recheck", "send", "record"}
    /\ batch \subseteq Nat \X Ids
    /\ item \in Item \cup {Null}
    /\ outcome \in Outcome \cup {Null}
    /\ origin \in [Intents -> {"unregistered", "email", "mock"}]
    /\ accepted \in [Intents -> Nat]
    /\ lost \in [Intents -> Nat]
    /\ snapshots \in [Intents -> Nat]
    /\ deleted \subseteq Intents
    /\ faults \in Nat

Init ==
    /\ now = 0
    /\ config \in Configs
    /\ alert_history = [id \in Ids |-> Null]
    /\ alert_notification_outbox = [id \in Ids |-> Null]
    /\ last_id = 0
    /\ pc = "idle" /\ batch = {} /\ item = Null /\ outcome = Null
    /\ origin = [i \in Intents |-> "unregistered"]
    /\ accepted = [i \in Intents |-> 0]
    /\ lost = [i \in Intents |-> 0]
    /\ snapshots = [i \in Intents |-> 0]
    /\ deleted = {}
    /\ faults = 0

-----------------------------------------------------------------------------
(* Registration, inside the transaction that changes the alert state.      *)

(* The id the database gives a new history row.                            *)
FreshId(id) ==
    IF ReuseIds
    THEN /\ \A j \in Ids : alert_history[j] # Null => j < id
         /\ id > 1 => alert_history[id - 1] # Null
    ELSE id = last_id + 1

InsertHistory(id, i, r, channel, success, status, next) ==
    /\ alert_history' = [alert_history EXCEPT ![id] =
           [intent |-> i, rule |-> r, channel |-> channel, success |-> success,
            delivery_status |-> status, attempt_count |-> 0,
            notified_at |-> now, next_attempt_at |-> next]]
    /\ last_id' = IF id > last_id THEN id ELSE last_id

(* Mutant: the channel of an unconfigured process leaks into the intent.    *)
ConfiguredChannel_Mutant ==
    CASE config = "mock" -> "mock" [] config = "smtp" -> "email" [] config = "unset" -> "none"
ConfiguredChannel == IF config = "mock" THEN "mock" ELSE "email"

SaveSnapshot(i, state) ==
    \E saved \in BOOLEAN :  \* a failed snapshot is rolled back to its savepoint
        snapshots' = IF saved /\ state = "firing"
                     THEN [snapshots EXCEPT ![i] = @ + 1] ELSE snapshots

CanRegister(i, id) ==
    now <= LastEnqueue /\ origin[i] = "unregistered" /\ FreshId(id)

(* SMTP_HOST or ALERT_EMAIL_TO is missing: recorded as skipped, not queued. *)
EnqueueSkipped(i, id, r, state) ==
    /\ CanRegister(i, id) /\ config = "unset"
    /\ InsertHistory(id, i, r, "none", "None", "skipped", Null)
    /\ SaveSnapshot(i, state)
    /\ origin' = [origin EXCEPT ![i] = ConfiguredChannel]
    /\ UNCHANGED <<now, config, alert_notification_outbox, job, accepted, lost,
                   deleted, faults>>

(* The template or a header cannot be rendered: recorded as failed.        *)
EnqueueUnrenderable(i, id, r) ==
    /\ CanRegister(i, id) /\ config # "unset"
    /\ InsertHistory(id, i, r, ConfiguredChannel, "False", "failed", Null)
    /\ origin' = [origin EXCEPT ![i] = ConfiguredChannel]
    /\ UNCHANGED <<now, config, alert_notification_outbox, job, accepted, lost,
                   snapshots, deleted, faults>>

EnqueuePending(i, id, r, state) ==
    /\ CanRegister(i, id) /\ config # "unset"
    /\ InsertHistory(id, i, r, ConfiguredChannel, "None", "pending", now)
    /\ alert_notification_outbox' = [alert_notification_outbox EXCEPT ![id] =
           [message_id |-> i, state |-> state, created_at |-> now,
            expires_at |-> now + RetryTTL, next_attempt_at |-> now]]
    /\ origin' = [origin EXCEPT ![i] = ConfiguredChannel]
    /\ UNCHANGED <<now, config, job, accepted, lost, snapshots, deleted, faults>>

Enqueue ==
    \E i \in Intents, id \in Ids, r \in Rules :
        \/ EnqueueUnrenderable(i, id, r)
        \/ \E state \in {"firing", "resolved"} :
               EnqueueSkipped(i, id, r, state) \/ EnqueuePending(i, id, r, state)

-----------------------------------------------------------------------------
(* The delivery job.  batch orders its items as the SELECT does.           *)

Before(p, q) == p[1] < q[1] \/ (p[1] = q[1] /\ p[2] < q[2])

(* Mutant: retries are forgotten, only first attempts are ever due.         *)
IsDue_Mutant(id) ==
    /\ alert_notification_outbox[id] # Null
    /\ alert_history[id].delivery_status = "pending"
IsDue(id) ==
    /\ alert_notification_outbox[id] # Null
    /\ \/ alert_notification_outbox[id].next_attempt_at <= now
       \/ alert_notification_outbox[id].expires_at <= now

Due == {<<alert_notification_outbox[id].created_at, id>> : id \in {j \in Ids : IsDue(j)}}

(* deliver_notifications takes _delivery_lock; a call that finds it held   *)
(* returns at once.                                                        *)
SelectDue ==
    /\ pc = "idle"
    /\ pc' = "loop"
    /\ batch' = {p \in Due : Cardinality({q \in Due : Before(q, p)}) < BatchSize}
    /\ UNCHANGED <<now, config, tables, item, outcome, ghosts, faults>>

(* The batch is done, or was cancelled: the lock is released.              *)
EndBatch ==
    /\ pc = "loop" /\ batch = {}
    /\ pc' = "idle"
    /\ UNCHANGED <<now, config, tables, batch, item, outcome, ghosts, faults>>

NextInBatch(p) ==
    pc = "loop" /\ p \in batch /\ \A q \in batch \ {p} : Before(p, q)

Dispatched(p) == batch' = batch \ {p}

(* Mutant: a delay that never doubles.                                      *)
NextAttempt_Constant(base, attempt, expires_at) == Least(base + RetryInitial, expires_at)
NextAttempt(base, attempt, expires_at) == Least(base + RetryDelay(attempt), expires_at)

IsMock(id) == alert_history[id].channel = "mock"

IsFirst(attempt) == attempt = 1

(* _deliver_one, first transaction: nothing to do for a deleted or not yet *)
(* due row ...                                                             *)
ClaimNothing(p) ==
    LET row == alert_notification_outbox[p[2]] IN
    /\ NextInBatch(p) /\ Dispatched(p)
    /\ \/ row = Null \/ alert_history[p[2]] = Null
       \/ row # Null /\ row.expires_at > now /\ row.next_attempt_at > now
    /\ UNCHANGED <<now, config, tables, pc, item, outcome, ghosts, faults>>

(* ... a row past its deadline is given up ...                             *)
ClaimExpired(p) ==
    LET id == p[2]
        row == alert_notification_outbox[id] IN
    /\ NextInBatch(p) /\ Dispatched(p)
    /\ row # Null /\ alert_history[id] # Null
    /\ row.expires_at <= now
    /\ alert_history' = [alert_history EXCEPT ![id] =
           [@ EXCEPT !.success = "False", !.delivery_status = "failed",
                     !.next_attempt_at = Null]]
    /\ alert_notification_outbox' = [alert_notification_outbox EXCEPT ![id] = Null]
    /\ UNCHANGED <<now, config, last_id, pc, item, outcome, ghosts, faults>>

(* ... and a due one is claimed: the attempt and the earliest time of the  *)
(* next one are committed before anything is sent.                         *)
ClaimAttempt(p) ==
    LET id == p[2]
        row == alert_notification_outbox[id]
        attempt == alert_history[id].attempt_count + 1
        next == NextAttempt(now, attempt, row.expires_at) IN
    /\ NextInBatch(p) /\ Dispatched(p)
    /\ row # Null /\ alert_history[id] # Null
    /\ row.expires_at > now /\ row.next_attempt_at <= now
    /\ alert_history' = [alert_history EXCEPT ![id] =
           [@ EXCEPT !.attempt_count = attempt, !.notified_at = now,
                     !.next_attempt_at = next]]
    /\ alert_notification_outbox' =
           [alert_notification_outbox EXCEPT ![id] = [@ EXCEPT !.next_attempt_at = next]]
    /\ item' = [id |-> id, intent |-> row.message_id, state |-> row.state,
                attempt |-> attempt, mock |-> IsMock(id)]
    /\ pc' = IF IsFirst(attempt) THEN "snapshot" ELSE "recheck"
    /\ UNCHANGED <<now, config, last_id, outcome, ghosts, faults>>

(* The snapshot of a first attempt; its failure never stops the delivery.  *)
FirstAttemptSnapshot ==
    /\ pc = "snapshot"
    /\ SaveSnapshot(item.intent, item.state)
    /\ pc' = "recheck"
    /\ UNCHANGED <<now, config, tables, batch, item, outcome, origin, accepted,
                   lost, deleted, faults>>

LeaveItem ==
    pc' = "loop" /\ item' = Null /\ outcome' = Null /\ UNCHANGED batch

(* Mutant: the job does not look again after the snapshot.                  *)
Cancelled_Mutant(id) == FALSE
Cancelled(id) == alert_notification_outbox[id] = Null

(* The last look for a deletion before SMTP begins.                        *)
Recheck ==
    /\ pc = "recheck"
    /\ IF Cancelled(item.id)
       THEN LeaveItem
       ELSE pc' = "send" /\ UNCHANGED <<batch, item, outcome>>
    /\ UNCHANGED <<now, config, tables, ghosts, faults>>

Finish(channel, success) ==
    /\ outcome' = [channel |-> channel, success |-> success, finished |-> now]
    /\ pc' = "record"
    /\ UNCHANGED <<now, config, tables, batch, item, origin, snapshots, deleted, faults>>

(* No SMTP dialogue: a mock intent is logged, and a real one is skipped    *)
(* when the process now runs in mock mode or without an SMTP configuration. *)
NotSent ==
    /\ pc = "send"
    /\ \/ item.mock /\ Finish("mock", "True")
       \/ ~item.mock /\ config # "smtp" /\ Finish("none", "None")
    /\ UNCHANGED <<accepted, lost>>

(* The server accepts the mail; if the connection drops before the client  *)
(* hears of it, the send raises and counts as a failure.                   *)
SmtpAccepts ==
    /\ pc = "send" /\ ~item.mock /\ config = "smtp"
    /\ accepted' = [accepted EXCEPT ![item.intent] = @ + 1]
    /\ \/ Finish("email", "True") /\ UNCHANGED lost
       \/ Finish("email", "False") /\ lost' = [lost EXCEPT ![item.intent] = @ + 1]

(* Refused, timed out, bad credentials: nothing was accepted.              *)
SmtpFails ==
    /\ pc = "send" /\ ~item.mock /\ config = "smtp"
    /\ Finish("email", "False")
    /\ UNCHANGED <<accepted, lost>>

Send == NotSent \/ SmtpAccepts \/ SmtpFails

(* Mutant: anything but an error counts as delivered.                       *)
ResultStatus_Mutant(expires_at) ==
    CASE outcome.success # "False" -> "succeeded"
      [] outcome.success = "False" /\ outcome.finished >= expires_at -> "failed"
      [] OTHER -> "retrying"
ResultStatus(expires_at) ==
    CASE outcome.success = "True" -> "succeeded"
      [] outcome.success = "None" -> "skipped"
      [] outcome.success = "False" /\ outcome.finished >= expires_at -> "failed"
      [] OTHER -> "retrying"

(* Mutant: the intent stays queued after a success.                         *)
StaysQueued_Mutant(status) == status \in {"retrying", "succeeded"}
StaysQueued(status) == status = "retrying"

(* The last transaction of _deliver_one writes the result under the same   *)
(* history id, unless the rows are gone.                                   *)
RecordResult ==
    LET id == item.id
        row == alert_notification_outbox[id]
        status == ResultStatus(row.expires_at)
        next == NextAttempt(outcome.finished, item.attempt, row.expires_at) IN
    /\ pc = "record"
    /\ IF row = Null \/ alert_history[id] = Null
       THEN UNCHANGED tables
       ELSE /\ alert_history' = [alert_history EXCEPT ![id] =
                   [@ EXCEPT !.channel = outcome.channel, !.success = outcome.success,
                             !.delivery_status = status,
                             !.next_attempt_at = IF StaysQueued(status) THEN next ELSE Null]]
            /\ alert_notification_outbox' = [alert_notification_outbox EXCEPT ![id] =
                   IF StaysQueued(status) THEN [@ EXCEPT !.next_attempt_at = next] ELSE Null]
            /\ UNCHANGED last_id
    /\ LeaveItem
    /\ UNCHANGED <<now, config, ghosts, faults>>

(* The scheduler is shut down and cancels the job: the item in delivery is *)
(* finished, the rest of the batch is dropped.                             *)
Cancel ==
    /\ faults < MaxFaults /\ faults' = faults + 1
    /\ pc # "idle" /\ batch # {}
    /\ batch' = {}
    /\ UNCHANGED <<now, config, tables, pc, item, outcome, ghosts>>

-----------------------------------------------------------------------------
(* Failures.                                                               *)

(* A success that is about to be lost: accepted, and not yet recorded.     *)
LoseUnrecorded ==
    lost' = IF pc = "record" /\ outcome.success = "True" /\ ~item.mock
            THEN [lost EXCEPT ![item.intent] = @ + 1] ELSE lost

(* A transaction of the job fails: its item is left for a later batch.     *)
DatabaseError ==
    /\ faults < MaxFaults /\ faults' = faults + 1
    /\ \/ pc = "loop" /\ (\E p \in batch : NextInBatch(p) /\ Dispatched(p))
          /\ UNCHANGED <<pc, item, outcome>>
       \/ pc \in {"recheck", "record"} /\ LeaveItem
    /\ LoseUnrecorded
    /\ UNCHANGED <<now, config, tables, origin, accepted, snapshots, deleted>>

(* The process dies and restarts, possibly with other settings: only the   *)
(* tables survive.                                                         *)
Crash ==
    /\ faults < MaxFaults /\ faults' = faults + 1
    /\ pc' = "idle" /\ batch' = {} /\ item' = Null /\ outcome' = Null
    /\ config' \in Configs
    /\ LoseUnrecorded
    /\ UNCHANGED <<now, tables, origin, accepted, snapshots, deleted>>

-----------------------------------------------------------------------------
(* The other writers of the tables.                                        *)

(* Mutant: foreign keys are not enforced and the outbox row survives.       *)
DeleteRows_Mutant(ids) ==
    /\ alert_history' = [id \in Ids |-> IF id \in ids THEN Null ELSE alert_history[id]]
    /\ UNCHANGED alert_notification_outbox
DeleteRows(ids) ==
    /\ alert_history' = [id \in Ids |-> IF id \in ids THEN Null ELSE alert_history[id]]
    /\ alert_notification_outbox' =  \* ON DELETE CASCADE
           [id \in Ids |-> IF id \in ids THEN Null ELSE alert_notification_outbox[id]]

DeleteByAdmin(ids) ==
    /\ ids # {}
    /\ DeleteRows(ids)
    /\ deleted' = deleted \cup {alert_history[id].intent : id \in ids}
    /\ UNCHANGED <<now, config, last_id, job, origin, accepted, lost, snapshots, faults>>

(* DELETE /alerts/history/{id}                                             *)
DeleteHistory ==
    \E id \in Ids : alert_history[id] # Null /\ DeleteByAdmin({id})

(* DELETE /alerts/rules/{id}, or an import that drops the rule: the rule's *)
(* history goes with it.                                                   *)
DeleteRule ==
    \E r \in Rules :
        DeleteByAdmin({id \in Ids : alert_history[id] # Null /\ alert_history[id].rule = r})

(* The retention job: old history, never a row still waiting for delivery. *)
(* Mutant: the purge forgets to spare waiting notifications.                *)
Purgeable_Mutant ==
    {id \in Ids : alert_history[id] # Null /\ alert_history[id].notified_at < now - Retention}
Purgeable ==
    {id \in Ids : /\ alert_history[id] # Null
                  /\ alert_history[id].notified_at < now - Retention
                  /\ alert_history[id].delivery_status \notin Waiting}
PurgeHistory ==
    /\ Retention > 0 /\ Purgeable # {}
    /\ DeleteRows(Purgeable)
    /\ UNCHANGED <<now, config, last_id, job, ghosts, faults>>

Tick ==
    /\ now < MaxTime
    /\ now' = now + 1
    /\ UNCHANGED <<config, tables, job, ghosts, faults>>

-----------------------------------------------------------------------------
DeliverOne ==
    \/ \E p \in batch : ClaimNothing(p) \/ ClaimExpired(p) \/ ClaimAttempt(p)
    \/ FirstAttemptSnapshot \/ Recheck \/ Send \/ RecordResult

DeliverNotifications == SelectDue \/ DeliverOne \/ EndBatch

Next ==
    \/ Enqueue \/ DeliverNotifications \/ Cancel
    \/ DatabaseError \/ Crash
    \/ DeleteHistory \/ DeleteRule \/ PurgeHistory
    \/ Tick

Spec == Init /\ [][Next]_vars

(* The scheduler keeps starting the job, the job keeps running, time       *)
(* passes; crashes, database errors and administrators owe nothing.        *)
FairSpec == Spec /\ WF_vars(DeliverNotifications) /\ WF_vars(Tick)

-----------------------------------------------------------------------------
(* Properties.                                                             *)

Row(id) == alert_history[id] # Null
Queued(id) == alert_notification_outbox[id] # Null

(* Registration, claim, result, expiry, deletion and purge each write both *)
(* tables together: a history row is waiting exactly while its intent is   *)
(* queued, both name the same intent, and the next attempt the history     *)
(* shows is the one the job will go by.                                    *)
OutboxMatchesHistory ==
    \A id \in Ids :
        /\ Queued(id) <=> Row(id) /\ alert_history[id].delivery_status \in Waiting
        /\ Queued(id) =>
              /\ alert_history[id].intent = alert_notification_outbox[id].message_id
              /\ alert_history[id].next_attempt_at = alert_notification_outbox[id].next_attempt_at
        /\ Row(id) /\ ~Queued(id) => alert_history[id].next_attempt_at = Null

(* What the history page shows is true: success is null while pending or   *)
(* skipped, false while retrying or failed, true once succeeded, and a     *)
(* notification reported as mailed was accepted by the SMTP server.        *)
SucceededWasMailed ==
    \A id \in Ids : Row(id) =>
        LET h == alert_history[id] IN
        /\ h.success = CASE h.delivery_status \in {"pending", "skipped"} -> "None"
                         [] h.delivery_status \in {"retrying", "failed"} -> "False"
                         [] h.delivery_status = "succeeded" -> "True"
        /\ h.delivery_status = "succeeded" /\ h.channel = "email" => accepted[h.intent] > 0

(* An intent registered in mock mode is never mailed for real, even when   *)
(* the process restarts with an SMTP configuration before delivering it;   *)
(* is_mock is read from the history row's channel, which results overwrite. *)
MockIntentNeverMailed ==
    \A i \in Intents : accepted[i] > 0 => origin[i] = "email"

(* A second mail for one notification needs a first one whose success was  *)
(* lost: a crash, a failed result transaction, or a connection dropped     *)
(* after the server accepted the mail.                                     *)
NoUnexplainedDuplicate == \A i \in Intents : accepted[i] <= lost[i] + 1

(* Retries, crashes and restarts never save a second incident snapshot for *)
(* a notification: only the attempt that wrote attempt_count = 1 takes it. *)
SnapshotAtMostOnce == \A i \in Intents : snapshots[i] <= 1

(* What leaves the tables (mails, snapshots) is what the registration asked *)
(* for, and happens again only where a success was lost (_deliver_one).     *)
SideEffectsExplained ==
    MockIntentNeverMailed /\ NoUnexplainedDuplicate /\ SnapshotAtMostOnce

(* Two attempts of an intent are apart by the initial delay doubled for     *)
(* every attempt before, or by the maximum, counted from the start of the  *)
(* earlier one, even if that one crashed before its result.  The shift by a *)
(* capped exponent (retry_delay) never shows.                              *)
RetrySpacing ==
    [][\A id \in Ids :
          LET h == alert_history[id]
              g == alert_history'[id]
              doubled == RetryInitial * 2^(h.attempt_count - 1) IN
          h # Null /\ g # Null /\ h.attempt_count > 0 /\ g.attempt_count > h.attempt_count
          => g.notified_at >= h.notified_at + Least(doubled, RetryMax)]_vars

(* A waiting notification leaves the history only because an administrator *)
(* deleted it: neither the purge nor a result removes it unreported.       *)
WaitingNeverLost ==
    [][\A id \in Ids :
          Queued(id) /\ alert_history'[id] = Null
          => alert_history[id].intent \in deleted']_vars

(* No mail is begun for a notification that an administrator has deleted:  *)
(* only a send that had begun before the deletion may still reach someone. *)
NoSendAfterDeletion ==
    [][pc' = "send" /\ pc # "send" => item.intent \notin deleted]_vars

(* Every queued notification is settled in the end: sent, given up at its  *)
(* deadline, or removed.                                                   *)
EveryIntentSettles ==
    \A id \in Ids, i \in Intents :
        (Queued(id) /\ alert_history[id].intent = i)
        ~> ~(Queued(id) /\ alert_history[id].intent = i)

-----------------------------------------------------------------------------
(* The refinement: the tables read as the fate of each notification.       *)

HistoryOf(i) == {id \in Ids : Row(id) /\ alert_history[id].intent = i}

Fate(i) ==
    IF origin[i] = "unregistered" THEN "unregistered"
    ELSE IF HistoryOf(i) = {} THEN "removed"
    ELSE LET status == alert_history[CHOOSE id \in HistoryOf(i) : TRUE].delivery_status
         IN IF status \in Waiting THEN "waiting" ELSE status

Promise == INSTANCE NotificationPromise WITH
    fate <- [i \in Intents |-> Fate(i)],
    mock <- {i \in Intents : origin[i] = "mock"},
    transmission <- IF pc = "send" THEN item.intent ELSE Null

(* The outbox, with its claims, retries, crashes and concurrent deletions, *)
(* does what NotificationPromise says.                                     *)
DeliversAsPromised == Promise!Spec
=============================================================================
