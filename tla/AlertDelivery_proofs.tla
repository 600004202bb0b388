------------------------ MODULE AlertDelivery_proofs ------------------------
(***************************************************************************)
(* Theorems about AlertDelivery for every set of intents and rules, every  *)
(* retry setting and every bound.                                          *)
(***************************************************************************)
EXTENDS AlertDelivery, FiniteSetTheorems, TLAPS

-----------------------------------------------------------------------------
(* The back-off arithmetic.                                                *)

(* A power of two counts the subsets of an interval, so it is positive.    *)
LEMMA PowerPositive == ASSUME NEW k \in Nat PROVE 2^k \in Nat \ {0}
<1> DEFINE S == 1 .. k
<1>1. IsFiniteSet(S) /\ Cardinality(S) = k
  BY FS_Interval
<1>2. IsFiniteSet(SUBSET S) /\ Cardinality(SUBSET S) = 2^k
  BY <1>1, FS_SUBSET
<1>3. Cardinality(SUBSET S) \in Nat
  BY <1>2, FS_CardinalityType
<1>4. Cardinality(SUBSET S) # 0
  BY <1>2, FS_EmptySet
<1> QED
  BY <1>2, <1>3, <1>4

LEMMA ProductPositive ==
  ASSUME NEW a \in Nat \ {0}, NEW b \in Nat \ {0} PROVE a * b \in Nat \ {0}
OBVIOUS

LEMMA BitLengthType == ASSUME NEW n \in Nat PROVE BitLength(n) \in Nat
<1>1. IsFiniteSet(0 .. n)
  BY FS_Interval
<1>2. IsFiniteSet({k \in 0 .. n : 2^k <= n})
  BY <1>1, FS_Subset
<1> QED
  BY <1>2, FS_CardinalityType DEF BitLength

(* retry_delay is a positive whole number of seconds, never more than the  *)
(* configured maximum.                                                     *)
THEOREM BackoffBounded ==
  ASSUME NEW initial \in Nat \ {0}, NEW maximum \in Nat \ {0},
         NEW attempt \in Nat \ {0}
  PROVE  BackoffDelay(initial, maximum, attempt) \in 1 .. maximum
<1> BitLength(maximum) \in Nat
  BY BitLengthType
<1>1. Least(attempt - 1, BitLength(maximum)) \in Nat
  BY DEF Least
<1>2. 2^Least(attempt - 1, BitLength(maximum)) \in Nat \ {0}
  BY <1>1, PowerPositive
<1>3. initial * 2^Least(attempt - 1, BitLength(maximum)) \in Nat \ {0}
  BY <1>2, ProductPositive
<1> QED
  BY <1>3 DEF BackoffDelay, Least

-----------------------------------------------------------------------------
(* Type correctness.                                                       *)

(* While _deliver_one runs its locals are set, and once SMTP has answered  *)
(* so is the outcome.                                                      *)
JobShape ==
    /\ pc \in {"snapshot", "recheck", "send", "record"} => item \in Item
    /\ pc = "record" => outcome \in Outcome

TypeInv == TypeOK /\ JobShape

LEMMA DelayType == ASSUME NEW n \in Nat \ {0} PROVE RetryDelay(n) \in Nat \ {0}
BY BackoffBounded, RetryAssumption DEF RetryDelay

LEMMA NextAttemptType ==
  ASSUME NEW base \in Nat, NEW n \in Nat \ {0}, NEW expires \in Nat
  PROVE  NextAttempt(base, n, expires) \in Nat
BY DelayType DEF NextAttempt, Least

LEMMA TypeInit == Init => TypeInv
BY BoundAssumption DEF Init, TypeInv, TypeOK, JobShape

LEMMA InsertType ==
  ASSUME TypeInv, NEW id \in Ids, NEW i \in Intents, NEW r \in Rules,
         NEW channel \in {"email", "mock", "none"}, NEW success \in {"None", "True", "False"},
         NEW status \in Waiting \cup Final, NEW next \in Nat \cup {Null},
         InsertHistory(id, i, r, channel, success, status, next)
  PROVE  /\ alert_history' \in [Ids -> HistoryRow \cup {Null}]
         /\ last_id' \in 0 .. MaxId
BY BoundAssumption DEF TypeInv, TypeOK, InsertHistory, HistoryRow, Ids

LEMMA SnapshotType ==
  ASSUME TypeInv, NEW i \in Intents, NEW state, SaveSnapshot(i, state)
  PROVE  snapshots' \in [Intents -> Nat]
BY DEF TypeInv, TypeOK, SaveSnapshot

LEMMA TypeEnqueue == ASSUME TypeInv, Enqueue PROVE TypeInv'
<1>1. PICK i \in Intents, id \in Ids, r \in Rules :
          \/ EnqueueUnrenderable(i, id, r)
          \/ \E state \in {"firing", "resolved"} :
                 EnqueueSkipped(i, id, r, state) \/ EnqueuePending(i, id, r, state)
  BY DEF Enqueue
<1>2. ConfiguredChannel \in {"email", "mock"}
  BY DEF ConfiguredChannel
<1>3. CASE EnqueueUnrenderable(i, id, r)
  <2>1. /\ alert_history' \in [Ids -> HistoryRow \cup {Null}]
        /\ last_id' \in 0 .. MaxId
    BY <1>2, <1>3, InsertType DEF EnqueueUnrenderable, Waiting, Final
  <2> QED
    BY <1>2, <1>3, <2>1 DEF EnqueueUnrenderable, TypeInv, TypeOK, JobShape, job
<1>4. ASSUME NEW state \in {"firing", "resolved"}, EnqueueSkipped(i, id, r, state)
      PROVE  TypeInv'
  <2>1. /\ alert_history' \in [Ids -> HistoryRow \cup {Null}]
        /\ last_id' \in 0 .. MaxId
    BY <1>4, InsertType DEF EnqueueSkipped, Waiting, Final
  <2>2. snapshots' \in [Intents -> Nat]
    BY <1>4, SnapshotType DEF EnqueueSkipped
  <2> QED
    BY <1>2, <1>4, <2>1, <2>2 DEF EnqueueSkipped, TypeInv, TypeOK, JobShape, job
<1>5. ASSUME NEW state \in {"firing", "resolved"}, EnqueuePending(i, id, r, state)
      PROVE  TypeInv'
  <2>1. now \in Nat /\ now + RetryTTL \in Nat
    BY RetryAssumption DEF TypeInv, TypeOK
  <2>2. /\ alert_history' \in [Ids -> HistoryRow \cup {Null}]
        /\ last_id' \in 0 .. MaxId
    BY <1>2, <1>5, <2>1, InsertType DEF EnqueuePending, Waiting, Final
  <2>3. alert_notification_outbox' \in [Ids -> OutboxRow \cup {Null}]
    BY <1>5, <2>1 DEF EnqueuePending, TypeInv, TypeOK, OutboxRow
  <2> QED
    BY <1>2, <1>5, <2>2, <2>3 DEF EnqueuePending, TypeInv, TypeOK, JobShape, job
<1> QED
  BY <1>1, <1>3, <1>4, <1>5

LEMMA TypeSelect == ASSUME TypeInv, SelectDue \/ EndBatch PROVE TypeInv'
<1>1. Due \subseteq Nat \X Ids
  BY DEF Due, IsDue, TypeInv, TypeOK, OutboxRow
<1> QED
  BY <1>1 DEF SelectDue, EndBatch, TypeInv, TypeOK, JobShape, tables, ghosts

LEMMA TypeClaim ==
  ASSUME TypeInv, NEW p \in batch, ClaimNothing(p) \/ ClaimExpired(p) \/ ClaimAttempt(p)
  PROVE  TypeInv'
<1>1. p[2] \in Ids
  BY DEF TypeInv, TypeOK
<1>2. CASE ClaimNothing(p)
  BY <1>2 DEF ClaimNothing, Dispatched, TypeInv, TypeOK, JobShape, tables, ghosts
<1>3. CASE ClaimExpired(p)
  <2>1. alert_history' \in [Ids -> HistoryRow \cup {Null}]
    <3>1. alert_history[p[2]] \in HistoryRow
      BY <1>1, <1>3 DEF ClaimExpired, TypeInv, TypeOK
    <3>2. [alert_history[p[2]] EXCEPT !.success = "False", !.delivery_status = "failed",
                                      !.next_attempt_at = Null] \in HistoryRow
      BY <3>1 DEF HistoryRow, Final
    <3> QED
      BY <1>1, <1>3, <3>2 DEF ClaimExpired, TypeInv, TypeOK
  <2> QED
    BY <1>3, <2>1 DEF ClaimExpired, Dispatched, TypeInv, TypeOK, JobShape, ghosts
<1>4. CASE ClaimAttempt(p)
  <2> DEFINE row == alert_notification_outbox[p[2]]
             attempt == alert_history[p[2]].attempt_count + 1
             next == NextAttempt(now, attempt, row.expires_at)
  <2>1. row \in OutboxRow /\ alert_history[p[2]] \in HistoryRow
    BY <1>1, <1>4 DEF ClaimAttempt, TypeInv, TypeOK
  <2>2. attempt \in Nat \ {0}
    BY <2>1 DEF HistoryRow
  <2>3. next \in Nat
    <3>1. row.expires_at \in Nat /\ now \in Nat
      BY <2>1 DEF OutboxRow, TypeInv, TypeOK
    <3> QED
      BY <2>2, <3>1, NextAttemptType
  <2>4. alert_history' \in [Ids -> HistoryRow \cup {Null}]
    <3>1. alert_history' = [alert_history EXCEPT ![p[2]] =
              [@ EXCEPT !.attempt_count = attempt, !.notified_at = now,
                        !.next_attempt_at = next]]
      BY <1>4 DEF ClaimAttempt
    <3> HIDE DEF attempt, next
    <3>2. [alert_history[p[2]] EXCEPT !.attempt_count = attempt, !.notified_at = now,
                        !.next_attempt_at = next] \in HistoryRow
      BY <2>1, <2>2, <2>3 DEF HistoryRow, TypeInv, TypeOK
    <3> QED
      BY <1>1, <3>1, <3>2 DEF TypeInv, TypeOK
  <2>5. alert_notification_outbox' \in [Ids -> OutboxRow \cup {Null}]
    <3>1. alert_notification_outbox' = [alert_notification_outbox EXCEPT ![p[2]] =
              [@ EXCEPT !.next_attempt_at = next]]
      BY <1>4 DEF ClaimAttempt
    <3> HIDE DEF next
    <3> QED
      BY <1>1, <2>1, <2>3, <3>1 DEF OutboxRow, TypeInv, TypeOK
  <2>6. item' \in Item
    <3>1. item' = [id |-> p[2], intent |-> row.message_id, state |-> row.state,
                   attempt |-> attempt, mock |-> IsMock(p[2])]
      BY <1>4 DEF ClaimAttempt
    <3>2. IsMock(p[2]) \in BOOLEAN
      BY DEF IsMock
    <3> QED
      BY <1>1, <2>1, <2>2, <3>1, <3>2 DEF Item, OutboxRow
  <2>7. pc' \in {"snapshot", "recheck"}
    BY <1>4 DEF ClaimAttempt
  <2>8. batch' \subseteq Nat \X Ids
    BY <1>4 DEF ClaimAttempt, Dispatched, TypeInv, TypeOK
  <2> QED
    BY <1>4, <2>4, <2>5, <2>6, <2>7, <2>8 DEF ClaimAttempt, TypeInv, TypeOK, JobShape, ghosts
<1> QED
  BY <1>2, <1>3, <1>4

LEMMA TypeItem ==
  ASSUME TypeInv, FirstAttemptSnapshot \/ Recheck \/ Send
  PROVE  TypeInv'
<1>1. CASE FirstAttemptSnapshot
  <2>1. item \in Item
    BY <1>1 DEF FirstAttemptSnapshot, TypeInv, JobShape
  <2>2. snapshots' \in [Intents -> Nat]
    BY <1>1, <2>1, SnapshotType DEF FirstAttemptSnapshot, Item
  <2> QED
    BY <1>1, <2>1, <2>2 DEF FirstAttemptSnapshot, TypeInv, TypeOK, JobShape, tables
<1>2. CASE Recheck
  BY <1>2 DEF Recheck, LeaveItem, TypeInv, TypeOK, JobShape, tables, ghosts
<1>3. CASE Send
  <2>1. item \in Item
    BY <1>3 DEF Send, NotSent, SmtpAccepts, SmtpFails, TypeInv, JobShape
  <2>2. accepted' \in [Intents -> Nat] /\ lost' \in [Intents -> Nat]
    BY <1>3, <2>1 DEF Send, NotSent, SmtpAccepts, SmtpFails, TypeInv, TypeOK, Item
  <2>3. PICK channel \in {"email", "mock", "none"}, success \in {"None", "True", "False"} :
            Finish(channel, success)
    BY <1>3 DEF Send, NotSent, SmtpAccepts, SmtpFails
  <2>4. outcome' \in Outcome
    BY <2>3 DEF Finish, Outcome, TypeInv, TypeOK
  <2> QED
    BY <2>1, <2>2, <2>3, <2>4 DEF Finish, TypeInv, TypeOK, JobShape, tables
<1> QED
  BY <1>1, <1>2, <1>3

LEMMA TypeRecord == ASSUME TypeInv, RecordResult PROVE TypeInv'
<1> DEFINE id == item.id
           row == alert_notification_outbox[id]
           status == ResultStatus(row.expires_at)
           next == NextAttempt(outcome.finished, item.attempt, row.expires_at)
<1>1. item \in Item /\ outcome \in Outcome
  BY DEF RecordResult, TypeInv, JobShape
<1>2. ASSUME row # Null, alert_history[id] # Null
      PROVE  /\ alert_history' \in [Ids -> HistoryRow \cup {Null}]
             /\ alert_notification_outbox' \in [Ids -> OutboxRow \cup {Null}]
             /\ UNCHANGED last_id
  <2>1. id \in Ids /\ row \in OutboxRow /\ alert_history[id] \in HistoryRow
    BY <1>1, <1>2 DEF Item, TypeInv, TypeOK
  <2>2. status \in Waiting \cup Final
    BY <1>1 DEF ResultStatus, Waiting, Final, Outcome
  <2>3. next \in Nat
    <3>1. outcome.finished \in Nat /\ item.attempt \in Nat \ {0} /\ row.expires_at \in Nat
      BY <1>1, <2>1 DEF Outcome, Item, OutboxRow
    <3> QED
      BY <3>1, NextAttemptType
  <2>4. alert_history' = [alert_history EXCEPT ![id] =
            [@ EXCEPT !.channel = outcome.channel, !.success = outcome.success,
                      !.delivery_status = status,
                      !.next_attempt_at = IF StaysQueued(status) THEN next ELSE Null]]
    BY <1>2 DEF RecordResult
  <2>5. alert_notification_outbox' = [alert_notification_outbox EXCEPT ![id] =
            IF StaysQueued(status) THEN [@ EXCEPT !.next_attempt_at = next] ELSE Null]
    BY <1>2 DEF RecordResult
  <2> HIDE DEF status, next
  <2>6. [alert_history[id] EXCEPT !.channel = outcome.channel, !.success = outcome.success,
            !.delivery_status = status,
            !.next_attempt_at = IF StaysQueued(status) THEN next ELSE Null] \in HistoryRow
    BY <1>1, <2>1, <2>2, <2>3 DEF HistoryRow, Outcome
  <2>7. [row EXCEPT !.next_attempt_at = next] \in OutboxRow
    BY <2>1, <2>3 DEF OutboxRow
  <2>8. UNCHANGED last_id
    BY <1>2 DEF RecordResult
  <2> QED
    BY <2>1, <2>4, <2>5, <2>6, <2>7, <2>8 DEF TypeInv, TypeOK
<1>3. /\ alert_history' \in [Ids -> HistoryRow \cup {Null}]
      /\ alert_notification_outbox' \in [Ids -> OutboxRow \cup {Null}]
      /\ UNCHANGED last_id
  <2>1. CASE row = Null \/ alert_history[id] = Null
    BY <2>1 DEF RecordResult, tables, TypeInv, TypeOK
  <2> QED
    BY <1>2, <2>1
<1> QED
  BY <1>3 DEF RecordResult, LeaveItem, ghosts, TypeInv, TypeOK, JobShape

LEMMA TypeFault == ASSUME TypeInv, Cancel \/ DatabaseError \/ Crash PROVE TypeInv'
<1>1. CASE Cancel
  BY <1>1 DEF Cancel, TypeInv, TypeOK, JobShape, tables, ghosts
<1>2. (DatabaseError \/ Crash) => lost' \in [Intents -> Nat]
  BY DEF DatabaseError, Crash, LoseUnrecorded, TypeInv, TypeOK, JobShape, Item
<1>3. CASE DatabaseError
  BY <1>2, <1>3 DEF DatabaseError, Dispatched, NextInBatch, LeaveItem, TypeInv, TypeOK, JobShape, tables
<1>4. CASE Crash
  BY <1>2, <1>4 DEF Crash, TypeInv, TypeOK, JobShape, tables
<1> QED
  BY <1>1, <1>3, <1>4

LEMMA TypeDelete ==
  ASSUME TypeInv, DeleteHistory \/ DeleteRule \/ PurgeHistory \/ Tick
  PROVE  TypeInv'
<1>1. ASSUME NEW ids \in SUBSET {id \in Ids : alert_history[id] # Null}, DeleteByAdmin(ids)
      PROVE  TypeInv'
  <2>1. {alert_history[id].intent : id \in ids} \subseteq Intents
    BY DEF TypeInv, TypeOK, HistoryRow
  <2> QED
    BY <1>1, <2>1 DEF DeleteByAdmin, DeleteRows, TypeInv, TypeOK, JobShape, job
<1>2. CASE DeleteHistory
  BY <1>1, <1>2 DEF DeleteHistory
<1>3. CASE DeleteRule
  BY <1>1, <1>3 DEF DeleteRule
<1>4. CASE PurgeHistory
  BY <1>4 DEF PurgeHistory, DeleteRows, TypeInv, TypeOK, JobShape, job, ghosts
<1>5. CASE Tick
  BY <1>5 DEF Tick, TypeInv, TypeOK, JobShape, tables, job, ghosts
<1> QED
  BY <1>2, <1>3, <1>4, <1>5

LEMMA TypeStep == TypeInv /\ [Next]_vars => TypeInv'
<1> SUFFICES ASSUME TypeInv, [Next]_vars PROVE TypeInv'
  OBVIOUS
<1>1. CASE Next
  BY <1>1, TypeEnqueue, TypeSelect, TypeClaim, TypeItem, TypeRecord, TypeFault, TypeDelete
     DEF Next, DeliverNotifications, DeliverOne
<1>2. CASE UNCHANGED vars
  BY <1>2 DEF vars, tables, job, ghosts, TypeInv, TypeOK, JobShape
<1> QED
  BY <1>1, <1>2

(* Type correctness of the outbox: in every reachable state the tables and *)
(* the job's locals have the shapes the code gives them, and a running     *)
(* _deliver_one has the locals its next transaction reads.                 *)
THEOREM TypeCorrect == Spec => []TypeInv
BY TypeInit, TypeStep, PTL DEF Spec

(* The type invariant the runs check.                                      *)
THEOREM TypeOKHolds == Spec => []TypeOK
BY TypeCorrect, PTL DEF TypeInv

-----------------------------------------------------------------------------
(* The two tables agree.                                                   *)

(* What OutboxMatchesHistory says of one history row and its outbox row.   *)
Agree(h, q) ==
    /\ q # Null <=> h # Null /\ h.delivery_status \in Waiting
    /\ q # Null => h.intent = q.message_id /\ h.next_attempt_at = q.next_attempt_at
    /\ h # Null /\ q = Null => h.next_attempt_at = Null

LEMMA AgreeEverywhere ==
  OutboxMatchesHistory <=> \A id \in Ids : Agree(alert_history[id], alert_notification_outbox[id])
BY DEF OutboxMatchesHistory, Agree, Row, Queued

(* Ids are handed out below last_id, so a fresh one names no row.          *)
Consistent ==
    /\ OutboxMatchesHistory
    /\ \A id \in Ids : Row(id) => id <= last_id

(* A step that touches the rows of one id preserves the agreement if it    *)
(* leaves that id's two rows in agreement.                                 *)
LEMMA AgreeFrame ==
  ASSUME OutboxMatchesHistory, NEW id \in Ids,
         \A j \in Ids \ {id} : /\ alert_history'[j] = alert_history[j]
                               /\ alert_notification_outbox'[j] = alert_notification_outbox[j],
         Agree(alert_history'[id], alert_notification_outbox'[id])
  PROVE  OutboxMatchesHistory'
<1>1. \A j \in Ids : Agree(alert_history'[j], alert_notification_outbox'[j])
  BY AgreeEverywhere
<1> QED
  BY <1>1 DEF OutboxMatchesHistory, Agree, Row, Queued

LEMMA FreshIsUnused ==
  ASSUME TypeInv, Consistent, NEW id \in Ids, FreshId(id)
  PROVE  ~Row(id) /\ ~Queued(id)
BY DEF TypeInv, TypeOK, Consistent, OutboxMatchesHistory, FreshId, Ids, Row, Queued

LEMMA ConsistentInsert ==
  ASSUME TypeInv, Consistent, NEW id \in Ids, FreshId(id), NEW i \in Intents, NEW r,
         NEW channel, NEW success, NEW status, NEW next,
         InsertHistory(id, i, r, channel, success, status, next)
  PROVE  /\ \A j \in Ids \ {id} : alert_history'[j] = alert_history[j]
         /\ alert_history'[id] = [intent |-> i, rule |-> r, channel |-> channel,
                success |-> success, delivery_status |-> status, attempt_count |-> 0,
                notified_at |-> now, next_attempt_at |-> next]
         /\ \A j \in Ids : Row(j)' => j <= last_id'
BY DEF TypeInv, TypeOK, Consistent, InsertHistory, Ids, Row

LEMMA ConsistentEnqueue == ASSUME TypeInv, Consistent, Enqueue PROVE Consistent'
<1>1. PICK i \in Intents, id \in Ids, r \in Rules :
          \/ EnqueueUnrenderable(i, id, r)
          \/ \E state \in {"firing", "resolved"} :
                 EnqueueSkipped(i, id, r, state) \/ EnqueuePending(i, id, r, state)
  BY DEF Enqueue
<1>2. FreshId(id) /\ ~Row(id) /\ ~Queued(id)
  BY <1>1, FreshIsUnused DEF EnqueueUnrenderable, EnqueueSkipped, EnqueuePending, CanRegister
<1>3. TypeInv'
  BY TypeEnqueue
<1>4. CASE EnqueueUnrenderable(i, id, r)
  <2>0. InsertHistory(id, i, r, ConfiguredChannel, "False", "failed", Null)
    BY <1>4 DEF EnqueueUnrenderable
  <2>1. /\ \A j \in Ids \ {id} : alert_history'[j] = alert_history[j]
        /\ alert_history'[id] = [intent |-> i, rule |-> r, channel |-> ConfiguredChannel,
               success |-> "False", delivery_status |-> "failed", attempt_count |-> 0,
               notified_at |-> now, next_attempt_at |-> Null]
        /\ \A j \in Ids : Row(j)' => j <= last_id'
    BY <1>2, <2>0, ConsistentInsert
  <2>2. alert_notification_outbox' = alert_notification_outbox
    BY <1>4 DEF EnqueueUnrenderable
  <2>3. Agree(alert_history'[id], alert_notification_outbox'[id])
    BY <1>2, <1>3, <2>1, <2>2 DEF Agree, Queued, Waiting
  <2> QED
    BY <2>1, <2>2, <2>3, AgreeFrame DEF Consistent
<1>5. ASSUME NEW state \in {"firing", "resolved"}, EnqueueSkipped(i, id, r, state)
      PROVE  Consistent'
  <2>0. InsertHistory(id, i, r, "none", "None", "skipped", Null)
    BY <1>5 DEF EnqueueSkipped
  <2>1. /\ \A j \in Ids \ {id} : alert_history'[j] = alert_history[j]
        /\ alert_history'[id] = [intent |-> i, rule |-> r, channel |-> "none",
               success |-> "None", delivery_status |-> "skipped", attempt_count |-> 0,
               notified_at |-> now, next_attempt_at |-> Null]
        /\ \A j \in Ids : Row(j)' => j <= last_id'
    BY <1>2, <2>0, ConsistentInsert
  <2>2. alert_notification_outbox' = alert_notification_outbox
    BY <1>5 DEF EnqueueSkipped
  <2>3. Agree(alert_history'[id], alert_notification_outbox'[id])
    BY <1>2, <1>3, <2>1, <2>2 DEF Agree, Queued, Waiting
  <2> QED
    BY <2>1, <2>2, <2>3, AgreeFrame DEF Consistent
<1>6. ASSUME NEW state \in {"firing", "resolved"}, EnqueuePending(i, id, r, state)
      PROVE  Consistent'
  <2>0. InsertHistory(id, i, r, ConfiguredChannel, "None", "pending", now)
    BY <1>6 DEF EnqueuePending
  <2>1. /\ \A j \in Ids \ {id} : alert_history'[j] = alert_history[j]
        /\ alert_history'[id] = [intent |-> i, rule |-> r, channel |-> ConfiguredChannel,
               success |-> "None", delivery_status |-> "pending", attempt_count |-> 0,
               notified_at |-> now, next_attempt_at |-> now]
        /\ \A j \in Ids : Row(j)' => j <= last_id'
    BY <1>2, <2>0, ConsistentInsert
  <2>2. alert_history'[id] # Null
    <3>1. ConfiguredChannel \in {"email", "mock", "none"} /\ now \in Nat
      BY DEF ConfiguredChannel, TypeInv, TypeOK
    <3>2. alert_history'[id] \in HistoryRow
      BY <2>1, <3>1 DEF HistoryRow, Waiting
    <3> QED
      BY <3>2, NullAssumption
  <2>3. /\ \A j \in Ids \ {id} : alert_notification_outbox'[j] = alert_notification_outbox[j]
        /\ alert_notification_outbox'[id] =
             [message_id |-> i, state |-> state, created_at |-> now,
              expires_at |-> now + RetryTTL, next_attempt_at |-> now]
    BY <1>6 DEF EnqueuePending, TypeInv, TypeOK
  <2>4. alert_notification_outbox'[id] # Null
    <3>1. now \in Nat /\ now + RetryTTL \in Nat
      BY RetryAssumption DEF TypeInv, TypeOK
    <3> QED
      BY <2>3, <3>1, NullAssumption DEF OutboxRow
  <2>5. Agree(alert_history'[id], alert_notification_outbox'[id])
    BY <2>1, <2>2, <2>3, <2>4 DEF Agree, Waiting
  <2> QED
    BY <2>1, <2>3, <2>5, AgreeFrame DEF Consistent
<1> QED
  BY <1>1, <1>4, <1>5, <1>6

LEMMA ConsistentClaim ==
  ASSUME TypeInv, Consistent, NEW p \in batch, ClaimExpired(p) \/ ClaimAttempt(p)
  PROVE  Consistent'
<1> DEFINE id == p[2]
           row == alert_notification_outbox[id]
<1>1. id \in Ids /\ Row(id) /\ Queued(id)
  BY DEF TypeInv, TypeOK, ClaimExpired, ClaimAttempt, Row, Queued
<1>2. alert_history[id] \in HistoryRow /\ row \in OutboxRow
  BY <1>1 DEF TypeInv, TypeOK, Row, Queued
<1>3. TypeInv'
  BY TypeClaim
<1>4. CASE ClaimExpired(p)
  <2>1. /\ \A j \in Ids \ {id} : /\ alert_history'[j] = alert_history[j]
                                 /\ alert_notification_outbox'[j] = alert_notification_outbox[j]
        /\ alert_history'[id] = [alert_history[id] EXCEPT !.success = "False",
               !.delivery_status = "failed", !.next_attempt_at = Null]
        /\ alert_notification_outbox'[id] = Null
        /\ last_id' = last_id
    BY <1>1, <1>4 DEF ClaimExpired, TypeInv, TypeOK
  <2>2. alert_history'[id].delivery_status = "failed" /\ alert_history'[id].next_attempt_at = Null
    BY <1>2, <2>1 DEF HistoryRow
  <2>3. Agree(alert_history'[id], alert_notification_outbox'[id])
    BY <2>1, <2>2 DEF Agree, Waiting
  <2>4. OutboxMatchesHistory'
    BY <1>1, <2>1, <2>3, AgreeFrame DEF Consistent
  <2> QED
    BY <1>1, <2>1, <2>4 DEF Consistent, Row
<1>5. CASE ClaimAttempt(p)
  <2> DEFINE attempt == alert_history[id].attempt_count + 1
             next == NextAttempt(now, attempt, row.expires_at)
  <2>1. /\ \A j \in Ids \ {id} : /\ alert_history'[j] = alert_history[j]
                                 /\ alert_notification_outbox'[j] = alert_notification_outbox[j]
        /\ alert_history'[id] = [alert_history[id] EXCEPT !.attempt_count = attempt,
               !.notified_at = now, !.next_attempt_at = next]
        /\ alert_notification_outbox'[id] = [row EXCEPT !.next_attempt_at = next]
        /\ last_id' = last_id
    BY <1>1, <1>5 DEF ClaimAttempt, TypeInv, TypeOK
  <2>0. next \in Nat /\ attempt \in Nat /\ now \in Nat
    <3>1. row.expires_at \in Nat /\ now \in Nat /\ attempt \in Nat \ {0}
      BY <1>2 DEF HistoryRow, OutboxRow, TypeInv, TypeOK
    <3> QED
      BY <3>1, NextAttemptType
  <2> HIDE DEF attempt, next
  <2>2. /\ alert_history'[id].delivery_status = alert_history[id].delivery_status
        /\ alert_history'[id].intent = alert_history[id].intent
        /\ alert_history'[id].next_attempt_at = next
        /\ alert_notification_outbox'[id].message_id = row.message_id
        /\ alert_notification_outbox'[id].next_attempt_at = next
    BY <1>2, <2>1 DEF HistoryRow, OutboxRow
  <2>3. alert_history'[id] # Null /\ alert_notification_outbox'[id] # Null
    <3>2. [alert_history[id] EXCEPT !.attempt_count = attempt, !.notified_at = now,
                                    !.next_attempt_at = next] \in HistoryRow
      BY <1>2, <2>0 DEF HistoryRow
    <3>3. [row EXCEPT !.next_attempt_at = next] \in OutboxRow
      BY <1>2, <2>0 DEF OutboxRow
    <3> QED
      BY <2>1, <3>2, <3>3, NullAssumption
  <2>4. alert_history[id].delivery_status \in Waiting /\ alert_history[id].intent = row.message_id
    BY <1>1 DEF Consistent, OutboxMatchesHistory
  <2>5. Agree(alert_history'[id], alert_notification_outbox'[id])
    BY <2>2, <2>3, <2>4 DEF Agree
  <2>6. OutboxMatchesHistory'
    BY <1>1, <2>1, <2>5, AgreeFrame DEF Consistent
  <2> QED
    BY <1>1, <2>1, <2>6 DEF Consistent, Row
<1> QED
  BY <1>4, <1>5

LEMMA ConsistentRecord == ASSUME TypeInv, Consistent, RecordResult PROVE Consistent'
<1> DEFINE id == item.id
           row == alert_notification_outbox[id]
           status == ResultStatus(row.expires_at)
           next == NextAttempt(outcome.finished, item.attempt, row.expires_at)
<1>1. item \in Item /\ outcome \in Outcome /\ id \in Ids
  BY DEF RecordResult, TypeInv, JobShape, Item
<1>2. CASE row = Null \/ alert_history[id] = Null
  BY <1>2 DEF RecordResult, tables, Consistent, OutboxMatchesHistory, Row, Queued
<1>3. CASE row # Null /\ alert_history[id] # Null
  <2>1. row \in OutboxRow /\ alert_history[id] \in HistoryRow
    BY <1>1, <1>3 DEF TypeInv, TypeOK
  <2>2. status \in Waiting \cup Final /\ (status \in Waiting <=> StaysQueued(status))
    BY <1>1 DEF ResultStatus, StaysQueued, Waiting, Final, Outcome
  <2>3. next \in Nat
    <3>1. outcome.finished \in Nat /\ item.attempt \in Nat \ {0} /\ row.expires_at \in Nat
      BY <1>1, <2>1 DEF Outcome, Item, OutboxRow
    <3> QED
      BY <3>1, NextAttemptType
  <2>4. /\ \A j \in Ids \ {id} : /\ alert_history'[j] = alert_history[j]
                                 /\ alert_notification_outbox'[j] = alert_notification_outbox[j]
        /\ alert_history'[id] = [alert_history[id] EXCEPT !.channel = outcome.channel,
               !.success = outcome.success, !.delivery_status = status,
               !.next_attempt_at = IF StaysQueued(status) THEN next ELSE Null]
        /\ alert_notification_outbox'[id] =
               IF StaysQueued(status) THEN [row EXCEPT !.next_attempt_at = next] ELSE Null
        /\ last_id' = last_id
    BY <1>1, <1>3 DEF RecordResult, TypeInv, TypeOK
  <2> HIDE DEF status, next
  <2>5. /\ alert_history'[id].delivery_status = status
        /\ alert_history'[id].intent = alert_history[id].intent
        /\ alert_history'[id].next_attempt_at = IF StaysQueued(status) THEN next ELSE Null
        /\ alert_history'[id] \in HistoryRow
    BY <1>1, <2>1, <2>2, <2>3, <2>4 DEF HistoryRow, Outcome
  <2>6. StaysQueued(status) => /\ alert_notification_outbox'[id].message_id = row.message_id
                              /\ alert_notification_outbox'[id].next_attempt_at = next
                              /\ alert_notification_outbox'[id] \in OutboxRow
    BY <2>1, <2>3, <2>4 DEF OutboxRow
  <2>7. alert_history[id].intent = row.message_id
    BY <1>1, <1>3 DEF Consistent, OutboxMatchesHistory, Queued
  <2>8. Agree(alert_history'[id], alert_notification_outbox'[id])
    BY <2>2, <2>4, <2>5, <2>6, <2>7, NullAssumption DEF Agree
  <2>9. OutboxMatchesHistory'
    BY <1>1, <2>4, <2>8, AgreeFrame DEF Consistent
  <2> QED
    BY <1>1, <1>3, <2>4, <2>9 DEF Consistent, Row
<1> QED
  BY <1>2, <1>3

LEMMA ConsistentDelete ==
  ASSUME TypeInv, Consistent, NEW ids \in SUBSET Ids, DeleteRows(ids), UNCHANGED last_id
  PROVE  Consistent'
BY DEF TypeInv, TypeOK, Consistent, OutboxMatchesHistory, DeleteRows, Row, Queued

LEMMA ConsistentFrame ==
  ASSUME Consistent, UNCHANGED tables
  PROVE  Consistent'
BY DEF Consistent, OutboxMatchesHistory, tables, Row, Queued

LEMMA ConsistentStep == TypeInv /\ Consistent /\ [Next]_vars => Consistent'
<1> SUFFICES ASSUME TypeInv, Consistent, [Next]_vars PROVE Consistent'
  OBVIOUS
<1>1. CASE Enqueue
  BY <1>1, ConsistentEnqueue
<1>2. ASSUME NEW p \in batch, ClaimExpired(p) \/ ClaimAttempt(p) PROVE Consistent'
  BY <1>2, ConsistentClaim
<1>3. CASE RecordResult
  BY <1>3, ConsistentRecord
<1>4. CASE DeleteHistory \/ DeleteRule
  BY <1>4, ConsistentDelete DEF DeleteHistory, DeleteRule, DeleteByAdmin
<1>5. CASE PurgeHistory
  BY <1>5, ConsistentDelete DEF PurgeHistory, Purgeable
<1>6. ASSUME NEW p \in batch, ClaimNothing(p) PROVE Consistent'
  BY <1>6, ConsistentFrame DEF ClaimNothing
<1>7. CASE SelectDue \/ EndBatch \/ FirstAttemptSnapshot \/ Recheck \/ Send
  BY <1>7, ConsistentFrame
     DEF SelectDue, EndBatch, FirstAttemptSnapshot, Recheck, Send, NotSent, SmtpAccepts, SmtpFails, Finish
<1>8. CASE Cancel \/ DatabaseError \/ Crash \/ Tick
  BY <1>8, ConsistentFrame DEF Cancel, DatabaseError, Crash, Tick
<1>9. CASE UNCHANGED vars
  BY <1>9, ConsistentFrame DEF vars
<1> QED
  BY <1>1, <1>2, <1>3, <1>4, <1>5, <1>6, <1>7, <1>8, <1>9
     DEF Next, DeliverNotifications, DeliverOne

(* The history page and the outbox never disagree, under every race of     *)
(* delivery, deletion, purge and crash, whichever way ids are handed out.  *)
THEOREM TablesAgree == Spec => []OutboxMatchesHistory
<1>1. Init => Consistent
  BY DEF Init, Consistent, OutboxMatchesHistory, Row, Queued
<1>2. TypeInv /\ Consistent /\ [Next]_vars => Consistent'
  BY ConsistentStep
<1>3. Consistent => OutboxMatchesHistory
  BY DEF Consistent
<1> QED
  BY <1>1, <1>2, <1>3, TypeCorrect, PTL DEF Spec

-----------------------------------------------------------------------------
(* A notification reported as mailed was accepted by the mail server.      *)
(* Needed beyond type and agreement: the job still delivers the row it     *)
(* claimed (an id is never reused), and an outcome of success has been     *)
(* earned by that very intent.                                             *)

Running == {"snapshot", "recheck", "send", "record"}

OwnsRow ==
    pc \in Running =>
        /\ item.id <= last_id
        /\ Row(item.id) => alert_history[item.id].intent = item.intent

OutcomeEarned ==
    pc = "record" /\ outcome.success = "True" /\ outcome.channel = "email"
    => accepted[item.intent] > 0

(* What SucceededWasMailed says of one history row.                        *)
Truthful(h, mails) ==
    /\ h.success = CASE h.delivery_status \in {"pending", "skipped"} -> "None"
                      [] h.delivery_status \in {"retrying", "failed"} -> "False"
                      [] h.delivery_status = "succeeded" -> "True"
    /\ h.delivery_status = "succeeded" /\ h.channel = "email" => mails[h.intent] > 0

ReportInv == OwnsRow /\ OutcomeEarned /\ SucceededWasMailed

LEMMA TruthfulEverywhere ==
  SucceededWasMailed <=> \A id \in Ids : Row(id) => Truthful(alert_history[id], accepted)
BY DEF SucceededWasMailed, Truthful

(* A step that changes the history of at most one id keeps every report    *)
(* true if it leaves that row true; acceptances are only added.            *)
LEMMA TruthfulFrame ==
  ASSUME TypeInv, SucceededWasMailed, NEW id \in Ids,
         \A j \in Ids \ {id} : alert_history'[j] = alert_history[j],
         Row(id)' => Truthful(alert_history'[id], accepted),
         UNCHANGED accepted
  PROVE  SucceededWasMailed'
<1>1. \A j \in Ids : Row(j)' => Truthful(alert_history'[j], accepted)
  BY TruthfulEverywhere DEF Row
<1> QED
  BY <1>1 DEF SucceededWasMailed, Truthful, Row

LEMMA ReportInsert ==
  ASSUME ~ReuseIds, TypeInv, Consistent, ReportInv, Enqueue
  PROVE  ReportInv'
<1>1. PICK i \in Intents, id \in Ids, r \in Rules :
          \/ EnqueueUnrenderable(i, id, r)
          \/ \E state \in {"firing", "resolved"} :
                 EnqueueSkipped(i, id, r, state) \/ EnqueuePending(i, id, r, state)
  BY DEF Enqueue
<1>2. FreshId(id) /\ UNCHANGED <<job, accepted>>
  BY <1>1 DEF EnqueueUnrenderable, EnqueueSkipped, EnqueuePending, CanRegister
<1>3. PICK channel \in {"email", "mock", "none"}, success \in {"None", "False"},
           status \in {"pending", "failed", "skipped"}, next \in Nat \cup {Null} :
          /\ InsertHistory(id, i, r, channel, success, status, next)
          /\ success = "False" <=> status = "failed"
  BY <1>1 DEF EnqueueUnrenderable, EnqueueSkipped, EnqueuePending, ConfiguredChannel, TypeInv, TypeOK
<1>4. /\ \A j \in Ids \ {id} : alert_history'[j] = alert_history[j]
      /\ alert_history'[id] = [intent |-> i, rule |-> r, channel |-> channel,
             success |-> success, delivery_status |-> status, attempt_count |-> 0,
             notified_at |-> now, next_attempt_at |-> next]
  BY <1>2, <1>3, ConsistentInsert
<1>5. SucceededWasMailed'
  <2>1. Truthful(alert_history'[id], accepted)
    BY <1>3, <1>4 DEF Truthful
  <2> QED
    BY <1>2, <1>4, <2>1, TruthfulFrame DEF ReportInv
<1>6. OwnsRow'
  <2>1. id = last_id + 1 /\ last_id' = id
    BY <1>2, <1>3 DEF FreshId, InsertHistory, TypeInv, TypeOK
  <2>2. pc \in Running => item.id \in Ids /\ item.id # id
    BY <2>1 DEF ReportInv, OwnsRow, Running, TypeInv, TypeOK, JobShape, Item, Ids
  <2> QED
    BY <1>2, <1>4, <2>1, <2>2 DEF ReportInv, OwnsRow, Row, job, Ids, TypeInv, TypeOK
<1>7. OutcomeEarned'
  BY <1>2 DEF ReportInv, OutcomeEarned, job
<1> QED
  BY <1>5, <1>6, <1>7 DEF ReportInv

LEMMA ReportClaim ==
  ASSUME TypeInv, Consistent, ReportInv, NEW p \in batch, ClaimExpired(p) \/ ClaimAttempt(p)
  PROVE  ReportInv'
<1> DEFINE id == p[2]
           row == alert_notification_outbox[id]
<1>1. id \in Ids /\ Row(id) /\ Queued(id) /\ pc = "loop" /\ UNCHANGED <<accepted, last_id>>
  BY DEF TypeInv, TypeOK, ClaimExpired, ClaimAttempt, NextInBatch, Row, Queued, ghosts
<1>2. alert_history[id] \in HistoryRow /\ row \in OutboxRow
  BY <1>1 DEF TypeInv, TypeOK, Row, Queued
<1>3. CASE ClaimExpired(p)
  <2>1. /\ \A j \in Ids \ {id} : alert_history'[j] = alert_history[j]
        /\ alert_history'[id] = [alert_history[id] EXCEPT !.success = "False",
               !.delivery_status = "failed", !.next_attempt_at = Null]
    BY <1>1, <1>3 DEF ClaimExpired, TypeInv, TypeOK
  <2>2. alert_history'[id].delivery_status = "failed" /\ alert_history'[id].success = "False"
    BY <1>2, <2>1 DEF HistoryRow
  <2>3. Truthful(alert_history'[id], accepted)
    BY <2>2 DEF Truthful
  <2>4. SucceededWasMailed'
    BY <1>1, <2>1, <2>3, TruthfulFrame DEF ReportInv
  <2> QED
    BY <1>1, <1>3, <2>4 DEF ReportInv, OwnsRow, OutcomeEarned, ClaimExpired, Running
<1>4. CASE ClaimAttempt(p)
  <2> DEFINE attempt == alert_history[id].attempt_count + 1
             next == NextAttempt(now, attempt, row.expires_at)
  <2>1. /\ \A j \in Ids \ {id} : alert_history'[j] = alert_history[j]
        /\ alert_history'[id] = [alert_history[id] EXCEPT !.attempt_count = attempt,
               !.notified_at = now, !.next_attempt_at = next]
        /\ item' = [id |-> id, intent |-> row.message_id, state |-> row.state,
                    attempt |-> attempt, mock |-> IsMock(id)]
        /\ pc' \in {"snapshot", "recheck"}
    BY <1>1, <1>4 DEF ClaimAttempt, TypeInv, TypeOK
  <2> HIDE DEF attempt, next
  <2>2. /\ alert_history'[id].delivery_status = alert_history[id].delivery_status
        /\ alert_history'[id].success = alert_history[id].success
        /\ alert_history'[id].channel = alert_history[id].channel
        /\ alert_history'[id].intent = alert_history[id].intent
    BY <1>2, <2>1 DEF HistoryRow
  <2>3. Truthful(alert_history[id], accepted)
    BY <1>1, TruthfulEverywhere DEF ReportInv
  <2>4. Truthful(alert_history'[id], accepted)
    BY <2>2, <2>3 DEF Truthful
  <2>5. SucceededWasMailed'
    BY <1>1, <2>1, <2>4, TruthfulFrame DEF ReportInv
  <2>6. alert_history[id].intent = row.message_id /\ id <= last_id
    BY <1>1 DEF Consistent, OutboxMatchesHistory
  <2> QED
    BY <1>1, <2>1, <2>2, <2>5, <2>6 DEF ReportInv, OwnsRow, OutcomeEarned
<1> QED
  BY <1>3, <1>4

LEMMA ReportItem ==
  ASSUME TypeInv, ReportInv, FirstAttemptSnapshot \/ Recheck \/ Send
  PROVE  ReportInv'
<1>1. CASE FirstAttemptSnapshot \/ Recheck
  BY <1>1 DEF FirstAttemptSnapshot, Recheck, LeaveItem, ReportInv, OwnsRow, OutcomeEarned,
              SucceededWasMailed, Running, Row, tables, ghosts
<1>2. CASE Send
  <2>1. item \in Item /\ pc = "send"
    BY <1>2 DEF Send, NotSent, SmtpAccepts, SmtpFails, TypeInv, JobShape
  <2>2. \A i \in Intents : accepted'[i] >= accepted[i]
    BY <1>2, <2>1 DEF Send, NotSent, SmtpAccepts, SmtpFails, TypeInv, TypeOK, Item
  <2>3. pc' = "record" /\ UNCHANGED <<alert_history, last_id, item>>
    BY <1>2 DEF Send, NotSent, SmtpAccepts, SmtpFails, Finish, tables
  <2>4. SucceededWasMailed'
    <3>1. \A id \in Ids : Row(id) => Truthful(alert_history[id], accepted)
      BY TruthfulEverywhere DEF ReportInv
    <3>2. ASSUME NEW id \in Ids, Row(id) PROVE Truthful(alert_history[id], accepted')
      <4>1. alert_history[id].intent \in Intents
        BY <3>2 DEF TypeInv, TypeOK, HistoryRow, Row
      <4>2. accepted[alert_history[id].intent] \in Nat /\ accepted'[alert_history[id].intent] \in Nat
        BY <4>1, <1>2, TypeItem DEF TypeInv, TypeOK
      <4>3. accepted'[alert_history[id].intent] >= accepted[alert_history[id].intent]
        BY <2>2, <4>1
      <4>4. Truthful(alert_history[id], accepted)
        BY <3>1, <3>2
      <4>5. accepted[alert_history[id].intent] > 0 => accepted'[alert_history[id].intent] > 0
        BY <4>2, <4>3
      <4> QED
        BY <4>4, <4>5 DEF Truthful
    <3> QED
      BY <2>3, <3>2 DEF SucceededWasMailed, Truthful, Row
  <2>5. OwnsRow'
    BY <2>1, <2>3 DEF ReportInv, OwnsRow, Running, Row
  <2>6. OutcomeEarned'
    BY <1>2, <2>1 DEF Send, NotSent, SmtpAccepts, SmtpFails, Finish, OutcomeEarned,
                      TypeInv, TypeOK, Item
  <2> QED
    BY <2>4, <2>5, <2>6 DEF ReportInv
<1> QED
  BY <1>1, <1>2

LEMMA ReportRecord == ASSUME TypeInv, ReportInv, RecordResult PROVE ReportInv'
<1> DEFINE id == item.id
           row == alert_notification_outbox[id]
           status == ResultStatus(row.expires_at)
           next == NextAttempt(outcome.finished, item.attempt, row.expires_at)
<1>1. item \in Item /\ outcome \in Outcome /\ id \in Ids /\ pc = "record"
  BY DEF RecordResult, TypeInv, JobShape, Item
<1>2. OwnsRow' /\ OutcomeEarned'
  BY DEF RecordResult, LeaveItem, OwnsRow, OutcomeEarned, Running
<1>3. UNCHANGED accepted
  BY DEF RecordResult, ghosts
<1>4. CASE row = Null \/ alert_history[id] = Null
  BY <1>2, <1>3, <1>4 DEF RecordResult, tables, ReportInv, SucceededWasMailed, Row
<1>5. CASE row # Null /\ alert_history[id] # Null
  <2>1. alert_history[id] \in HistoryRow
    BY <1>1, <1>5 DEF TypeInv, TypeOK
  <2>2. /\ outcome.success = "True" <=> status = "succeeded"
        /\ outcome.success = "None" <=> status = "skipped"
        /\ outcome.success = "False" <=> status \in {"failed", "retrying"}
    BY <1>1 DEF ResultStatus, Outcome
  <2>3. /\ \A j \in Ids \ {id} : alert_history'[j] = alert_history[j]
        /\ alert_history'[id] = [alert_history[id] EXCEPT !.channel = outcome.channel,
               !.success = outcome.success, !.delivery_status = status,
               !.next_attempt_at = IF StaysQueued(status) THEN next ELSE Null]
    BY <1>1, <1>5 DEF RecordResult, TypeInv, TypeOK
  <2> HIDE DEF status, next
  <2>4. /\ alert_history'[id].delivery_status = status
        /\ alert_history'[id].success = outcome.success
        /\ alert_history'[id].channel = outcome.channel
        /\ alert_history'[id].intent = item.intent
    BY <1>1, <1>5, <2>1, <2>3 DEF HistoryRow, ReportInv, OwnsRow, Running, Row
  <2>5. status \in {"succeeded", "skipped", "failed", "retrying"}
    BY <1>1, <2>2 DEF Outcome
  <2>6. Truthful(alert_history'[id], accepted)
    BY <1>1, <2>2, <2>4, <2>5 DEF Truthful, ReportInv, OutcomeEarned
  <2>7. SucceededWasMailed'
    BY <1>1, <1>3, <2>3, <2>6, TruthfulFrame DEF ReportInv
  <2> QED
    BY <1>2, <2>7 DEF ReportInv
<1> QED
  BY <1>4, <1>5

LEMMA ReportDelete ==
  ASSUME TypeInv, ReportInv, NEW ids \in SUBSET Ids, DeleteRows(ids),
         UNCHANGED <<last_id, job, accepted>>
  PROVE  ReportInv'
<1>1. \A id \in Ids : Row(id)' => Row(id) /\ alert_history'[id] = alert_history[id]
  BY DEF DeleteRows, Row, TypeInv, TypeOK
<1>2. SucceededWasMailed'
  BY <1>1 DEF ReportInv, SucceededWasMailed, Row
<1>3. pc \in Running => item.id \in Ids
  BY DEF TypeInv, JobShape, Running, Item
<1> QED
  BY <1>1, <1>2, <1>3 DEF ReportInv, OwnsRow, OutcomeEarned, job

LEMMA ReportFrame ==
  ASSUME ReportInv, UNCHANGED <<alert_history, last_id, accepted>>,
         pc' \in Running => UNCHANGED <<pc, item, outcome>>
  PROVE  ReportInv'
BY DEF ReportInv, OwnsRow, OutcomeEarned, SucceededWasMailed, Row, Running

LEMMA ReportStep ==
  ASSUME ~ReuseIds
  PROVE  TypeInv /\ Consistent /\ ReportInv /\ [Next]_vars => ReportInv'
<1> SUFFICES ASSUME TypeInv, Consistent, ReportInv, [Next]_vars PROVE ReportInv'
  OBVIOUS
<1>1. CASE Enqueue
  BY <1>1, ReportInsert
<1>2. ASSUME NEW p \in batch, ClaimExpired(p) \/ ClaimAttempt(p) PROVE ReportInv'
  BY <1>2, ReportClaim
<1>3. CASE RecordResult
  BY <1>3, ReportRecord
<1>4. CASE DeleteHistory \/ DeleteRule
  BY <1>4, ReportDelete DEF DeleteHistory, DeleteRule, DeleteByAdmin
<1>5. CASE PurgeHistory
  BY <1>5, ReportDelete DEF PurgeHistory, Purgeable, ghosts
<1>6. ASSUME NEW p \in batch, ClaimNothing(p) PROVE ReportInv'
  BY <1>6, ReportFrame DEF ClaimNothing, tables, ghosts
<1>7. CASE FirstAttemptSnapshot \/ Recheck \/ Send
  BY <1>7, ReportItem
<1>8. CASE SelectDue \/ EndBatch
  BY <1>8, ReportFrame DEF SelectDue, EndBatch, tables, ghosts, Running
<1>9. CASE Cancel \/ DatabaseError \/ Crash \/ Tick
  BY <1>9, ReportFrame DEF Cancel, DatabaseError, Crash, Tick, LeaveItem, tables, job, ghosts, Running
<1>10. CASE UNCHANGED vars
  BY <1>10, ReportFrame DEF vars, tables, job, ghosts
<1> QED
  BY <1>1, <1>2, <1>3, <1>4, <1>5, <1>6, <1>7, <1>8, <1>9, <1>10
     DEF Next, DeliverNotifications, DeliverOne

(* With ids that are never reused (PostgreSQL), a notification reported as *)
(* mailed was mailed, whatever is deleted, purged or restarted meanwhile.  *)
(* Without the assumption it is false: the run delivery_rowid_result.      *)
THEOREM ReportsAreTrue ==
  ASSUME ~ReuseIds
  PROVE  Spec => []SucceededWasMailed
<1>1. Init => Consistent /\ ReportInv
  BY DEF Init, Consistent, OutboxMatchesHistory, Row, Queued,
         ReportInv, OwnsRow, OutcomeEarned, SucceededWasMailed, Running
<1>2. TypeInv /\ Consistent /\ ReportInv /\ [Next]_vars => (Consistent /\ ReportInv)'
  BY ConsistentStep, ReportStep
<1>3. ReportInv => SucceededWasMailed
  BY DEF ReportInv
<1> QED
  BY <1>1, <1>2, <1>3, TypeCorrect, PTL DEF Spec

-----------------------------------------------------------------------------
(***************************************************************************)
(* What AlertDelivery keeps of its promises: nothing waiting is lost,      *)
(* nothing deleted is sent, mails and snapshots are explained, attempts    *)
(* keep their distance, and the tables refine NotificationPromise.         *)
(***************************************************************************)

(* What a step does to the history, whichever action takes it.             *)

(* Another row, of an intent not registered before.                        *)
Inserts(i, id) ==
    /\ ~Row(id) /\ alert_history'[id] # Null /\ origin[i] = "unregistered"
    /\ \A j \in Ids \ {id} : alert_history'[j] = alert_history[j]
    /\ alert_history'[id].intent = i
    /\ alert_history'[id].attempt_count = 0
    /\ alert_history'[id].delivery_status \in {"pending", "failed", "skipped"}
    /\ alert_history'[id].delivery_status = "pending"
          => alert_history'[id].channel = ConfiguredChannel
    /\ origin' = [origin EXCEPT ![i] = ConfiguredChannel]
    /\ UNCHANGED <<job, accepted, lost, deleted>>

(* A row is written again; whose it is does not change.                    *)
Updates(id) ==
    /\ Row(id) /\ alert_history'[id] # Null
    /\ \A j \in Ids \ {id} : alert_history'[j] = alert_history[j]
    /\ alert_history'[id].intent = alert_history[id].intent
    /\ UNCHANGED ghosts

Removes(ids) ==
    /\ \A j \in Ids : alert_history'[j] = IF j \in ids THEN Null ELSE alert_history[j]
    /\ UNCHANGED <<job, origin, accepted, lost, snapshots>>

LEMMA EnqueueInserts ==
  ASSUME TypeInv, Consistent, Enqueue
  PROVE  \E i \in Intents, id \in Ids :
            /\ Inserts(i, id)
            /\ \/ UNCHANGED snapshots
               \/ /\ alert_history'[id].delivery_status # "pending"
                  /\ snapshots' = [snapshots EXCEPT ![i] = @ + 1]
<1>1. PICK i \in Intents, id \in Ids, r \in Rules :
          \/ EnqueueUnrenderable(i, id, r)
          \/ \E state \in {"firing", "resolved"} :
                 EnqueueSkipped(i, id, r, state) \/ EnqueuePending(i, id, r, state)
  BY DEF Enqueue
<1>2. FreshId(id) /\ ~Row(id) /\ origin[i] = "unregistered"
  BY <1>1, FreshIsUnused DEF EnqueueUnrenderable, EnqueueSkipped, EnqueuePending, CanRegister
<1>3. /\ origin' = [origin EXCEPT ![i] = ConfiguredChannel]
      /\ UNCHANGED <<job, accepted, lost, deleted>>
  BY <1>1 DEF EnqueueUnrenderable, EnqueueSkipped, EnqueuePending
<1>4. ConfiguredChannel \in {"email", "mock", "none"}
  BY DEF ConfiguredChannel
<1>5. PICK channel \in {"email", "mock", "none"}, success \in {"None", "False"},
           status \in {"pending", "failed", "skipped"}, next \in Nat \cup {Null} :
          /\ InsertHistory(id, i, r, channel, success, status, next)
          /\ status = "pending" => channel = ConfiguredChannel
          /\ \/ UNCHANGED snapshots
             \/ status # "pending" /\ snapshots' = [snapshots EXCEPT ![i] = @ + 1]
  <2>1. now \in Nat
    BY DEF TypeInv, TypeOK
  <2> QED
    BY <1>1, <1>4, <2>1 DEF EnqueueUnrenderable, EnqueueSkipped, EnqueuePending, SaveSnapshot
<1>6. /\ \A j \in Ids \ {id} : alert_history'[j] = alert_history[j]
      /\ alert_history'[id] = [intent |-> i, rule |-> r, channel |-> channel,
             success |-> success, delivery_status |-> status, attempt_count |-> 0,
             notified_at |-> now, next_attempt_at |-> next]
  BY <1>2, <1>5, ConsistentInsert
<1>7. alert_history'[id] # Null
  <2>1. alert_history'[id] \in HistoryRow
    BY <1>6 DEF HistoryRow, Waiting, Final, TypeInv, TypeOK
  <2> QED
    BY <2>1, NullAssumption
<1>8. Inserts(i, id)
  BY <1>2, <1>3, <1>5, <1>6, <1>7 DEF Inserts
<1> QED
  BY <1>5, <1>6, <1>8

LEMMA ClaimUpdates ==
  ASSUME TypeInv, Consistent, NEW p \in batch, ClaimExpired(p) \/ ClaimAttempt(p)
  PROVE  /\ p[2] \in Ids /\ Queued(p[2]) /\ Updates(p[2])
         /\ alert_history[p[2]].delivery_status \in Waiting
         /\ alert_history'[p[2]].channel = alert_history[p[2]].channel
         /\ ClaimExpired(p) => alert_history'[p[2]].delivery_status = "failed"
         /\ ClaimAttempt(p) =>
               /\ alert_history'[p[2]].delivery_status = alert_history[p[2]].delivery_status
               /\ alert_history'[p[2]].attempt_count = alert_history[p[2]].attempt_count + 1
               /\ alert_history[p[2]].attempt_count \in Nat
               /\ item'.id = p[2] /\ item'.intent = alert_history[p[2]].intent
               /\ item'.mock = IsMock(p[2])
               /\ pc' = IF alert_history[p[2]].attempt_count = 0 THEN "snapshot" ELSE "recheck"
<1> DEFINE id == p[2]
           row == alert_notification_outbox[id]
<1>1. id \in Ids /\ Row(id) /\ Queued(id)
  BY DEF TypeInv, TypeOK, ClaimExpired, ClaimAttempt, Row, Queued
<1>2. alert_history[id] \in HistoryRow /\ alert_history[id].attempt_count \in Nat
  BY <1>1 DEF TypeInv, TypeOK, Row, HistoryRow
<1>3. alert_history[id].delivery_status \in Waiting /\ alert_history[id].intent = row.message_id
  BY <1>1 DEF Consistent, OutboxMatchesHistory
<1>4. TypeInv' /\ UNCHANGED ghosts
  BY TypeClaim DEF ClaimExpired, ClaimAttempt
<1>5. CASE ClaimExpired(p)
  <2>1. /\ \A j \in Ids \ {id} : alert_history'[j] = alert_history[j]
        /\ alert_history'[id] = [alert_history[id] EXCEPT !.success = "False",
               !.delivery_status = "failed", !.next_attempt_at = Null]
    BY <1>1, <1>5 DEF ClaimExpired, TypeInv, TypeOK
  <2>2. /\ alert_history'[id].delivery_status = "failed"
        /\ alert_history'[id].intent = alert_history[id].intent
        /\ alert_history'[id].channel = alert_history[id].channel
        /\ alert_history'[id] \in HistoryRow
    BY <1>2, <2>1 DEF HistoryRow, Final
  <2>3. Updates(id)
    BY <1>1, <1>4, <2>1, <2>2, NullAssumption DEF Updates, Row
  <2>4. ~ClaimAttempt(p)
    <3>1. row \in OutboxRow /\ row.expires_at \in Nat /\ now \in Nat
      BY <1>1 DEF TypeInv, TypeOK, Queued, OutboxRow
    <3> QED
      BY <1>5, <3>1 DEF ClaimExpired, ClaimAttempt
  <2> QED
    BY <1>1, <1>3, <2>2, <2>3, <2>4
<1>6. CASE ClaimAttempt(p)
  <2> DEFINE attempt == alert_history[id].attempt_count + 1
             next == NextAttempt(now, attempt, row.expires_at)
  <2>0. row \in OutboxRow /\ row.expires_at \in Nat /\ now \in Nat /\ attempt \in Nat \ {0}
    BY <1>1, <1>2 DEF TypeInv, TypeOK, Queued, OutboxRow
  <2>1. next \in Nat
    BY <2>0, NextAttemptType
  <2>2. /\ \A j \in Ids \ {id} : alert_history'[j] = alert_history[j]
        /\ alert_history'[id] = [alert_history[id] EXCEPT !.attempt_count = attempt,
               !.notified_at = now, !.next_attempt_at = next]
    BY <1>1, <1>6 DEF ClaimAttempt, TypeInv, TypeOK
  <2>3. /\ item' = [id |-> id, intent |-> row.message_id, state |-> row.state,
                    attempt |-> attempt, mock |-> IsMock(id)]
        /\ pc' = IF IsFirst(attempt) THEN "snapshot" ELSE "recheck"
    BY <1>6 DEF ClaimAttempt
  <2>4. IsFirst(attempt) <=> alert_history[id].attempt_count = 0
    BY <1>2 DEF IsFirst
  <2> HIDE DEF next
  <2>5. alert_history'[id] \in HistoryRow
    BY <1>2, <2>0, <2>1, <2>2 DEF HistoryRow
  <2>6. /\ alert_history'[id].delivery_status = alert_history[id].delivery_status
        /\ alert_history'[id].intent = alert_history[id].intent
        /\ alert_history'[id].channel = alert_history[id].channel
        /\ alert_history'[id].attempt_count = attempt
    BY <1>2, <2>2 DEF HistoryRow
  <2>7. Updates(id)
    BY <1>1, <1>4, <2>2, <2>5, <2>6, NullAssumption DEF Updates, Row
  <2>8. ~ClaimExpired(p)
    BY <1>6, <2>0 DEF ClaimAttempt, ClaimExpired
  <2> QED
    BY <1>1, <1>2, <1>3, <2>3, <2>4, <2>6, <2>7, <2>8
<1> QED
  BY <1>5, <1>6

LEMMA RecordUpdates ==
  ASSUME TypeInv, Consistent, RecordResult
  PROVE  /\ UNCHANGED ghosts /\ pc' = "loop"
         /\ \/ UNCHANGED tables /\ ~Queued(item.id)
            \/ /\ item.id \in Ids /\ Updates(item.id)
               /\ alert_history[item.id].delivery_status \in Waiting
               /\ alert_history'[item.id].channel = outcome.channel
               /\ alert_history'[item.id].attempt_count = alert_history[item.id].attempt_count
               /\ alert_history'[item.id].delivery_status \in
                     CASE outcome.success = "True" -> {"succeeded"}
                       [] outcome.success = "None" -> {"skipped"}
                       [] outcome.success = "False" -> {"failed", "retrying"}
<1> DEFINE id == item.id
           row == alert_notification_outbox[id]
           status == ResultStatus(row.expires_at)
           next == NextAttempt(outcome.finished, item.attempt, row.expires_at)
<1>1. item \in Item /\ outcome \in Outcome /\ id \in Ids /\ UNCHANGED ghosts /\ pc' = "loop"
  BY DEF RecordResult, LeaveItem, TypeInv, JobShape, Item
<1>2. CASE row = Null \/ alert_history[id] = Null
  BY <1>1, <1>2 DEF RecordResult, Consistent, OutboxMatchesHistory, Row, Queued
<1>3. CASE row # Null /\ alert_history[id] # Null
  <2>1. row \in OutboxRow /\ alert_history[id] \in HistoryRow
    BY <1>1, <1>3 DEF TypeInv, TypeOK
  <2>2. status \in CASE outcome.success = "True" -> {"succeeded"}
                     [] outcome.success = "None" -> {"skipped"}
                     [] outcome.success = "False" -> {"failed", "retrying"}
    BY <1>1 DEF ResultStatus, Outcome
  <2>3. next \in Nat
    <3>1. outcome.finished \in Nat /\ item.attempt \in Nat \ {0} /\ row.expires_at \in Nat
      BY <1>1, <2>1 DEF Outcome, Item, OutboxRow
    <3> QED
      BY <3>1, NextAttemptType
  <2>4. /\ \A j \in Ids \ {id} : alert_history'[j] = alert_history[j]
        /\ alert_history'[id] = [alert_history[id] EXCEPT !.channel = outcome.channel,
               !.success = outcome.success, !.delivery_status = status,
               !.next_attempt_at = IF StaysQueued(status) THEN next ELSE Null]
    BY <1>1, <1>3 DEF RecordResult, TypeInv, TypeOK
  <2> HIDE DEF status, next
  <2>5. status \in Waiting \cup Final
    BY <1>1, <2>2 DEF Outcome, Waiting, Final
  <2>6. /\ alert_history'[id].delivery_status = status
        /\ alert_history'[id].intent = alert_history[id].intent
        /\ alert_history'[id].channel = outcome.channel
        /\ alert_history'[id].attempt_count = alert_history[id].attempt_count
        /\ alert_history'[id] \in HistoryRow
    BY <1>1, <2>1, <2>3, <2>4, <2>5 DEF HistoryRow, Outcome
  <2>7. alert_history[id].delivery_status \in Waiting
    BY <1>1, <1>3 DEF Consistent, OutboxMatchesHistory, Queued
  <2>8. Updates(id)
    BY <1>1, <1>3, <2>4, <2>6, NullAssumption DEF Updates, Row
  <2> QED
    BY <1>1, <2>2, <2>6, <2>7, <2>8
<1> QED
  BY <1>2, <1>3

(* Deletions by an administrator and the purge remove rows, and the purge   *)
(* none that waits.                                                        *)
LEMMA DeletionRemoves ==
  ASSUME TypeInv, DeleteHistory \/ DeleteRule \/ PurgeHistory
  PROVE  \E ids \in SUBSET Ids :
            /\ Removes(ids)
            /\ \A id \in ids : Row(id)
            /\ deleted' \subseteq deleted \cup {alert_history[id].intent : id \in ids}
            /\ deleted \subseteq deleted'
            /\ \A id \in ids : \/ alert_history[id].intent \in deleted'
                               \/ alert_history[id].delivery_status \notin Waiting
<1>1. ASSUME NEW ids \in SUBSET Ids, \A id \in ids : Row(id), DeleteByAdmin(ids)
      PROVE  /\ Removes(ids)
             /\ deleted' = deleted \cup {alert_history[id].intent : id \in ids}
  BY <1>1 DEF DeleteByAdmin, DeleteRows, Removes
<1>2. CASE DeleteHistory
  <2>1. PICK id \in Ids : Row(id) /\ DeleteByAdmin({id})
    BY <1>2 DEF DeleteHistory, Row
  <2> WITNESS {id} \in SUBSET Ids
  <2> QED
    BY <1>1, <2>1
<1>3. CASE DeleteRule
  <2>1. PICK r \in Rules :
            DeleteByAdmin({id \in Ids : alert_history[id] # Null /\ alert_history[id].rule = r})
    BY <1>3 DEF DeleteRule
  <2> DEFINE ids == {id \in Ids : alert_history[id] # Null /\ alert_history[id].rule = r}
  <2>2. \A id \in ids : Row(id)
    BY DEF Row
  <2> HIDE DEF ids
  <2>3. ids \in SUBSET Ids
    BY DEF ids
  <2> WITNESS ids \in SUBSET Ids
  <2> QED
    BY <1>1, <2>1, <2>2, <2>3 DEF ids
<1>4. CASE PurgeHistory
  <2>0. Purgeable \in SUBSET Ids
    BY DEF Purgeable
  <2> WITNESS Purgeable \in SUBSET Ids
  <2>1. Removes(Purgeable) /\ deleted' = deleted
    BY <1>4 DEF PurgeHistory, DeleteRows, Removes, ghosts
  <2> QED
    BY <2>1 DEF Purgeable, Row
<1> QED
  BY <1>2, <1>3, <1>4

(* Every other step leaves the history alone.                              *)
LEMMA OthersKeepHistory ==
  ASSUME [Next]_vars, ~Enqueue, ~RecordResult, ~DeleteHistory, ~DeleteRule, ~PurgeHistory,
         \A p \in batch : ~ClaimExpired(p) /\ ~ClaimAttempt(p)
  PROVE  UNCHANGED <<tables, origin, deleted>>
<1>1. CASE \E p \in batch : ClaimNothing(p)
  BY <1>1 DEF ClaimNothing, ghosts
<1>2. CASE SelectDue \/ EndBatch \/ FirstAttemptSnapshot \/ Recheck \/ Send
  BY <1>2 DEF SelectDue, EndBatch, FirstAttemptSnapshot, Recheck, Send, NotSent, SmtpAccepts,
              SmtpFails, Finish, ghosts
<1>3. CASE Cancel \/ DatabaseError \/ Crash \/ Tick
  BY <1>3 DEF Cancel, DatabaseError, Crash, Tick, ghosts
<1>4. CASE UNCHANGED vars
  BY <1>4 DEF vars, ghosts
<1> QED
  BY <1>1, <1>2, <1>3, <1>4 DEF Next, DeliverNotifications, DeliverOne

-----------------------------------------------------------------------------
(* Nothing waiting is lost.                                                *)

LEMMA WaitingStays ==
  ASSUME TypeInv, Consistent, [Next]_vars, NEW id \in Ids, Queued(id), alert_history'[id] = Null
  PROVE  alert_history[id].intent \in deleted'
<1>1. Row(id) /\ alert_history[id].delivery_status \in Waiting
  BY DEF Consistent, OutboxMatchesHistory
<1>2. ~Enqueue
  <2>1. ASSUME NEW i \in Intents, NEW j \in Ids, Inserts(i, j) PROVE FALSE
    BY <1>1, <2>1 DEF Inserts, Row
  <2> QED
    BY <2>1, EnqueueInserts
<1>3. \A p \in batch : ~ClaimExpired(p) /\ ~ClaimAttempt(p)
  <2>1. ASSUME NEW p \in batch, ClaimExpired(p) \/ ClaimAttempt(p) PROVE FALSE
    BY <1>1, <2>1, ClaimUpdates DEF Updates, Row
  <2> QED
    BY <2>1
<1>4. ~RecordResult
  BY <1>1, RecordUpdates DEF Updates, Row, tables
<1>5. CASE DeleteHistory \/ DeleteRule \/ PurgeHistory
  BY <1>1, <1>5, DeletionRemoves DEF Removes, Row
<1>6. CASE ~(DeleteHistory \/ DeleteRule \/ PurgeHistory)
  BY <1>1, <1>2, <1>3, <1>4, <1>6, OthersKeepHistory DEF tables, Row
<1> QED
  BY <1>5, <1>6

LEMMA ConsistentInit == Init => Consistent
BY DEF Init, Consistent, OutboxMatchesHistory, Row, Queued

(* Whatever the job, the purge and the failures do, a notification that is *)
(* still waiting leaves the history only by an administrator's deletion.   *)
THEOREM NothingWaitingIsLost == Spec => WaitingNeverLost
<1>1. TypeInv /\ Consistent /\ [Next]_vars =>
        [\A id \in Ids : Queued(id) /\ alert_history'[id] = Null
                         => alert_history[id].intent \in deleted']_vars
  BY WaitingStays
<1> QED
  BY <1>1, ConsistentInit, ConsistentStep, TypeCorrect, PTL DEF Spec, WaitingNeverLost

-----------------------------------------------------------------------------
(* Whose a row is.                                                         *)

(* An intent has at most one row, it was registered, and an administrator  *)
(* has not deleted it; what was deleted had been registered.               *)
RowsKnown ==
    /\ \A j, k \in Ids :
          Row(j) /\ Row(k) /\ alert_history[j].intent = alert_history[k].intent => j = k
    /\ \A j \in Ids :
          Row(j) => /\ origin[alert_history[j].intent] # "unregistered"
                    /\ alert_history[j].intent \notin deleted
    /\ \A i \in deleted : origin[i] # "unregistered"

(* The intent in delivery has no row but the one that was claimed.         *)
ItemKnown ==
    pc \in Running =>
        /\ origin[item.intent] # "unregistered"
        /\ \A j \in Ids : Row(j) /\ alert_history[j].intent = item.intent => j = item.id

IntentInv == RowsKnown /\ ItemKnown

LEMMA RowIntent ==
  ASSUME TypeInv, NEW j \in Ids, Row(j)
  PROVE  alert_history[j] \in HistoryRow /\ alert_history[j].intent \in Intents
BY DEF TypeInv, TypeOK, Row, HistoryRow

LEMMA IntentInserts ==
  ASSUME TypeInv, Consistent, IntentInv, Enqueue
  PROVE  IntentInv'
<1>1. PICK i \in Intents, id \in Ids : Inserts(i, id)
  BY EnqueueInserts
<1>2. /\ \A k \in Intents \ {i} : origin'[k] = origin[k]
      /\ origin'[i] # "unregistered"
  BY <1>1 DEF Inserts, TypeInv, TypeOK, ConfiguredChannel
<1>3. \A j \in Ids : Row(j) => alert_history[j].intent # i /\ j # id
  BY <1>1 DEF Inserts, IntentInv, RowsKnown
<1>4. \A j \in Ids : Row(j)' => j = id \/ (Row(j) /\ alert_history'[j] = alert_history[j])
  BY <1>1 DEF Inserts, Row
<1>5. RowsKnown'
  <2>1. \A j, k \in Ids : Row(j)' /\ Row(k)' /\ alert_history'[j].intent = alert_history'[k].intent
                          => j = k
    BY <1>1, <1>3, <1>4 DEF Inserts, IntentInv, RowsKnown
  <2>2. i \notin deleted /\ deleted' = deleted
    BY <1>1 DEF Inserts, IntentInv, RowsKnown
  <2>3. \A j \in Ids : Row(j)' => /\ origin'[alert_history'[j].intent] # "unregistered"
                                  /\ alert_history'[j].intent \notin deleted'
    BY <1>1, <1>2, <1>3, <1>4, <2>2, RowIntent DEF Inserts, IntentInv, RowsKnown
  <2>4. \A k \in deleted' : origin'[k] # "unregistered"
    BY <1>2, <2>2 DEF IntentInv, RowsKnown, TypeInv, TypeOK
  <2> QED
    BY <2>1, <2>2, <2>3, <2>4 DEF RowsKnown, Row
<1>6. ItemKnown'
  <2>1. UNCHANGED job
    BY <1>1 DEF Inserts
  <2>2. ASSUME pc \in Running PROVE item.intent \in Intents /\ item.intent # i
    BY <1>1, <2>2 DEF Inserts, IntentInv, ItemKnown, TypeInv, JobShape, Running, Item
  <2> QED
    BY <1>1, <1>2, <1>4, <2>1, <2>2 DEF job, Inserts, IntentInv, ItemKnown, Row
<1> QED
  BY <1>5, <1>6 DEF IntentInv

LEMMA IntentUpdates ==
  ASSUME TypeInv, IntentInv, NEW id \in Ids, Updates(id),
         pc' \in Running => \/ pc \in Running /\ item' = item
                            \/ item'.id = id /\ item'.intent = alert_history[id].intent
  PROVE  IntentInv'
<1>1. \A j \in Ids : Row(j)' => Row(j) /\ alert_history'[j].intent = alert_history[j].intent
  BY DEF Updates, Row
<1>2. UNCHANGED <<origin, deleted>>
  BY DEF Updates, ghosts
<1>3. RowsKnown'
  BY <1>1, <1>2 DEF IntentInv, RowsKnown
<1>4. ItemKnown'
  BY <1>1, <1>2 DEF IntentInv, RowsKnown, ItemKnown, Updates
<1> QED
  BY <1>3, <1>4 DEF IntentInv

LEMMA IntentRemoves ==
  ASSUME TypeInv, IntentInv, DeleteHistory \/ DeleteRule \/ PurgeHistory
  PROVE  IntentInv'
<1>1. PICK ids \in SUBSET Ids :
          /\ Removes(ids)
          /\ \A id \in ids : Row(id)
          /\ deleted' \subseteq deleted \cup {alert_history[id].intent : id \in ids}
  BY DeletionRemoves
<1>2. \A j \in Ids : Row(j)' => Row(j) /\ j \notin ids /\ alert_history'[j] = alert_history[j]
  BY <1>1 DEF Removes, Row
<1>3. UNCHANGED <<origin, job>>
  BY <1>1 DEF Removes
<1>4. RowsKnown'
  <2>1. \A j \in Ids : Row(j)' => alert_history'[j].intent \notin deleted'
    BY <1>1, <1>2 DEF IntentInv, RowsKnown
  <2>2. \A i \in deleted' : origin[i] # "unregistered"
    BY <1>1 DEF IntentInv, RowsKnown
  <2> QED
    BY <1>2, <1>3, <2>1, <2>2 DEF IntentInv, RowsKnown
<1>5. ItemKnown'
  BY <1>2, <1>3 DEF IntentInv, ItemKnown, job
<1> QED
  BY <1>4, <1>5 DEF IntentInv

LEMMA IntentFrame ==
  ASSUME IntentInv, UNCHANGED <<alert_history, origin, deleted>>,
         pc' \in Running => pc \in Running /\ item' = item
  PROVE  IntentInv'
BY DEF IntentInv, RowsKnown, ItemKnown, Row

(* Steps that leave the tables alone begin no delivery.                    *)
LEMMA OthersKeepItem ==
  ASSUME [Next]_vars, ~Enqueue, ~RecordResult, ~DeleteHistory, ~DeleteRule, ~PurgeHistory,
         \A p \in batch : ~ClaimExpired(p) /\ ~ClaimAttempt(p)
  PROVE  pc' \in Running => pc \in Running /\ item' = item
<1>1. CASE \E p \in batch : ClaimNothing(p)
  BY <1>1 DEF ClaimNothing
<1>2. CASE SelectDue \/ EndBatch \/ FirstAttemptSnapshot \/ Recheck \/ Send
  BY <1>2 DEF SelectDue, EndBatch, FirstAttemptSnapshot, Recheck, Send, NotSent, SmtpAccepts,
              SmtpFails, Finish, LeaveItem, Running
<1>3. CASE Cancel \/ DatabaseError \/ Crash \/ Tick
  BY <1>3 DEF Cancel, DatabaseError, Crash, Tick, LeaveItem, job, Running
<1>4. CASE UNCHANGED vars
  BY <1>4 DEF vars, job
<1> QED
  BY <1>1, <1>2, <1>3, <1>4 DEF Next, DeliverNotifications, DeliverOne

LEMMA IntentStep == TypeInv /\ Consistent /\ IntentInv /\ [Next]_vars => IntentInv'
<1> SUFFICES ASSUME TypeInv, Consistent, IntentInv, [Next]_vars PROVE IntentInv'
  OBVIOUS
<1>1. CASE Enqueue
  BY <1>1, IntentInserts
<1>2. ASSUME NEW p \in batch, ClaimExpired(p) PROVE IntentInv'
  <2>1. p[2] \in Ids /\ Updates(p[2]) /\ pc' = pc /\ item' = item
    BY <1>2, ClaimUpdates DEF ClaimExpired
  <2> QED
    BY <2>1, IntentUpdates
<1>3. ASSUME NEW p \in batch, ClaimAttempt(p) PROVE IntentInv'
  <2>1. /\ p[2] \in Ids /\ Updates(p[2])
        /\ item'.id = p[2] /\ item'.intent = alert_history[p[2]].intent
    BY <1>3, ClaimUpdates
  <2> QED
    BY <2>1, IntentUpdates
<1>4. CASE RecordResult
  <2>1. pc' \notin Running
    BY <1>4, RecordUpdates DEF Running
  <2> QED
    BY <1>4, <2>1, RecordUpdates, IntentUpdates, IntentFrame DEF tables, ghosts
<1>5. CASE DeleteHistory \/ DeleteRule \/ PurgeHistory
  BY <1>5, IntentRemoves
<1>6. CASE ~(DeleteHistory \/ DeleteRule \/ PurgeHistory \/ Enqueue \/ RecordResult)
           /\ \A p \in batch : ~ClaimExpired(p) /\ ~ClaimAttempt(p)
  BY <1>6, OthersKeepHistory, OthersKeepItem, IntentFrame DEF tables
<1> QED
  BY <1>1, <1>2, <1>3, <1>4, <1>5, <1>6

LEMMA IntentInit == Init => IntentInv
BY DEF Init, IntentInv, RowsKnown, ItemKnown, Row, Running

-----------------------------------------------------------------------------
(* Nothing deleted is sent.                                                *)

LEMMA SendsKnown ==
  ASSUME TypeInv, Consistent, OwnsRow, IntentInv, [Next]_vars, pc' = "send", pc # "send"
  PROVE  item.intent \notin deleted
<1>1. Recheck
  BY ZenonT(60) DEF Next, vars, job, Enqueue, EnqueueUnrenderable, EnqueueSkipped, EnqueuePending,
         DeliverNotifications, SelectDue, EndBatch, DeliverOne, ClaimNothing, ClaimExpired,
         ClaimAttempt, FirstAttemptSnapshot, Send, NotSent, SmtpAccepts, SmtpFails, Finish,
         RecordResult, LeaveItem, Cancel, DatabaseError, Crash, DeleteHistory, DeleteRule,
         DeleteByAdmin, PurgeHistory, Tick
<1>2. pc \in Running /\ item.id \in Ids /\ Queued(item.id)
  BY <1>1 DEF Recheck, Cancelled, LeaveItem, Running, TypeInv, JobShape, Item, Queued
<1>3. Row(item.id) /\ alert_history[item.id].intent = item.intent
  BY <1>2 DEF Consistent, OutboxMatchesHistory, OwnsRow
<1> QED
  BY <1>2, <1>3 DEF IntentInv, RowsKnown

(* With ids that are never reused, no mail is begun for a notification     *)
(* that has been deleted: the last look before the dialogue sees every     *)
(* deletion committed before it.                                           *)
THEOREM NothingDeletedIsSent ==
  ASSUME ~ReuseIds
  PROVE  Spec => NoSendAfterDeletion
<1>1. Init => Consistent /\ ReportInv /\ IntentInv
  BY ConsistentInit, IntentInit
     DEF Init, ReportInv, OwnsRow, OutcomeEarned, SucceededWasMailed, Running, Row
<1>2. TypeInv /\ Consistent /\ ReportInv /\ IntentInv /\ [Next]_vars
        => (Consistent /\ ReportInv /\ IntentInv)'
  BY ConsistentStep, ReportStep, IntentStep
<1>3. TypeInv /\ Consistent /\ ReportInv /\ IntentInv /\ [Next]_vars
        => [pc' = "send" /\ pc # "send" => item.intent \notin deleted]_vars
  BY SendsKnown DEF ReportInv
<1> QED
  BY <1>1, <1>2, <1>3, TypeCorrect, PTL DEF Spec, NoSendAfterDeletion

-----------------------------------------------------------------------------
(* What leaves the tables is explained.                                    *)

WaitingRow(j, i) ==
    Row(j) /\ alert_history[j].intent = i /\ alert_history[j].delivery_status \in Waiting

(* The channel of a waiting row, and is_mock of a claimed one, still say    *)
(* how the intent was registered: only final results overwrite a channel.  *)
MockKept ==
    /\ \A i \in Intents, j \in Ids : WaitingRow(j, i) => (IsMock(j) <=> origin[i] = "mock")
    /\ pc \in Running => (item.mock <=> origin[item.intent] = "mock")
    /\ pc = "record" /\ outcome.success = "False" => outcome.channel = "email" /\ ~item.mock
    /\ pc = "record" /\ outcome.success = "True" => (outcome.channel = "email" <=> ~item.mock)
    /\ \A i \in Intents : accepted[i] > 0 => origin[i] = "email"

(* An intent that may still be mailed: every mail of it so far was lost,    *)
(* but for one whose success is about to be recorded.                      *)
Open(i) ==
    \/ origin[i] = "unregistered"
    \/ \E j \in Ids : WaitingRow(j, i)
    \/ pc \in Running /\ item.intent = i
Earned(i) ==
    IF pc = "record" /\ outcome.success = "True" /\ ~item.mock /\ item.intent = i THEN 1 ELSE 0
MailsCounted ==
    \A i \in Intents :
        accepted[i] <= lost[i] + 1 /\ (Open(i) => accepted[i] <= lost[i] + Earned(i))

(* No snapshot has been taken of an intent whose first attempt is to come.  *)
Untried(i) ==
    \/ origin[i] = "unregistered"
    \/ \E j \in Ids : WaitingRow(j, i) /\ alert_history[j].attempt_count = 0
    \/ pc = "snapshot" /\ item.intent = i
SnapshotsCounted ==
    /\ \A i \in Intents : snapshots[i] <= 1 /\ (Untried(i) => snapshots[i] = 0)
    /\ pc \in Running /\ Row(item.id) => alert_history[item.id].attempt_count > 0

EffectsInv == MockKept /\ MailsCounted /\ SnapshotsCounted

LEMMA RunningItem ==
  ASSUME TypeInv, pc \in Running
  PROVE  item \in Item /\ item.id \in Ids /\ item.intent \in Intents /\ item.mock \in BOOLEAN
BY DEF TypeInv, JobShape, Running, Item

LEMMA EffectsInsert ==
  ASSUME TypeInv, Consistent, IntentInv, EffectsInv, OwnsRow', Enqueue
  PROVE  EffectsInv'
<1>1. PICK i \in Intents, id \in Ids :
          /\ Inserts(i, id)
          /\ \/ UNCHANGED snapshots
             \/ /\ alert_history'[id].delivery_status # "pending"
                /\ snapshots' = [snapshots EXCEPT ![i] = @ + 1]
  BY EnqueueInserts
<1>2. /\ \A k \in Intents \ {i} : origin'[k] = origin[k]
      /\ origin'[i] = ConfiguredChannel /\ ConfiguredChannel \in {"email", "mock"}
      /\ origin[i] = "unregistered"
  BY <1>1 DEF Inserts, TypeInv, TypeOK, ConfiguredChannel
<1>3. \A j \in Ids : Row(j) => alert_history[j].intent # i /\ j # id
  BY <1>1 DEF Inserts, IntentInv, RowsKnown
<1>4. UNCHANGED <<pc, item, outcome, accepted, lost>>
  BY <1>1 DEF Inserts, job
<1>5. \A k \in Intents, j \in Ids : WaitingRow(j, k)' =>
         \/ /\ j = id /\ k = i /\ alert_history'[id].delivery_status = "pending"
            /\ (IsMock(j)' <=> ConfiguredChannel = "mock")
         \/ k # i /\ WaitingRow(j, k) /\ alert_history'[j] = alert_history[j]
  <2> SUFFICES ASSUME NEW k \in Intents, NEW j \in Ids, WaitingRow(j, k)'
               PROVE  \/ /\ j = id /\ k = i /\ alert_history'[id].delivery_status = "pending"
                         /\ (IsMock(j)' <=> ConfiguredChannel = "mock")
                      \/ k # i /\ WaitingRow(j, k) /\ alert_history'[j] = alert_history[j]
    OBVIOUS
  <2>1. CASE j = id
    BY <1>1, <2>1 DEF Inserts, WaitingRow, Waiting, IsMock, Row
  <2>2. CASE j # id
    <3>1. alert_history'[j] = alert_history[j]
      BY <1>1, <2>2 DEF Inserts
    <3> QED
      BY <1>3, <3>1 DEF WaitingRow, Row
  <2> QED
    BY <2>1, <2>2
<1>6. pc \in Running => item.intent \in Intents /\ item.intent # i
  BY <1>2, RunningItem DEF IntentInv, ItemKnown
<1>7. MockKept'
  <2>1. \A k \in Intents, j \in Ids : WaitingRow(j, k)' => (IsMock(j)' <=> origin'[k] = "mock")
    BY <1>2, <1>5 DEF EffectsInv, MockKept, IsMock
  <2>2. \A k \in Intents : accepted'[k] > 0 => origin'[k] = "email"
    BY <1>2, <1>4 DEF EffectsInv, MockKept
  <2>3. pc' \in Running => (item'.mock <=> origin'[item'.intent] = "mock")
    BY <1>2, <1>4, <1>6 DEF EffectsInv, MockKept
  <2> QED
    BY <1>4, <2>1, <2>2, <2>3 DEF EffectsInv, MockKept
<1>8. MailsCounted'
  <2>1. \A k \in Intents : Open(k)' => Open(k)
    BY <1>2, <1>4, <1>5 DEF Open
  <2>2. \A k \in Intents : Earned(k)' = Earned(k)
    BY <1>4 DEF Earned
  <2> QED
    BY <1>4, <2>1, <2>2 DEF EffectsInv, MailsCounted
<1>9. SnapshotsCounted'
  <2>1. \A k \in Intents \ {i} : snapshots'[k] = snapshots[k] /\ (Untried(k)' => Untried(k))
    <3>1. \A k \in Intents \ {i} : snapshots'[k] = snapshots[k]
      BY <1>1 DEF TypeInv, TypeOK
    <3>2. \A k \in Intents \ {i} : Untried(k)' => Untried(k)
      BY <1>2, <1>4, <1>5 DEF Untried
    <3> QED
      BY <3>1, <3>2
  <2>2. snapshots[i] = 0
    BY <1>2 DEF EffectsInv, SnapshotsCounted, Untried
  <2>3. ~UNCHANGED snapshots => snapshots'[i] = 1 /\ ~Untried(i)'
    <3>1. ~UNCHANGED snapshots => snapshots'[i] = 1 /\ alert_history'[id].delivery_status # "pending"
      BY <1>1, <2>2 DEF TypeInv, TypeOK
    <3>2. pc' = "snapshot" => item'.intent # i
      BY <1>4, <1>6 DEF Running
    <3> QED
      BY <1>2, <1>5, <3>1, <3>2 DEF Untried
  <2>4. ASSUME pc' \in Running, Row(item.id)' PROVE alert_history'[item.id].attempt_count > 0
    <3>1. item' = item /\ pc \in Running /\ item.id \in Ids
      BY <1>4, <2>4, RunningItem
    <3>2. alert_history'[item.id].intent = item.intent
      BY <2>4, <3>1 DEF OwnsRow, Row
    <3>3. item.id # id
      BY <1>1, <1>6, <3>1, <3>2 DEF Inserts
    <3>4. Row(item.id) /\ alert_history'[item.id] = alert_history[item.id]
      BY <1>1, <2>4, <3>1, <3>3 DEF Inserts, Row
    <3> QED
      BY <3>1, <3>4 DEF EffectsInv, SnapshotsCounted
  <2>5. \A k \in Intents : snapshots'[k] <= 1 /\ (Untried(k)' => snapshots'[k] = 0)
    BY <2>1, <2>2, <2>3 DEF EffectsInv, SnapshotsCounted
  <2> QED
    BY <1>4, <2>4, <2>5 DEF SnapshotsCounted, Row
<1> QED
  BY <1>7, <1>8, <1>9 DEF EffectsInv

LEMMA EffectsClaim ==
  ASSUME TypeInv, Consistent, IntentInv, EffectsInv,
         NEW p \in batch, ClaimExpired(p) \/ ClaimAttempt(p)
  PROVE  EffectsInv'
<1> DEFINE id == p[2]
<1>1. /\ id \in Ids /\ Updates(id) /\ pc = "loop"
      /\ alert_history[id].delivery_status \in Waiting
      /\ alert_history'[id].channel = alert_history[id].channel
  BY ClaimUpdates DEF ClaimExpired, ClaimAttempt, NextInBatch
<1>2. UNCHANGED <<origin, accepted, lost, snapshots>>
  BY <1>1 DEF Updates, ghosts
<1>3. \A i \in Intents, j \in Ids : WaitingRow(j, i)' =>
         WaitingRow(j, i) /\ (IsMock(j)' <=> IsMock(j))
  BY <1>1 DEF Updates, WaitingRow, Row, IsMock
<1>4. WaitingRow(id, alert_history[id].intent) /\ alert_history[id].intent \in Intents
  BY <1>1, RowIntent DEF WaitingRow, Updates
<1>5. /\ pc' \in Running =>
            /\ item'.id = id /\ item'.intent = alert_history[id].intent /\ item'.mock = IsMock(id)
            /\ alert_history'[id].attempt_count > 0
            /\ pc' = "snapshot" => alert_history[id].attempt_count = 0
      /\ pc' # "record"
      /\ alert_history'[id].delivery_status \in Waiting => alert_history'[id].attempt_count # 0
  <2>1. CASE ClaimExpired(p)
    <3>1. pc' = "loop" /\ alert_history'[id].delivery_status = "failed"
      BY <1>1, <2>1, ClaimUpdates DEF ClaimExpired
    <3> QED
      BY <3>1 DEF Running, Waiting
  <2>2. CASE ClaimAttempt(p)
    BY <2>2, ClaimUpdates DEF Running
  <2> QED
    BY <2>1, <2>2
<1> HIDE DEF id
<1>6. MockKept'
  <2>1. IsMock(id) <=> origin[alert_history[id].intent] = "mock"
    BY <1>1, <1>4 DEF EffectsInv, MockKept
  <2> QED
    BY <1>2, <1>3, <1>5, <2>1 DEF EffectsInv, MockKept
<1>7. MailsCounted'
  <2>1. \A i \in Intents : Open(i)' => Open(i)
    BY <1>1, <1>2, <1>3, <1>4, <1>5 DEF Open
  <2>2. \A i \in Intents : Earned(i)' = Earned(i)
    BY <1>1, <1>5 DEF Earned
  <2> QED
    BY <1>2, <2>1, <2>2 DEF EffectsInv, MailsCounted
<1>8. SnapshotsCounted'
  <2>1. \A i \in Intents : Untried(i)' => Untried(i)
    <3>1. \A i \in Intents, j \in Ids :
             WaitingRow(j, i)' /\ alert_history'[j].attempt_count = 0
             => WaitingRow(j, i) /\ alert_history[j].attempt_count = 0
      BY <1>1, <1>3, <1>5 DEF Updates, WaitingRow
    <3>2. pc' = "snapshot" => item'.intent = alert_history[id].intent
                              /\ alert_history[id].attempt_count = 0
      BY <1>5 DEF Running
    <3> QED
      BY <1>1, <1>2, <1>4, <3>1, <3>2 DEF Untried
  <2> QED
    BY <1>2, <1>5, <2>1 DEF EffectsInv, SnapshotsCounted
<1> QED
  BY <1>6, <1>7, <1>8 DEF EffectsInv

LEMMA EffectsRecord ==
  ASSUME TypeInv, Consistent, IntentInv, OwnsRow, EffectsInv, RecordResult
  PROVE  EffectsInv'
<1>1. pc = "record" /\ pc' = "loop" /\ UNCHANGED <<origin, accepted, lost, snapshots>>
  BY RecordUpdates DEF RecordResult, ghosts
<1>2. item \in Item /\ item.id \in Ids /\ item.intent \in Intents /\ outcome \in Outcome
  BY <1>1, RunningItem DEF Running, TypeInv, JobShape
<1>3. \A i \in Intents, j \in Ids : WaitingRow(j, i)' =>
         /\ WaitingRow(j, i)
         /\ alert_history'[j].attempt_count = alert_history[j].attempt_count
         /\ i = item.intent => outcome.success = "False"
         /\ IsMock(j)' <=> origin[i] = "mock"
  <2> SUFFICES ASSUME NEW i \in Intents, NEW j \in Ids, WaitingRow(j, i)'
               PROVE  /\ WaitingRow(j, i)
                      /\ alert_history'[j].attempt_count = alert_history[j].attempt_count
                      /\ i = item.intent => outcome.success = "False"
                      /\ IsMock(j)' <=> origin[i] = "mock"
    OBVIOUS
  <2>1. CASE UNCHANGED tables /\ ~Queued(item.id)
    <3>1. WaitingRow(j, i) /\ alert_history' = alert_history
      BY <2>1 DEF tables, WaitingRow, Row
    <3>2. i # item.intent
      <4>1. Queued(j)
        BY <3>1 DEF WaitingRow, Consistent, OutboxMatchesHistory
      <4> QED
        BY <1>1, <2>1, <3>1, <4>1 DEF WaitingRow, IntentInv, ItemKnown, Running
    <3> QED
      BY <3>1, <3>2 DEF EffectsInv, MockKept, IsMock
  <2>2. CASE Updates(item.id) /\ j = item.id
    <3>1. outcome.success = "False" /\ alert_history'[j].channel = outcome.channel
          /\ alert_history'[j].attempt_count = alert_history[j].attempt_count
          /\ alert_history[j].delivery_status \in Waiting /\ ~(UNCHANGED tables /\ ~Queued(item.id))
      <4>1. ~(UNCHANGED tables /\ ~Queued(item.id))
        <5>1. SUFFICES ASSUME UNCHANGED tables, ~Queued(item.id) PROVE FALSE
          OBVIOUS
        <5>2. WaitingRow(j, i)
          BY <5>1 DEF tables, WaitingRow, Row
        <5> QED
          BY <2>2, <5>1, <5>2 DEF WaitingRow, Consistent, OutboxMatchesHistory
      <4>2. /\ alert_history'[j].channel = outcome.channel
            /\ alert_history'[j].attempt_count = alert_history[j].attempt_count
            /\ alert_history[j].delivery_status \in Waiting
            /\ alert_history'[j].delivery_status \in
                  CASE outcome.success = "True" -> {"succeeded"}
                    [] outcome.success = "None" -> {"skipped"}
                    [] outcome.success = "False" -> {"failed", "retrying"}
        BY <2>2, <4>1, RecordUpdates
      <4>3. alert_history'[j].delivery_status \in Waiting
        BY DEF WaitingRow
      <4> QED
        BY <1>2, <4>1, <4>2, <4>3 DEF Waiting, Outcome
    <3>2. outcome.channel = "email" /\ ~item.mock
      BY <1>1, <3>1 DEF EffectsInv, MockKept
    <3>3. alert_history[j].intent = i /\ WaitingRow(j, i) /\ i = item.intent
      BY <1>1, <2>2, <3>1 DEF Updates, WaitingRow, OwnsRow, Running
    <3> QED
      BY <1>1, <3>1, <3>2, <3>3 DEF EffectsInv, MockKept, IsMock, Running
  <2>3. CASE Updates(item.id) /\ j # item.id
    <3>1. alert_history'[j] = alert_history[j]
      BY <2>3 DEF Updates
    <3>2. WaitingRow(j, i)
      BY <3>1 DEF WaitingRow, Row
    <3>3. i # item.intent
      BY <1>1, <2>3, <3>2 DEF WaitingRow, IntentInv, ItemKnown, Running
    <3> QED
      BY <3>1, <3>2, <3>3 DEF EffectsInv, MockKept, IsMock
  <2> QED
    BY <2>1, <2>2, <2>3, RecordUpdates
<1>4. MockKept'
  BY <1>1, <1>3 DEF EffectsInv, MockKept, Running
<1>5. MailsCounted'
  <2>1. ASSUME NEW i \in Intents, Open(i)' PROVE accepted[i] <= lost[i]
    <3>1. Open(i) /\ (i = item.intent => outcome.success = "False")
      BY <1>1, <1>3, <2>1 DEF Open, Running, IntentInv, ItemKnown
    <3>2. Earned(i) = 0
      BY <3>1 DEF Earned
    <3> QED
      BY <3>1, <3>2 DEF EffectsInv, MailsCounted, TypeInv, TypeOK
  <2>2. \A i \in Intents : Earned(i)' = 0
    BY <1>1 DEF Earned
  <2>3. \A i \in Intents : lost[i] + 0 = lost[i]
    BY DEF TypeInv, TypeOK
  <2> QED
    BY <1>1, <2>1, <2>2, <2>3 DEF EffectsInv, MailsCounted
<1>6. SnapshotsCounted'
  BY <1>1, <1>3 DEF EffectsInv, SnapshotsCounted, Untried, Running
<1> QED
  BY <1>4, <1>5, <1>6 DEF EffectsInv

LEMMA EffectsRemove ==
  ASSUME TypeInv, EffectsInv, DeleteHistory \/ DeleteRule \/ PurgeHistory
  PROVE  EffectsInv'
<1>1. PICK ids \in SUBSET Ids : Removes(ids)
  BY DeletionRemoves
<1>2. /\ \A j \in Ids : Row(j)' => Row(j) /\ alert_history'[j] = alert_history[j]
      /\ UNCHANGED <<pc, item, outcome, origin, accepted, lost, snapshots>>
  BY <1>1 DEF Removes, Row, job
<1>3. \A i \in Intents, j \in Ids : WaitingRow(j, i)' =>
         WaitingRow(j, i) /\ alert_history'[j] = alert_history[j]
  BY <1>2 DEF WaitingRow
<1>4. MockKept'
  BY <1>2, <1>3 DEF EffectsInv, MockKept, IsMock
<1>5. MailsCounted'
  <2>1. \A i \in Intents : (Open(i)' => Open(i)) /\ Earned(i)' = Earned(i)
    BY <1>2, <1>3 DEF Open, Earned
  <2> QED
    BY <1>2, <2>1 DEF EffectsInv, MailsCounted
<1>6. SnapshotsCounted'
  <2>1. \A i \in Intents : Untried(i)' => Untried(i)
    BY <1>2, <1>3 DEF Untried
  <2>2. pc \in Running => item.id \in Ids
    BY RunningItem
  <2> QED
    BY <1>2, <2>1, <2>2 DEF EffectsInv, SnapshotsCounted
<1> QED
  BY <1>4, <1>5, <1>6 DEF EffectsInv

(* Steps that leave tables, mails and snapshots alone and do not reach a   *)
(* result.                                                                 *)
LEMMA EffectsFrame ==
  ASSUME TypeInv, TypeInv', EffectsInv,
         UNCHANGED <<alert_history, origin, accepted, snapshots>>,
         \A i \in Intents : lost'[i] + Earned(i)' = lost[i] + Earned(i) /\ lost'[i] >= lost[i],
         pc' \in Running => pc \in Running /\ item' = item,
         pc' = "snapshot" => pc = "snapshot",
         pc' = "record" => pc = "record" /\ outcome' = outcome
  PROVE  EffectsInv'
<1>1. \A i \in Intents, j \in Ids : WaitingRow(j, i)' => WaitingRow(j, i)
  BY DEF WaitingRow, Row
<1>2. MockKept'
  BY <1>1 DEF EffectsInv, MockKept, IsMock, Running
<1>3. MailsCounted'
  <2>1. \A i \in Intents : Open(i)' => Open(i)
    BY <1>1 DEF Open
  <2> SUFFICES ASSUME NEW i \in Intents
               PROVE  accepted'[i] <= lost'[i] + 1
                      /\ (Open(i)' => accepted'[i] <= lost'[i] + Earned(i)')
    BY DEF MailsCounted
  <2>2. accepted[i] \in Nat /\ lost[i] \in Nat /\ Earned(i) \in {0, 1} /\ Earned(i)' \in {0, 1}
    BY DEF TypeInv, TypeOK, Earned
  <2>3. lost'[i] + Earned(i)' = lost[i] + Earned(i) /\ lost'[i] >= lost[i] /\ lost'[i] \in Nat
    BY DEF TypeInv, TypeOK
  <2>4. accepted[i] <= lost[i] + 1 /\ (Open(i) => accepted[i] <= lost[i] + Earned(i))
    BY DEF EffectsInv, MailsCounted
  <2> QED
    BY <2>1, <2>2, <2>3, <2>4
<1>4. SnapshotsCounted'
  <2>1. \A i \in Intents : Untried(i)' => Untried(i)
    BY <1>1 DEF Untried, Running, WaitingRow
  <2> QED
    BY <2>1 DEF EffectsInv, SnapshotsCounted, Row
<1> QED
  BY <1>2, <1>3, <1>4 DEF EffectsInv

LEMMA EffectsFault ==
  ASSUME TypeInv, EffectsInv, DatabaseError \/ Crash
  PROVE  EffectsInv'
<1>1. TypeInv'
  BY TypeFault
<1>2. \A i \in Intents : lost'[i] = lost[i] + Earned(i)
  <2>1. LoseUnrecorded
    BY DEF DatabaseError, Crash
  <2>2. pc = "record" => item.intent \in Intents
    BY RunningItem DEF Running
  <2> QED
    BY <2>1, <2>2 DEF LoseUnrecorded, Earned, TypeInv, TypeOK
<1>3. pc' \in {"idle", "loop"}
  BY DEF DatabaseError, Crash, LeaveItem
<1>4. \A i \in Intents : Earned(i)' = 0
  BY <1>3 DEF Earned
<1>5. \A i \in Intents : lost[i] \in Nat /\ lost'[i] \in Nat /\ Earned(i) \in {0, 1}
  BY <1>1 DEF TypeInv, TypeOK, Earned
<1>6. \A i \in Intents : lost'[i] + Earned(i)' = lost[i] + Earned(i) /\ lost'[i] >= lost[i]
  BY <1>2, <1>4, <1>5
<1>7. UNCHANGED <<alert_history, origin, accepted, snapshots>>
  BY DEF DatabaseError, Crash, tables
<1> QED
  BY <1>1, <1>3, <1>6, <1>7, EffectsFrame DEF Running

LEMMA EffectsSnapshot ==
  ASSUME TypeInv, Consistent, IntentInv, EffectsInv, OwnsRow, FirstAttemptSnapshot
  PROVE  EffectsInv'
<1>1. /\ pc = "snapshot" /\ pc' = "recheck" /\ item' = item
      /\ UNCHANGED <<alert_history, origin, accepted, lost>>
      /\ SaveSnapshot(item.intent, item.state)
  BY DEF FirstAttemptSnapshot, tables
<1>2. item.intent \in Intents /\ item.id \in Ids
  BY <1>1, RunningItem DEF Running
<1>3. \A i \in Intents, j \in Ids : WaitingRow(j, i)' => WaitingRow(j, i)
  BY <1>1 DEF WaitingRow, Row
<1>4. MockKept'
  BY <1>1, <1>3 DEF EffectsInv, MockKept, IsMock, Running
<1>5. MailsCounted'
  <2>1. \A i \in Intents : (Open(i)' => Open(i)) /\ Earned(i)' = Earned(i)
    BY <1>1, <1>3 DEF Open, Earned, Running
  <2> QED
    BY <1>1, <2>1 DEF EffectsInv, MailsCounted
<1>6. SnapshotsCounted'
  <2>1. snapshots[item.intent] = 0
    BY <1>1, <1>2 DEF EffectsInv, SnapshotsCounted, Untried
  <2>2. \A i \in Intents : i = item.intent => snapshots'[i] \in {0, 1}
    BY <1>1, <2>1 DEF SaveSnapshot, TypeInv, TypeOK
  <2>3. \A i \in Intents : i # item.intent => snapshots'[i] = snapshots[i]
    BY <1>1 DEF SaveSnapshot, TypeInv, TypeOK
  <2>4. \A i \in Intents : Untried(i)' => Untried(i) /\ i # item.intent
    <3>1. ~Untried(item.intent)'
      <4>1. origin'[item.intent] # "unregistered" /\ pc' # "snapshot"
        BY <1>1 DEF IntentInv, ItemKnown, Running
      <4>2. ASSUME NEW j \in Ids, WaitingRow(j, item.intent)' PROVE alert_history'[j].attempt_count # 0
        <5>1. WaitingRow(j, item.intent)
          BY <1>1, <1>2, <1>3, <4>2 DEF WaitingRow, Row
        <5>2. j = item.id /\ Row(item.id)
          BY <1>1, <5>1 DEF WaitingRow, IntentInv, ItemKnown, Running
        <5> QED
          BY <1>1, <5>2 DEF EffectsInv, SnapshotsCounted, Running
      <4> QED
        BY <1>1, <4>1, <4>2 DEF Untried
    <3>2. \A i \in Intents : Untried(i)' => Untried(i)
      BY <1>1, <1>3 DEF Untried
    <3> QED
      BY <1>1, <3>1, <3>2
  <2>5. \A i \in Intents : snapshots'[i] <= 1 /\ (Untried(i)' => snapshots'[i] = 0)
    BY <2>2, <2>3, <2>4 DEF EffectsInv, SnapshotsCounted
  <2> QED
    BY <1>1, <2>5 DEF EffectsInv, SnapshotsCounted, Running, Row
<1> QED
  BY <1>4, <1>5, <1>6 DEF EffectsInv

LEMMA EffectsSend ==
  ASSUME TypeInv, Consistent, IntentInv, EffectsInv, Send
  PROVE  EffectsInv'
<1>1. /\ pc = "send" /\ pc' = "record" /\ UNCHANGED <<item, alert_history, origin, snapshots>>
  BY DEF Send, NotSent, SmtpAccepts, SmtpFails, Finish, tables
<1>2. item.intent \in Intents /\ item.mock \in BOOLEAN
  BY <1>1, RunningItem DEF Running
<1>3. \A i \in Intents, j \in Ids : WaitingRow(j, i)' => WaitingRow(j, i)
  BY <1>1 DEF WaitingRow, Row
<1>4. Open(item.intent)
  BY <1>1 DEF Open, Running
<1>5. \A i \in Intents : Earned(i) = 0
  BY <1>1 DEF Earned
<1>6. accepted[item.intent] <= lost[item.intent]
  BY <1>2, <1>4, <1>5 DEF EffectsInv, MailsCounted, TypeInv, TypeOK
<1>7. /\ outcome'.success = "False" => outcome'.channel = "email" /\ ~item.mock
      /\ outcome'.success = "True" => (outcome'.channel = "email" <=> ~item.mock)
      /\ \A i \in Intents : i # item.intent => accepted'[i] = accepted[i] /\ lost'[i] = lost[i]
      /\ \/ accepted' = accepted /\ lost' = lost
         \/ /\ ~item.mock /\ accepted'[item.intent] = accepted[item.intent] + 1
            /\ \/ outcome'.success = "True" /\ lost' = lost
               \/ lost'[item.intent] = lost[item.intent] + 1
  BY <1>2 DEF Send, NotSent, SmtpAccepts, SmtpFails, Finish, TypeInv, TypeOK
<1>8. TypeInv'
  BY TypeItem
<1>9. MockKept'
  <2>1. \A i \in Intents : accepted'[i] > 0 => origin'[i] = "email"
    <3>1. ~item.mock => origin[item.intent] = "email"
      BY <1>1, <1>2 DEF EffectsInv, MockKept, IntentInv, ItemKnown, Running, TypeInv, TypeOK
    <3> QED
      BY <1>1, <1>7, <3>1 DEF EffectsInv, MockKept
  <2> QED
    BY <1>1, <1>3, <1>7, <2>1 DEF EffectsInv, MockKept, IsMock, Running
<1>10. MailsCounted'
  <2> SUFFICES ASSUME NEW i \in Intents
               PROVE  accepted'[i] <= lost'[i] + 1
                      /\ (Open(i)' => accepted'[i] <= lost'[i] + Earned(i)')
    BY DEF MailsCounted
  <2>1. accepted[i] \in Nat /\ lost[i] \in Nat /\ accepted'[i] \in Nat /\ lost'[i] \in Nat
    BY <1>8 DEF TypeInv, TypeOK
  <2>2. Earned(i)' = IF outcome'.success = "True" /\ ~item.mock /\ item.intent = i THEN 1 ELSE 0
    BY <1>1 DEF Earned
  <2>3. CASE i # item.intent
    <3>1. Open(i)' => Open(i)
      BY <1>1, <1>3 DEF Open, Running
    <3> QED
      BY <1>5, <1>7, <2>1, <2>2, <2>3, <3>1 DEF EffectsInv, MailsCounted
  <2>4. CASE i = item.intent
    BY <1>6, <1>7, <2>1, <2>2, <2>4
  <2> QED
    BY <2>3, <2>4
<1>11. SnapshotsCounted'
  BY <1>1, <1>3 DEF EffectsInv, SnapshotsCounted, Untried, Running, Row
<1> QED
  BY <1>9, <1>10, <1>11 DEF EffectsInv

LEMMA EffectsStep ==
  ASSUME TypeInv, Consistent, IntentInv, EffectsInv, OwnsRow, OwnsRow', [Next]_vars
  PROVE  EffectsInv'
<1>1. CASE Enqueue
  BY <1>1, EffectsInsert
<1>2. ASSUME NEW p \in batch, ClaimExpired(p) \/ ClaimAttempt(p) PROVE EffectsInv'
  BY <1>2, EffectsClaim
<1>3. CASE RecordResult
  BY <1>3, EffectsRecord
<1>4. CASE DeleteHistory \/ DeleteRule \/ PurgeHistory
  BY <1>4, EffectsRemove
<1>5. CASE FirstAttemptSnapshot
  BY <1>5, EffectsSnapshot
<1>6. CASE Send
  BY <1>6, EffectsSend
<1>7. CASE DatabaseError \/ Crash
  BY <1>7, EffectsFault
<1>8. ASSUME \/ SelectDue \/ EndBatch \/ Recheck \/ Cancel \/ Tick \/ UNCHANGED vars
             \/ \E p \in batch : ClaimNothing(p)
      PROVE  EffectsInv'
  <2>1. UNCHANGED <<alert_history, origin, accepted, lost, snapshots>>
    BY <1>8 DEF SelectDue, EndBatch, Recheck, Cancel, Tick, ClaimNothing, vars, tables, ghosts
  <2>2. /\ pc' \in Running => pc \in Running /\ item' = item
        /\ pc' = "snapshot" => pc = "snapshot"
        /\ pc' = "record" <=> pc = "record"
        /\ pc' = "record" => outcome' = outcome
    BY <1>8 DEF SelectDue, EndBatch, Recheck, LeaveItem, Cancel, Tick, ClaimNothing,
                NextInBatch, vars, job, Running
  <2>3. \A i \in Intents : Earned(i)' = Earned(i) /\ lost[i] >= lost[i]
    BY <2>2 DEF Earned, Running, TypeInv, TypeOK
  <2>4. TypeInv'
    BY TypeStep
  <2> QED
    BY <2>1, <2>2, <2>3, <2>4, EffectsFrame
<1> QED
  BY <1>1, <1>2, <1>3, <1>4, <1>5, <1>6, <1>7, <1>8 DEF Next, DeliverNotifications, DeliverOne

DeliveryInv == Consistent /\ ReportInv /\ IntentInv /\ EffectsInv

LEMMA DeliveryInit == Init => DeliveryInv
<1>1. Init => EffectsInv
  BY DEF Init, EffectsInv, MockKept, MailsCounted, SnapshotsCounted, WaitingRow, Row, Running,
         Open, Earned, Untried
<1> QED
  BY <1>1, ConsistentInit, IntentInit
     DEF DeliveryInv, Init, ReportInv, OwnsRow, OutcomeEarned, SucceededWasMailed, Running, Row

LEMMA DeliveryStep ==
  ASSUME ~ReuseIds
  PROVE  TypeInv /\ DeliveryInv /\ [Next]_vars => DeliveryInv'
<1> SUFFICES ASSUME TypeInv, DeliveryInv, [Next]_vars PROVE DeliveryInv'
  OBVIOUS
<1>1. (Consistent /\ ReportInv /\ IntentInv)'
  BY ConsistentStep, ReportStep, IntentStep DEF DeliveryInv
<1>2. OwnsRow /\ OwnsRow'
  BY <1>1 DEF ReportInv, DeliveryInv
<1>3. EffectsInv'
  BY <1>2, EffectsStep DEF DeliveryInv
<1> QED
  BY <1>1, <1>3 DEF DeliveryInv

(* With ids that are never reused: an intent registered in mock mode is    *)
(* never mailed, a second mail needs a first whose success was lost, and   *)
(* no second snapshot is saved, whatever crashes, restarts, deletions and  *)
(* changes of settings come between.                                       *)
THEOREM EffectsExplained ==
  ASSUME ~ReuseIds
  PROVE  Spec => []SideEffectsExplained
<1>1. DeliveryInv => SideEffectsExplained
  BY DEF DeliveryInv, EffectsInv, MockKept, MailsCounted, SnapshotsCounted,
         SideEffectsExplained, MockIntentNeverMailed, NoUnexplainedDuplicate, SnapshotAtMostOnce
<1> QED
  BY <1>1, DeliveryInit, DeliveryStep, TypeCorrect, PTL DEF Spec

-----------------------------------------------------------------------------
(* The tables implement NotificationPromise.                               *)

RowsOf(h, i) == {id \in Ids : h[id] # Null /\ h[id].intent = i}
FateOfRow(row) == IF row.delivery_status \in Waiting THEN "waiting" ELSE row.delivery_status
FateIn(h, o, i) ==
    IF o[i] = "unregistered" THEN "unregistered"
    ELSE IF RowsOf(h, i) = {} THEN "removed"
    ELSE FateOfRow(h[CHOOSE id \in RowsOf(h, i) : TRUE])

LEMMA FateIs ==
  \A i : /\ Fate(i) = FateIn(alert_history, origin, i)
         /\ Fate(i)' = FateIn(alert_history', origin', i)
BY DEF Fate, FateIn, FateOfRow, HistoryOf, RowsOf, Row

(* An intent with one row has the fate the row shows.                      *)
LEMMA FateOne ==
  ASSUME NEW h, NEW o, NEW i, NEW id \in Ids, o[i] # "unregistered",
         h[id] # Null, h[id].intent = i,
         \A j \in Ids : h[j] # Null /\ h[j].intent = i => j = id
  PROVE  FateIn(h, o, i) = FateOfRow(h[id])
<1>1. RowsOf(h, i) = {id}
  BY DEF RowsOf
<1>2. (CHOOSE j \in {id} : TRUE) = id
  OBVIOUS
<1> QED
  BY <1>1, <1>2 DEF FateIn

LEMMA FateNone ==
  ASSUME NEW h, NEW o, NEW i, o[i] # "unregistered",
         \A j \in Ids : h[j] # Null => h[j].intent # i
  PROVE  FateIn(h, o, i) = "removed"
<1>1. RowsOf(h, i) = {}
  BY DEF RowsOf
<1> QED
  BY <1>1 DEF FateIn

(* The fate of an intent is told by its own rows.                          *)
LEMMA FateSame ==
  ASSUME NEW h, NEW o, NEW g, NEW q, NEW i, o[i] = q[i],
         \A j \in Ids : (h[j] # Null /\ h[j].intent = i) \/ (g[j] # Null /\ g[j].intent = i)
                        => h[j] = g[j]
  PROVE  FateIn(h, o, i) = FateIn(g, q, i)
<1>1. RowsOf(h, i) = RowsOf(g, i)
  BY DEF RowsOf
<1>2. \A j \in RowsOf(h, i) : h[j] = g[j]
  BY DEF RowsOf
<1>3. RowsOf(h, i) # {} => (CHOOSE id \in RowsOf(h, i) : TRUE) \in RowsOf(h, i)
  OBVIOUS
<1> QED
  BY <1>1, <1>2, <1>3 DEF FateIn

fates == [i \in Intents |-> Fate(i)]
mocks == {i \in Intents : origin[i] = "mock"}
transmitted == IF pc = "send" THEN item.intent ELSE Null

(* A step that leaves histories, registrations and mails alone, and begins *)
(* or ends no transmission, is a stutter.                                  *)
LEMMA PromiseFrame ==
  ASSUME UNCHANGED <<alert_history, origin, accepted>>, transmitted' = transmitted
  PROVE  UNCHANGED Promise!vars
<1>1. fates' = fates
  <2>1. \A i \in Intents : Fate(i)' = Fate(i)
    BY FateIs
  <2> QED
    BY <2>1 DEF fates
<1> QED
  BY <1>1 DEF Promise!vars, fates, transmitted

LEMMA RegisterStep ==
  ASSUME TypeInv, DeliveryInv, Enqueue
  PROVE  \E i \in Intents : Promise!Register(i)
<1>1. PICK i \in Intents, id \in Ids : Inserts(i, id)
  BY EnqueueInserts DEF DeliveryInv
<1>2. /\ \A k \in Intents \ {i} : origin'[k] = origin[k]
      /\ origin'[i] = ConfiguredChannel /\ ConfiguredChannel \in {"email", "mock"}
      /\ origin[i] = "unregistered"
  BY <1>1 DEF Inserts, TypeInv, TypeOK, ConfiguredChannel
<1>3. \A j \in Ids : Row(j) => alert_history[j].intent # i
  BY <1>1 DEF Inserts, DeliveryInv, IntentInv, RowsKnown
<1>4. Fate(i) = "unregistered"
  BY <1>2 DEF Fate
<1>5. Fate(i)' \in {"waiting", "failed", "skipped"}
  <2>1. \A j \in Ids : alert_history'[j] # Null /\ alert_history'[j].intent = i => j = id
    BY <1>1, <1>3 DEF Inserts, Row
  <2>2. origin'[i] # "unregistered" /\ alert_history'[id] # Null /\ alert_history'[id].intent = i
    BY <1>1, <1>2 DEF Inserts
  <2>3. FateIn(alert_history', origin', i) = FateOfRow(alert_history'[id])
    BY <2>1, <2>2, FateOne
  <2> QED
    BY <1>1, <2>3, FateIs DEF Inserts, FateOfRow, Waiting
<1>6. \A k \in Intents \ {i} : Fate(k)' = Fate(k)
  <2> SUFFICES ASSUME NEW k \in Intents \ {i} PROVE Fate(k)' = Fate(k)
    OBVIOUS
  <2>1. \A j \in Ids : (alert_history'[j] # Null /\ alert_history'[j].intent = k)
                       \/ (alert_history[j] # Null /\ alert_history[j].intent = k)
                       => alert_history'[j] = alert_history[j]
    BY <1>1 DEF Inserts, Row
  <2>2. origin'[k] = origin[k]
    BY <1>2
  <2>3. FateIn(alert_history', origin', k) = FateIn(alert_history, origin, k)
    BY <2>1, <2>2, FateSame
  <2> QED
    BY <2>3, FateIs
<1>7. fates' = [fates EXCEPT ![i] = Fate(i)']
  BY <1>5, <1>6 DEF fates
<1>8. mocks' \in {mocks, mocks \cup {i}}
  BY <1>2 DEF mocks
<1>9. UNCHANGED <<transmitted, accepted>>
  BY <1>1 DEF Inserts, job, transmitted
<1>10. fates[i] = "unregistered"
  BY <1>4 DEF fates
<1>11. Promise!Register(i)
  BY <1>5, <1>7, <1>8, <1>9, <1>10 DEF Promise!Register, fates, mocks, transmitted
<1> QED
  BY <1>11

(* A row written again settles its intent, or leaves it waiting.           *)
LEMMA SettleStep ==
  ASSUME TypeInv, DeliveryInv, NEW id \in Ids, Updates(id),
         alert_history[id].delivery_status \in Waiting,
         alert_history'[id].delivery_status \in Waiting \cup Final,
         alert_history'[id].delivery_status = "succeeded" =>
            \/ accepted[alert_history[id].intent] > 0
            \/ origin[alert_history[id].intent] = "mock",
         pc # "send", pc' # "send"
  PROVE  (\E i \in Intents : Promise!Settle(i)) \/ UNCHANGED Promise!vars
<1> DEFINE i == alert_history[id].intent
<1>1. /\ Row(id) /\ alert_history'[id] # Null /\ alert_history'[id].intent = i
      /\ \A j \in Ids \ {id} : alert_history'[j] = alert_history[j]
      /\ UNCHANGED <<origin, accepted>>
  BY DEF Updates, ghosts
<1>2. i \in Intents /\ origin[i] # "unregistered"
  BY <1>1, RowIntent DEF DeliveryInv, IntentInv, RowsKnown
<1>3. \A j \in Ids : Row(j) /\ alert_history[j].intent = i => j = id
  BY <1>1 DEF DeliveryInv, IntentInv, RowsKnown
<1>4. Fate(i) = "waiting"
  <2>1. FateIn(alert_history, origin, i) = FateOfRow(alert_history[id])
    BY <1>1, <1>2, <1>3, FateOne DEF Row
  <2> QED
    BY <2>1, FateIs DEF FateOfRow
<1>5. FateIn(alert_history', origin', i) = FateOfRow(alert_history'[id])
  <2>1. \A j \in Ids : alert_history'[j] # Null /\ alert_history'[j].intent = i => j = id
    BY <1>1, <1>3 DEF Row
  <2>2. origin'[i] # "unregistered"
    BY <1>1, <1>2
  <2> HIDE DEF i
  <2> QED
    BY <1>1, <2>1, <2>2, FateOne
<1>6. \A k \in Intents \ {i} : Fate(k)' = Fate(k)
  <2> SUFFICES ASSUME NEW k \in Intents \ {i} PROVE Fate(k)' = Fate(k)
    OBVIOUS
  <2>1. \A j \in Ids : (alert_history'[j] # Null /\ alert_history'[j].intent = k)
                       \/ (alert_history[j] # Null /\ alert_history[j].intent = k)
                       => alert_history'[j] = alert_history[j]
    BY <1>1
  <2>2. FateIn(alert_history', origin', k) = FateIn(alert_history, origin, k)
    BY <1>1, <2>1, FateSame
  <2> QED
    BY <2>2, FateIs
<1>7. UNCHANGED <<mocks, transmitted, accepted>>
  BY <1>1 DEF mocks, transmitted
<1> DEFINE f == FateIn(alert_history', origin', i)
<1>8. fates' = [fates EXCEPT ![i] = f] /\ fates[i] = "waiting"
  <2>1. \A k \in Intents : Fate(k)' = IF k = i THEN f ELSE Fate(k)
    BY <1>6, FateIs
  <2> HIDE DEF i, f
  <2> QED
    BY <1>2, <1>4, <2>1 DEF fates
<1>9. f \in {"waiting", "succeeded", "failed", "skipped"}
  BY <1>5 DEF FateOfRow, Waiting, Final
<1>10. f = "succeeded" => accepted[i] > 0 \/ i \in mocks
  BY <1>2, <1>5 DEF FateOfRow, Waiting, mocks
<1> HIDE DEF i, f
<1>11. CASE f = "waiting"
  <2>1. fates' = fates
    BY <1>2, <1>8, <1>11 DEF fates
  <2> QED
    BY <1>7, <2>1 DEF Promise!vars, fates, mocks, transmitted
<1>12. CASE f # "waiting"
  <2>1. Promise!Settle(i)
    BY <1>7, <1>8, <1>9, <1>10, <1>12
       DEF Promise!Settle, Promise!Settled, fates, mocks, transmitted
  <2> QED
    BY <1>2, <2>1
<1> QED
  BY <1>11, <1>12

LEMMA RemoveStep ==
  ASSUME TypeInv, DeliveryInv, DeleteHistory \/ DeleteRule \/ PurgeHistory
  PROVE  Promise!Remove
<1>1. PICK ids \in SUBSET Ids : Removes(ids) /\ \A id \in ids : Row(id)
  BY DeletionRemoves
<1> DEFINE S == {alert_history[id].intent : id \in ids}
<1>2. UNCHANGED <<origin, accepted, pc, item>>
  BY <1>1 DEF Removes, job
<1>3. \A i \in S : i \in Intents /\ origin[i] # "unregistered"
  BY <1>1, RowIntent DEF DeliveryInv, IntentInv, RowsKnown
<1>4. \A i \in S : Fate(i)' = "removed"
  <2> SUFFICES ASSUME NEW i \in S PROVE Fate(i)' = "removed"
    OBVIOUS
  <2>0. PICK id \in ids : alert_history[id].intent = i
    OBVIOUS
  <2>1. \A j \in Ids : alert_history'[j] # Null => alert_history'[j].intent # i
    BY <1>1, <2>0 DEF Removes, Row, DeliveryInv, IntentInv, RowsKnown
  <2>2. origin'[i] # "unregistered"
    BY <1>2, <1>3
  <2>3. FateIn(alert_history', origin', i) = "removed"
    BY <2>1, <2>2, FateNone
  <2> QED
    BY <2>3, FateIs
<1>5. \A i \in Intents \ S : Fate(i)' = Fate(i)
  <2> SUFFICES ASSUME NEW i \in Intents \ S PROVE Fate(i)' = Fate(i)
    OBVIOUS
  <2>1. \A j \in Ids : (alert_history'[j] # Null /\ alert_history'[j].intent = i)
                       \/ (alert_history[j] # Null /\ alert_history[j].intent = i)
                       => alert_history'[j] = alert_history[j]
    BY <1>1 DEF Removes
  <2>2. FateIn(alert_history', origin', i) = FateIn(alert_history, origin, i)
    BY <1>2, <2>1, FateSame
  <2> QED
    BY <2>2, FateIs
<1>6. S \in SUBSET {i \in Intents : fates[i] # "unregistered"}
  <2>1. \A i \in S : Fate(i) # "unregistered"
    <3> SUFFICES ASSUME NEW id \in ids PROVE Fate(alert_history[id].intent) # "unregistered"
      OBVIOUS
    <3>1. Row(id) /\ id \in Ids /\ alert_history[id] \in HistoryRow
      BY <1>1, RowIntent
    <3>2. FateIn(alert_history, origin, alert_history[id].intent) = FateOfRow(alert_history[id])
      BY <1>3, <3>1, FateOne DEF Row, DeliveryInv, IntentInv, RowsKnown
    <3> QED
      BY <3>1, <3>2, FateIs DEF FateOfRow, HistoryRow, Waiting, Final
  <2> QED
    BY <1>3, <2>1 DEF fates
<1> HIDE DEF S
<1>7. fates' = [i \in Intents |-> IF i \in S THEN "removed" ELSE fates[i]]
  BY <1>4, <1>5 DEF fates
<1>8. UNCHANGED <<mocks, transmitted, accepted>>
  BY <1>2 DEF mocks, transmitted
<1> QED
  BY <1>6, <1>7, <1>8 DEF Promise!Remove, fates, mocks, transmitted

LEMMA BeginStep ==
  ASSUME TypeInv, DeliveryInv, Recheck, pc' = "send"
  PROVE  \E i \in Intents : Promise!Begin(i)
<1>1. pc = "recheck" /\ UNCHANGED <<alert_history, origin, accepted, item>> /\ Queued(item.id)
  BY DEF Recheck, LeaveItem, Cancelled, Queued, tables, ghosts
<1>2. item.id \in Ids /\ item.intent \in Intents
  BY <1>1, RunningItem DEF Running
<1>3. /\ Row(item.id) /\ alert_history[item.id].intent = item.intent
      /\ alert_history[item.id].delivery_status \in Waiting
  BY <1>1, <1>2 DEF DeliveryInv, Consistent, OutboxMatchesHistory, ReportInv, OwnsRow, Running
<1>4. Fate(item.intent) = "waiting"
  <2>1. FateIn(alert_history, origin, item.intent) = FateOfRow(alert_history[item.id])
    BY <1>1, <1>2, <1>3, FateOne DEF DeliveryInv, IntentInv, ItemKnown, Running, Row
  <2> QED
    BY <1>3, <2>1, FateIs DEF FateOfRow
<1>5. fates' = fates
  <2>1. \A i \in Intents : Fate(i)' = Fate(i)
    BY <1>1, FateIs
  <2> QED
    BY <2>1 DEF fates
<1>6. fates[item.intent] = "waiting" /\ transmitted = Null /\ transmitted' = item.intent
  BY <1>1, <1>2, <1>4 DEF fates, transmitted
<1>7. Promise!Begin(item.intent)
  BY <1>1, <1>5, <1>6 DEF Promise!Begin, fates, transmitted
<1> QED
  BY <1>2, <1>7

LEMMA EndStep ==
  ASSUME TypeInv, DeliveryInv, pc = "send", Send \/ Crash
  PROVE  \E i \in Intents : Promise!End(i)
<1>1. item.intent \in Intents /\ item.mock \in BOOLEAN
  BY RunningItem DEF Running
<1>2. pc' # "send" /\ UNCHANGED <<alert_history, origin>>
  BY DEF Send, NotSent, SmtpAccepts, SmtpFails, Finish, Crash, tables
<1>3. fates' = fates
  <2>1. \A i \in Intents : Fate(i)' = Fate(i)
    BY <1>2, FateIs
  <2> QED
    BY <2>1 DEF fates
<1>4. transmitted = item.intent /\ transmitted' = Null
  BY <1>2 DEF transmitted
<1>5. /\ accepted' \in {accepted, [accepted EXCEPT ![item.intent] = @ + 1]}
      /\ accepted' # accepted => ~item.mock
  BY DEF Send, NotSent, SmtpAccepts, SmtpFails, Finish, Crash
<1>6. accepted' # accepted => item.intent \notin mocks
  BY <1>5 DEF DeliveryInv, EffectsInv, MockKept, Running, mocks
<1>7. Promise!End(item.intent)
  BY <1>2, <1>3, <1>4, <1>5, <1>6 DEF Promise!End, fates, mocks, transmitted
<1> QED
  BY <1>1, <1>7

LEMMA PromiseStep ==
  ASSUME TypeInv, DeliveryInv, [Next]_vars
  PROVE  [Promise!Next]_Promise!vars
<1>1. CASE Enqueue
  BY <1>1, RegisterStep DEF Promise!Next
<1>2. ASSUME NEW p \in batch, ClaimExpired(p) \/ ClaimAttempt(p)
      PROVE  [Promise!Next]_Promise!vars
  <2>1. /\ p[2] \in Ids /\ Updates(p[2])
        /\ alert_history[p[2]].delivery_status \in Waiting
        /\ alert_history'[p[2]].delivery_status \in Waiting \cup {"failed"}
    BY <1>2, ClaimUpdates DEF DeliveryInv
  <2>2. pc # "send" /\ pc' # "send"
    BY <1>2 DEF ClaimExpired, ClaimAttempt, NextInBatch
  <2>3. (\E i \in Intents : Promise!Settle(i)) \/ UNCHANGED Promise!vars
    BY <2>1, <2>2, SettleStep DEF Waiting, Final
  <2> QED
    BY <2>3 DEF Promise!Next
<1>3. CASE RecordResult
  <2>0. pc = "record" /\ pc' = "loop" /\ UNCHANGED <<origin, accepted>> /\ outcome \in Outcome
    BY <1>3, RecordUpdates DEF DeliveryInv, RecordResult, ghosts, TypeInv, JobShape
  <2>1. CASE UNCHANGED tables
    BY <2>0, <2>1, PromiseFrame DEF tables, transmitted
  <2>2. CASE ~UNCHANGED tables
    <3>1. /\ item.id \in Ids /\ Updates(item.id)
          /\ alert_history[item.id].delivery_status \in Waiting
          /\ alert_history'[item.id].delivery_status \in
                CASE outcome.success = "True" -> {"succeeded"}
                  [] outcome.success = "None" -> {"skipped"}
                  [] outcome.success = "False" -> {"failed", "retrying"}
      BY <1>3, <2>2, RecordUpdates DEF DeliveryInv
    <3>2. /\ alert_history'[item.id].delivery_status \in Waiting \cup Final
          /\ alert_history'[item.id].delivery_status = "succeeded" => outcome.success = "True"
      BY <2>0, <3>1 DEF Waiting, Final, Outcome
    <3>3. alert_history[item.id].intent = item.intent
      BY <2>0, <3>1 DEF Updates, DeliveryInv, ReportInv, OwnsRow, Running
    <3>4. outcome.success = "True" =>
              accepted[item.intent] > 0 \/ origin[item.intent] = "mock"
      BY <2>0 DEF DeliveryInv, ReportInv, OutcomeEarned, EffectsInv, MockKept, Running
    <3>5. (\E i \in Intents : Promise!Settle(i)) \/ UNCHANGED Promise!vars
      BY <2>0, <3>1, <3>2, <3>3, <3>4, SettleStep
    <3> QED
      BY <3>5 DEF Promise!Next
  <2> QED
    BY <2>1, <2>2
<1>4. CASE DeleteHistory \/ DeleteRule \/ PurgeHistory
  BY <1>4, RemoveStep DEF Promise!Next
<1>5. CASE Recheck
  <2>1. CASE pc' = "send"
    BY <1>5, <2>1, BeginStep DEF Promise!Next
  <2>2. CASE pc' # "send"
    BY <1>5, <2>2, PromiseFrame DEF Recheck, tables, ghosts, transmitted
  <2> QED
    BY <2>1, <2>2
<1>6. CASE (Send \/ Crash) /\ pc = "send"
  BY <1>6, EndStep DEF Promise!Next
<1>7. CASE Crash /\ pc # "send"
  BY <1>7, PromiseFrame DEF Crash, tables, transmitted
<1>8. CASE FirstAttemptSnapshot \/ DatabaseError
  BY <1>8, PromiseFrame DEF FirstAttemptSnapshot, DatabaseError, LeaveItem, tables, transmitted
<1>9. ASSUME \/ SelectDue \/ EndBatch \/ Cancel \/ Tick \/ UNCHANGED vars
             \/ \E p \in batch : ClaimNothing(p)
      PROVE  [Promise!Next]_Promise!vars
  <2>1. UNCHANGED <<alert_history, origin, accepted, transmitted>>
    BY <1>9 DEF SelectDue, EndBatch, Cancel, Tick, ClaimNothing, vars, job, tables, ghosts,
                transmitted
  <2> QED
    BY <2>1, PromiseFrame
<1>10. Send => pc = "send"
  BY DEF Send, NotSent, SmtpAccepts, SmtpFails
<1> QED
  BY <1>1, <1>2, <1>3, <1>4, <1>5, <1>6, <1>7, <1>8, <1>9, <1>10
     DEF Next, DeliverNotifications, DeliverOne

(* With ids that are never reused, the outbox implements its abstract      *)
(* specification: claims, retries, crashes, expiry and concurrent          *)
(* deletions each change the fate of at most the notifications they may.   *)
THEOREM ImplementsPromise ==
  ASSUME ~ReuseIds
  PROVE  Spec => DeliversAsPromised
<1>1. Init => Promise!Init
  BY DEF Init, Promise!Init, Fate
<1>2. TypeInv /\ DeliveryInv /\ [Next]_vars => [Promise!Next]_Promise!vars
  BY PromiseStep
<1> QED
  BY <1>1, <1>2, DeliveryInit, DeliveryStep, TypeCorrect, PTL
     DEF Spec, DeliversAsPromised, Promise!Spec

-----------------------------------------------------------------------------
(* Attempts keep their distance.                                           *)

LEMMA PowerMonotone ==
  ASSUME NEW j \in Nat, NEW k \in Nat, j <= k
  PROVE  2^j <= 2^k /\ 2^j \in Nat /\ 2^k \in Nat
<1>1. IsFiniteSet(1 .. j) /\ Cardinality(1 .. j) = j /\ IsFiniteSet(1 .. k) /\ Cardinality(1 .. k) = k
  BY FS_Interval
<1>2. /\ IsFiniteSet(SUBSET (1 .. j)) /\ Cardinality(SUBSET (1 .. j)) = 2^j
      /\ IsFiniteSet(SUBSET (1 .. k)) /\ Cardinality(SUBSET (1 .. k)) = 2^k
  BY <1>1, FS_SUBSET
<1>3. SUBSET (1 .. j) \in SUBSET (SUBSET (1 .. k))
  BY 1 .. j \subseteq 1 .. k
<1>4. Cardinality(SUBSET (1 .. j)) <= Cardinality(SUBSET (1 .. k))
  BY <1>2, <1>3, FS_Subset
<1> QED
  BY <1>2, <1>4, FS_CardinalityType

(* The singletons and the empty set are k + 1 of the subsets of 1 .. k.    *)
LEMMA PowerExceeds == ASSUME NEW k \in Nat PROVE k < 2^k
<1> DEFINE S == 1 .. k
           T == SUBSET S
           f == [x \in S |-> {x}]
<1>1. IsFiniteSet(S) /\ Cardinality(S) = k
  BY FS_Interval
<1>2. IsFiniteSet(T) /\ Cardinality(T) = 2^k /\ Cardinality(T) \in Nat
  BY <1>1, FS_SUBSET, FS_CardinalityType
<1>3. f \in Injection(S, T)
  BY DEF Injection, IsInjective
<1>4. f \notin Surjection(S, T)
  <2>1. {} \in T /\ \A x \in S : f[x] # {}
    OBVIOUS
  <2> QED
    BY <2>1 DEF Surjection
<1>5. Cardinality(S) <= Cardinality(T) /\ Cardinality(S) # Cardinality(T)
  BY <1>2, <1>3, <1>4, FS_Injection
<1> QED
  BY <1>1, <1>2, <1>5

(* int.bit_length() is what its name says: n has no more binary digits.    *)
LEMMA BitLengthExceeds == ASSUME NEW n \in Nat PROVE n < 2^BitLength(n)
<1> DEFINE S == {k \in 0 .. n : 2^k <= n}
           L == Cardinality(S)
<1>1. IsFiniteSet(0 .. n)
  BY FS_Interval
<1>2. IsFiniteSet(S) /\ L \in Nat
  BY <1>1, FS_Subset, FS_CardinalityType
<1>3. 2^L \in Nat
  BY <1>2, PowerPositive
<1> SUFFICES ASSUME 2^L <= n PROVE FALSE
  BY <1>2, <1>3 DEF BitLength
<1>4. L < n
  BY <1>2, <1>3, PowerExceeds
<1>5. 0 .. L \in SUBSET S
  <2> SUFFICES ASSUME NEW j \in 0 .. L PROVE j \in S
    OBVIOUS
  <2>1. 2^j <= 2^L /\ 2^j \in Nat
    BY <1>2, PowerMonotone
  <2> QED
    BY <1>2, <1>3, <1>4, <2>1
<1>6. Cardinality(0 .. L) <= L
  BY <1>2, <1>5, FS_Subset
<1>7. Cardinality(0 .. L) = L + 1
  BY <1>2, FS_Interval
<1> QED
  BY <1>2, <1>6, <1>7

LEMMA ProductGrows ==
  ASSUME NEW a \in Nat \ {0}, NEW b \in Nat PROVE a * b \in Nat /\ a * b >= b
OBVIOUS

(* retry_delay is the initial delay doubled for every attempt, or the       *)
(* maximum: the capped exponent, there to bound an integer, never shows.   *)
THEOREM BackoffExact ==
  ASSUME NEW initial \in Nat \ {0}, NEW maximum \in Nat \ {0}, NEW attempt \in Nat \ {0}
  PROVE  BackoffDelay(initial, maximum, attempt) = Least(initial * 2^(attempt - 1), maximum)
<1> DEFINE L == BitLength(maximum)
           n == attempt - 1
<1>1. L \in Nat /\ n \in Nat
  BY BitLengthType
<1>2. CASE n <= L
  BY <1>2 DEF BackoffDelay, Least
<1>3. CASE L < n
  <2>1. maximum < 2^L /\ 2^L <= 2^n /\ 2^L \in Nat /\ 2^n \in Nat
    BY <1>1, <1>3, BitLengthExceeds, PowerMonotone
  <2>2. Least(n, L) = L
    BY <1>1, <1>3 DEF Least
  <2> HIDE DEF L, n
  <2>3. /\ initial * 2^L \in Nat /\ initial * 2^L >= 2^L
        /\ initial * 2^n \in Nat /\ initial * 2^n >= 2^n
    BY <2>1, ProductGrows
  <2>4. Least(initial * 2^L, maximum) = maximum /\ Least(initial * 2^n, maximum) = maximum
    BY <2>1, <2>3 DEF Least
  <2> QED
    BY <2>2, <2>4 DEF BackoffDelay, L, n
<1> QED
  BY <1>1, <1>2, <1>3

(* A queued notification that has been tried is not due before the delay   *)
(* of its last attempt has passed since that attempt began, unless its     *)
(* deadline comes first; the attempt in delivery is the one it counts.     *)
Spaced(h, q) ==
    h.attempt_count > 0 =>
        q.next_attempt_at >= Least(h.notified_at + RetryDelay(h.attempt_count), q.expires_at)
Tried(id) == Queued(id) /\ alert_history[id].attempt_count > 0

SpacingInv ==
    /\ \A id \in Ids : Queued(id) => Spaced(alert_history[id], alert_notification_outbox[id])
    /\ pc \in Running /\ Tried(item.id) =>
          /\ alert_history[item.id].attempt_count = item.attempt
          /\ alert_history[item.id].notified_at <= now
    /\ pc = "record" /\ Tried(item.id) =>
          alert_history[item.id].notified_at <= outcome.finished

LEMMA QueuedType ==
  ASSUME TypeInv, Consistent, NEW id \in Ids, Queued(id)
  PROVE  /\ Row(id) /\ alert_history[id] \in HistoryRow
         /\ alert_notification_outbox[id] \in OutboxRow
         /\ alert_history[id].attempt_count \in Nat /\ alert_history[id].notified_at \in Nat
         /\ alert_notification_outbox[id].expires_at \in Nat
         /\ alert_notification_outbox[id].next_attempt_at \in Nat
<1>1. Row(id)
  BY DEF Consistent, OutboxMatchesHistory
<1> QED
  BY <1>1 DEF TypeInv, TypeOK, Row, Queued, HistoryRow, OutboxRow

(* What a claimed attempt writes.                                          *)
LEMMA AttemptWrites ==
  ASSUME TypeInv, Consistent, NEW p \in batch, ClaimAttempt(p)
  PROVE  LET id == p[2]
             attempt == alert_history[id].attempt_count + 1
             expires == alert_notification_outbox[id].expires_at
         IN  /\ id \in Ids /\ Queued(id) /\ attempt \in Nat \ {0} /\ expires \in Nat
             /\ expires > now /\ alert_notification_outbox[id].next_attempt_at <= now
             /\ \A j \in Ids \ {id} : /\ alert_history'[j] = alert_history[j]
                                      /\ alert_notification_outbox'[j] = alert_notification_outbox[j]
             /\ alert_history'[id].attempt_count = attempt
             /\ alert_history'[id].notified_at = now
             /\ alert_notification_outbox'[id].next_attempt_at = NextAttempt(now, attempt, expires)
             /\ alert_notification_outbox'[id].expires_at = expires
             /\ item'.id = id /\ item'.attempt = attempt
             /\ pc' \in {"snapshot", "recheck"} /\ now' = now
<1> DEFINE id == p[2]
           row == alert_notification_outbox[id]
           attempt == alert_history[id].attempt_count + 1
           next == NextAttempt(now, attempt, row.expires_at)
<1>1. id \in Ids /\ Queued(id)
  BY DEF TypeInv, TypeOK, ClaimAttempt, Queued
<1>2. /\ alert_history[id] \in HistoryRow /\ row \in OutboxRow /\ row.expires_at \in Nat
      /\ attempt \in Nat \ {0}
  BY <1>1, QueuedType
<1>3. /\ alert_history' = [alert_history EXCEPT ![id] =
             [@ EXCEPT !.attempt_count = attempt, !.notified_at = now, !.next_attempt_at = next]]
      /\ alert_notification_outbox' =
             [alert_notification_outbox EXCEPT ![id] = [@ EXCEPT !.next_attempt_at = next]]
      /\ item' = [id |-> id, intent |-> row.message_id, state |-> row.state,
                  attempt |-> attempt, mock |-> IsMock(id)]
      /\ pc' \in {"snapshot", "recheck"} /\ now' = now
      /\ row.expires_at > now /\ row.next_attempt_at <= now
  BY DEF ClaimAttempt
<1> HIDE DEF attempt, next
<1>4. /\ \A j \in Ids \ {id} : /\ alert_history'[j] = alert_history[j]
                               /\ alert_notification_outbox'[j] = alert_notification_outbox[j]
      /\ alert_history'[id] = [alert_history[id] EXCEPT !.attempt_count = attempt,
             !.notified_at = now, !.next_attempt_at = next]
      /\ alert_notification_outbox'[id] = [row EXCEPT !.next_attempt_at = next]
  BY <1>1, <1>3 DEF TypeInv, TypeOK
<1>5. /\ alert_history'[id].attempt_count = attempt /\ alert_history'[id].notified_at = now
      /\ alert_notification_outbox'[id].next_attempt_at = next
      /\ alert_notification_outbox'[id].expires_at = row.expires_at
  BY <1>2, <1>4 DEF HistoryRow, OutboxRow
<1> QED
  BY <1>1, <1>2, <1>3, <1>4, <1>5 DEF attempt, next

LEMMA SpacingAttempt ==
  ASSUME TypeInv, Consistent, SpacingInv, NEW p \in batch, ClaimAttempt(p)
  PROVE  SpacingInv'
<1> DEFINE id == p[2]
           attempt == alert_history[id].attempt_count + 1
           expires == alert_notification_outbox[id].expires_at
<1>1. /\ id \in Ids /\ Queued(id) /\ attempt \in Nat \ {0} /\ expires \in Nat
      /\ \A j \in Ids \ {id} : /\ alert_history'[j] = alert_history[j]
                               /\ alert_notification_outbox'[j] = alert_notification_outbox[j]
      /\ alert_history'[id].attempt_count = attempt
      /\ alert_history'[id].notified_at = now
      /\ alert_notification_outbox'[id].next_attempt_at = NextAttempt(now, attempt, expires)
      /\ alert_notification_outbox'[id].expires_at = expires
      /\ item'.id = id /\ item'.attempt = attempt
      /\ pc' \in {"snapshot", "recheck"} /\ now' = now
  BY AttemptWrites
<1>2. now \in Nat /\ RetryDelay(attempt) \in Nat
  BY <1>1, DelayType DEF TypeInv, TypeOK
<1> HIDE DEF id, attempt, expires
<1>3. Spaced(alert_history'[id], alert_notification_outbox'[id])
  BY <1>1, <1>2 DEF Spaced, NextAttempt, Least
<1>4. \A j \in Ids : Queued(j)' => Spaced(alert_history'[j], alert_notification_outbox'[j])
  BY <1>1, <1>3 DEF SpacingInv, Queued
<1> QED
  BY <1>1, <1>2, <1>4 DEF SpacingInv, Spaced, Queued, Tried

LEMMA SpacingRecord ==
  ASSUME TypeInv, Consistent, SpacingInv, RecordResult
  PROVE  SpacingInv'
<1> DEFINE id == item.id
           row == alert_notification_outbox[id]
           status == ResultStatus(row.expires_at)
           next == NextAttempt(outcome.finished, item.attempt, row.expires_at)
<1>1. /\ item \in Item /\ outcome \in Outcome /\ id \in Ids /\ item.attempt \in Nat \ {0}
      /\ outcome.finished \in Nat /\ pc = "record" /\ pc' = "loop" /\ now' = now
  BY DEF RecordResult, LeaveItem, TypeInv, JobShape, Item, Outcome
<1>2. SUFFICES \A j \in Ids : alert_notification_outbox'[j] # Null =>
                  Spaced(alert_history'[j], alert_notification_outbox'[j])
  BY <1>1 DEF SpacingInv, Spaced, Queued, Running
<1>3. CASE row = Null \/ alert_history[id] = Null
  <2>1. UNCHANGED tables
    BY <1>3 DEF RecordResult
  <2> QED
    BY <2>1 DEF tables, SpacingInv, Queued
<1>4. CASE row # Null /\ alert_history[id] # Null
  <2>1. /\ Queued(id) /\ row \in OutboxRow /\ alert_history[id] \in HistoryRow
        /\ row.expires_at \in Nat /\ alert_history[id].attempt_count \in Nat
        /\ alert_history[id].notified_at \in Nat
    BY <1>1, <1>4, QueuedType DEF Queued
  <2>2. /\ \A j \in Ids \ {id} : /\ alert_history'[j] = alert_history[j]
                                 /\ alert_notification_outbox'[j] = alert_notification_outbox[j]
        /\ alert_history'[id] = [alert_history[id] EXCEPT !.channel = outcome.channel,
               !.success = outcome.success, !.delivery_status = status,
               !.next_attempt_at = IF StaysQueued(status) THEN next ELSE Null]
        /\ alert_notification_outbox'[id] =
               IF StaysQueued(status) THEN [row EXCEPT !.next_attempt_at = next] ELSE Null
    BY <1>1, <1>4 DEF RecordResult, TypeInv, TypeOK
  <2>3. RetryDelay(item.attempt) \in Nat
    BY <1>1, DelayType
  <2>4. next = Least(outcome.finished + RetryDelay(item.attempt), row.expires_at)
    BY DEF NextAttempt
  <2> HIDE DEF status, next
  <2>5. /\ alert_history'[id].attempt_count = alert_history[id].attempt_count
        /\ alert_history'[id].notified_at = alert_history[id].notified_at
    BY <2>1, <2>2 DEF HistoryRow
  <2>6. ASSUME alert_notification_outbox'[id] # Null
        PROVE  Spaced(alert_history'[id], alert_notification_outbox'[id])
    <3>1. alert_notification_outbox'[id] = [row EXCEPT !.next_attempt_at = next]
      BY <2>2, <2>6
    <3>2. /\ alert_notification_outbox'[id].next_attempt_at = next
          /\ alert_notification_outbox'[id].expires_at = row.expires_at
      BY <2>1, <3>1 DEF OutboxRow
    <3>3. alert_history[id].attempt_count > 0 =>
              /\ alert_history[id].attempt_count = item.attempt
              /\ alert_history[id].notified_at <= outcome.finished
      BY <1>1, <2>1 DEF SpacingInv, Tried, Running
    <3> QED
      BY <1>1, <2>1, <2>3, <2>4, <2>5, <3>2, <3>3 DEF Spaced, Least
  <2> QED
    BY <2>2, <2>6 DEF SpacingInv, Queued
<1> QED
  BY <1>3, <1>4

(* A new row has not been tried, and the row in delivery, if it is still   *)
(* the one that was claimed, is an old one.                                *)
LEMMA SpacingInsert ==
  ASSUME TypeInv, Consistent, SpacingInv, Enqueue
  PROVE  SpacingInv'
<1>1. PICK i \in Intents, id \in Ids : Inserts(i, id)
  BY EnqueueInserts
<1>2. \A j \in Ids \ {id} : alert_notification_outbox'[j] = alert_notification_outbox[j]
  <2>1. PICK k \in Intents, m \in Ids, r \in Rules :
            \/ EnqueueUnrenderable(k, m, r)
            \/ \E state \in {"firing", "resolved"} :
                   EnqueueSkipped(k, m, r, state) \/ EnqueuePending(k, m, r, state)
    BY DEF Enqueue
  <2>2. FreshId(m) /\ ~Row(m) /\ alert_history'[m] # alert_history[m]
    <3>1. FreshId(m) /\ \E channel, success, status, next :
                            InsertHistory(m, k, r, channel, success, status, next)
      BY <2>1 DEF EnqueueUnrenderable, EnqueueSkipped, EnqueuePending, CanRegister
    <3>2. PICK channel, success, status, next : InsertHistory(m, k, r, channel, success, status, next)
      BY <3>1
    <3>3. ~Row(m)
      BY <3>1, FreshIsUnused
    <3>4. alert_history'[m].intent = k /\ last_id' \in Int
      BY <3>2 DEF InsertHistory, TypeInv, TypeOK, Ids
    <3>5. \A j \in Ids \ {m} : alert_history'[j] = alert_history[j]
      BY <3>2 DEF InsertHistory, TypeInv, TypeOK
    <3>6. id = m
      BY <1>1, <3>5 DEF Inserts, Row
    <3> QED
      BY <1>1, <3>1, <3>3, <3>6 DEF Inserts, Row
  <2>3. id = m
    BY <1>1, <2>2 DEF Inserts
  <2> QED
    BY <2>1, <2>3 DEF EnqueueUnrenderable, EnqueueSkipped, EnqueuePending, TypeInv, TypeOK
<1>3. /\ alert_history'[id].attempt_count = 0
      /\ \A j \in Ids \ {id} : alert_history'[j] = alert_history[j]
      /\ UNCHANGED job
  BY <1>1 DEF Inserts
<1>4. now' = now
  BY DEF Enqueue, EnqueueUnrenderable, EnqueueSkipped, EnqueuePending
<1>5. \A j \in Ids : Queued(j)' => Spaced(alert_history'[j], alert_notification_outbox'[j])
  BY <1>2, <1>3 DEF SpacingInv, Queued, Spaced
<1>6. ASSUME pc' \in Running, Tried(item.id)' PROVE item.id # id
  BY <1>3, <1>6 DEF Tried, job
<1>7. pc' \in Running => item' = item /\ item.id \in Ids
  BY <1>3, RunningItem DEF job
<1> QED
  BY <1>2, <1>3, <1>4, <1>5, <1>6, <1>7 DEF SpacingInv, Tried, Queued, job, Running

(* Any other step leaves a row as it is or removes it.                     *)
LEMMA SpacingFrame ==
  ASSUME TypeInv, TypeInv', Consistent, SpacingInv, now' >= now,
         \A j \in Ids : alert_notification_outbox'[j] # Null =>
            /\ alert_notification_outbox'[j] = alert_notification_outbox[j]
            /\ alert_history'[j] = alert_history[j],
         pc' \in Running => pc \in Running /\ item' = item,
         pc' = "record" => \/ pc = "record" /\ outcome' = outcome
                           \/ outcome'.finished = now
  PROVE  SpacingInv'
<1>1. \A j \in Ids : Queued(j)' => /\ Queued(j)
                                   /\ alert_notification_outbox'[j] = alert_notification_outbox[j]
                                   /\ alert_history'[j] = alert_history[j]
  BY DEF Queued
<1>2. \A j \in Ids : Queued(j)' => Spaced(alert_history'[j], alert_notification_outbox'[j])
  BY <1>1 DEF SpacingInv
<1>3. ASSUME pc' \in Running, Tried(item.id)'
      PROVE  /\ alert_history'[item.id].attempt_count = item.attempt
             /\ alert_history'[item.id].notified_at <= now
             /\ alert_history'[item.id].notified_at <= now'
             /\ pc' = "record" => alert_history'[item.id].notified_at <= outcome'.finished
  <2>1. item' = item /\ pc \in Running /\ item.id \in Ids
    BY <1>3, RunningItem
  <2>2. Queued(item.id) /\ Tried(item.id) /\ alert_history'[item.id] = alert_history[item.id]
    BY <1>1, <1>3, <2>1 DEF Tried, Queued
  <2>3. now \in Nat /\ now' \in Nat /\ alert_history[item.id].notified_at \in Nat
    BY <2>1, <2>2, QueuedType DEF TypeInv, TypeOK
  <2>4. /\ alert_history[item.id].attempt_count = item.attempt
        /\ alert_history[item.id].notified_at <= now
        /\ pc = "record" => alert_history[item.id].notified_at <= outcome.finished
    BY <2>1, <2>2 DEF SpacingInv
  <2> QED
    BY <2>2, <2>3, <2>4
<1>4. pc' \in Running => item' = item
  OBVIOUS
<1> QED
  BY <1>2, <1>3, <1>4 DEF SpacingInv, Running, Tried, Queued

LEMMA SpacingOthers ==
  ASSUME TypeInv, Consistent, SpacingInv, [Next]_vars,
         ~Enqueue, ~RecordResult, \A p \in batch : ~ClaimAttempt(p)
  PROVE  SpacingInv'
<1>1. TypeInv'
  BY TypeStep
<1>2. now \in Nat
  BY DEF TypeInv, TypeOK
<1>3. ASSUME NEW p \in batch, ClaimExpired(p) \/ ClaimNothing(p) PROVE SpacingInv'
  <2>1. p[2] \in Ids
    BY DEF TypeInv, TypeOK
  <2>2. /\ now' = now /\ pc' = "loop"
        /\ \A j \in Ids : alert_notification_outbox'[j] # Null =>
              /\ alert_notification_outbox'[j] = alert_notification_outbox[j]
              /\ alert_history'[j] = alert_history[j]
    BY <1>3, <2>1 DEF ClaimExpired, ClaimNothing, NextInBatch, tables, TypeInv, TypeOK
  <2> QED
    BY <1>1, <1>2, <2>2, SpacingFrame DEF Running
<1>4. CASE SelectDue \/ EndBatch \/ FirstAttemptSnapshot \/ Recheck \/ Cancel \/ Tick
  <2>1. /\ UNCHANGED tables /\ now' >= now
        /\ pc' \in Running => pc \in Running /\ item' = item
        /\ pc' = "record" => pc = "record" /\ outcome' = outcome
    BY <1>2, <1>4 DEF SelectDue, EndBatch, FirstAttemptSnapshot, Recheck, LeaveItem, Cancel, Tick,
                      tables, job, Running
  <2> QED
    BY <1>1, <2>1, SpacingFrame DEF tables
<1>5. CASE Send
  <2>1. UNCHANGED <<tables, now, item>> /\ pc = "send" /\ outcome'.finished = now
    BY <1>5 DEF Send, NotSent, SmtpAccepts, SmtpFails, Finish
  <2> QED
    BY <1>1, <1>2, <2>1, SpacingFrame DEF tables, Running
<1>6. CASE DatabaseError \/ Crash
  <2>1. /\ UNCHANGED <<tables, now>>
        /\ pc' \in {"idle", "loop"} \/ UNCHANGED <<pc, item, outcome>>
    BY <1>6 DEF DatabaseError, Crash, LeaveItem
  <2> QED
    BY <1>1, <1>2, <2>1, SpacingFrame DEF tables, Running
<1>7. CASE DeleteHistory \/ DeleteRule \/ PurgeHistory
  <2>1. PICK ids : DeleteRows(ids) /\ UNCHANGED <<now, job>>
    BY <1>7 DEF DeleteHistory, DeleteRule, PurgeHistory, DeleteByAdmin
  <2>2. \A j \in Ids : alert_notification_outbox'[j] # Null =>
              /\ alert_notification_outbox'[j] = alert_notification_outbox[j]
              /\ alert_history'[j] = alert_history[j]
    BY <2>1 DEF DeleteRows
  <2> QED
    BY <1>1, <1>2, <2>1, <2>2, SpacingFrame DEF job, Running
<1>8. CASE UNCHANGED vars
  BY <1>1, <1>2, <1>8, SpacingFrame DEF vars, tables, job, Running
<1> QED
  BY <1>3, <1>4, <1>5, <1>6, <1>7, <1>8 DEF Next, DeliverNotifications, DeliverOne

LEMMA SpacingStep ==
  TypeInv /\ Consistent /\ SpacingInv /\ [Next]_vars => SpacingInv'
BY SpacingInsert, SpacingAttempt, SpacingRecord, SpacingOthers

LEMMA SpacingStart == Init => SpacingInv
BY DEF Init, SpacingInv, Queued, Running

(* Only a claim counts another attempt of a notification.                  *)
LEMMA OnlyClaimsCount ==
  ASSUME TypeInv, Consistent, [Next]_vars, NEW id \in Ids, Row(id), alert_history'[id] # Null,
         alert_history'[id].attempt_count > alert_history[id].attempt_count
  PROVE  \E p \in batch : ClaimAttempt(p) /\ p[2] = id
<1>0. alert_history[id].attempt_count \in Nat
  BY DEF Row, TypeInv, TypeOK, HistoryRow
<1>1. alert_history'[id] # alert_history[id]
  BY <1>0
<1>2. ~Enqueue
  BY <1>1, EnqueueInserts DEF Inserts
<1>3. \A p \in batch : ~ClaimExpired(p)
  <2>1. ASSUME NEW p \in batch, ClaimExpired(p) PROVE FALSE
    <3>1. p[2] \in Ids /\ alert_history[p[2]] \in HistoryRow
      BY <2>1, ClaimUpdates DEF Updates, Row, TypeInv, TypeOK
    <3>2. /\ \A j \in Ids \ {p[2]} : alert_history'[j] = alert_history[j]
          /\ alert_history'[p[2]].attempt_count = alert_history[p[2]].attempt_count
      BY <2>1, <3>1 DEF ClaimExpired, HistoryRow, TypeInv, TypeOK
    <3> QED
      BY <1>0, <1>1, <3>1, <3>2
  <2> QED
    BY <2>1
<1>4. ~RecordResult
  BY <1>0, <1>1, RecordUpdates DEF Updates, tables
<1>5. ~(DeleteHistory \/ DeleteRule \/ PurgeHistory)
  BY <1>1, DeletionRemoves DEF Removes
<1>6. PICK p \in batch : ClaimAttempt(p)
  BY <1>1, <1>2, <1>3, <1>4, <1>5, OthersKeepHistory DEF tables
<1> QED
  BY <1>1, <1>6, ClaimUpdates DEF Updates

(* However attempts fail, crash or are cancelled, the next one waits for    *)
(* the doubled delay or the maximum.                                       *)
THEOREM RetriesAreSpaced == Spec => RetrySpacing
<1>1. ASSUME TypeInv, Consistent, SpacingInv, [Next]_vars, NEW id \in Ids,
             alert_history[id] # Null, alert_history'[id] # Null,
             alert_history[id].attempt_count > 0,
             alert_history'[id].attempt_count > alert_history[id].attempt_count
      PROVE  alert_history'[id].notified_at >=
                 alert_history[id].notified_at
                   + Least(RetryInitial * 2^(alert_history[id].attempt_count - 1), RetryMax)
  <2> DEFINE count == alert_history[id].attempt_count
             began == alert_history[id].notified_at
  <2>1. PICK p \in batch : ClaimAttempt(p) /\ p[2] = id
    BY <1>1, OnlyClaimsCount DEF Row
  <2>2. /\ Queued(id) /\ alert_history'[id].notified_at = now
        /\ alert_notification_outbox[id].expires_at > now
        /\ alert_notification_outbox[id].next_attempt_at <= now
    BY <1>1, <2>1, AttemptWrites
  <2>3. /\ count \in Nat \ {0} /\ began \in Nat /\ now \in Nat
        /\ alert_notification_outbox[id].expires_at \in Nat
        /\ alert_notification_outbox[id].next_attempt_at \in Nat
    BY <1>1, <2>2, QueuedType DEF TypeInv, TypeOK
  <2>4. alert_notification_outbox[id].next_attempt_at >=
            Least(began + RetryDelay(count), alert_notification_outbox[id].expires_at)
    BY <1>1, <2>2, <2>3 DEF SpacingInv, Spaced
  <2>5. RetryDelay(count) = Least(RetryInitial * 2^(count - 1), RetryMax) /\ RetryDelay(count) \in Nat
    BY <2>3, BackoffExact, RetryAssumption, DelayType DEF RetryDelay
  <2> HIDE DEF count, began
  <2>6. now >= began + RetryDelay(count)
    BY <2>2, <2>3, <2>4, <2>5 DEF Least
  <2> QED
    BY <2>2, <2>5, <2>6 DEF count, began
<1>2. TypeInv /\ Consistent /\ SpacingInv /\ [Next]_vars =>
        [\A id \in Ids :
            LET h == alert_history[id]
                g == alert_history'[id]
                doubled == RetryInitial * 2^(h.attempt_count - 1) IN
            h # Null /\ g # Null /\ h.attempt_count > 0 /\ g.attempt_count > h.attempt_count
            => g.notified_at >= h.notified_at + Least(doubled, RetryMax)]_vars
  BY <1>1
<1> QED
  BY <1>2, ConsistentInit, ConsistentStep, SpacingStart, SpacingStep, TypeCorrect, PTL
     DEF Spec, RetrySpacing
=============================================================================
