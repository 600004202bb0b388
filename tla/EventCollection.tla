--------------------------- MODULE EventCollection ---------------------------
(***************************************************************************)
(* Collection of the events of one vCenter: the window that overlaps the   *)
(* last one, its pages, the check and the storing of the batch together    *)
(* with the cursor, and the retention that deletes old rows.               *)
(*                                                                         *)
(* The vCenter is external.  Its clock may differ from the application's,  *)
(* and an event may become readable some time after the time it carries.   *)
(* Its history collector hands out the events of a window the oldest       *)
(* first.                                                                  *)
(***************************************************************************)
EXTENDS Integers, FiniteSets

CONSTANTS
    NoEventCursor, \* no row of ingestion_state, or no value in it
    Skews,         \* the vCenter's clock minus the application's
    Delays,        \* times between createdTime and being readable
    Flaws,         \* of "keyless", "naive", "huge": what may be wrong with an event
    Refused,       \* those the database refuses: {"huge"} on PostgreSQL
    Overlap,       \* TimestampCursor.overlap
    Lookback,      \* the first window's length, one day
    PageSize,      \* ReadNextEvents(500)
    MaxPages,      \* max_pages
    Retention,     \* event_retention_days
    LastTime,      \* bound: the application's clock
    MaxEmitted     \* bound: events of the vCenter

ASSUME EventCollectionAssumption ==
    /\ {Overlap, Lookback, LastTime, MaxEmitted} \subseteq Nat
    /\ {PageSize, MaxPages, Retention} \subseteq Nat \ {0}
    /\ NoEventCursor \notin Int
    /\ Skews \subseteq Int /\ Delays \subseteq Nat
    /\ Refused \subseteq Flaws /\ Flaws \subseteq {"keyless", "naive", "huge"}

VARIABLES
    now,           \* the application's clock
    skew,          \* of this vCenter
    emitted,       \* events of the vCenter: [key, at, seen, flaw]
    kept,          \* rows of events
    deleted,       \* ghost: events the retention deleted
    eventCursor,   \* the committed cursor
    promised,      \* ghost: the time from which no event is to be missing
    pull           \* the collection under way

eventVars == <<now, skew, emitted, kept, deleted, eventCursor, promised, pull>>

NoPull == [pc |-> "idle", prev |-> NoEventCursor, since |-> 0, end |-> 0,
           pages |-> 0, raw |-> {}, next |-> NoEventCursor]

EventsInit ==
    /\ now = Lookback
    /\ skew \in Skews
    /\ emitted = {} /\ kept = {} /\ deleted = {}
    /\ eventCursor = NoEventCursor
    /\ promised = NoEventCursor
    /\ pull = NoPull

-----------------------------------------------------------------------------
(* The vCenter and time.                                                    *)

Tick ==
    /\ now < LastTime
    /\ now' = now + 1
    /\ UNCHANGED <<skew, emitted, kept, deleted, eventCursor, promised, pull>>

EventEmitted(delay, flaw) ==
    /\ Cardinality(emitted) < MaxEmitted
    /\ emitted' = emitted \cup {[key |-> Cardinality(emitted) + 1, at |-> now + skew - delay,
                                 seen |-> now, flaw |-> flaw]}
    /\ UNCHANGED <<now, skew, kept, deleted, eventCursor, promised, pull>>

Older(d, e) == d.at < e.at \/ (d.at = e.at /\ d.key < e.key)

\* What of the window is newer than all that was read.
Ahead == {e \in emitted : /\ pull.since <= e.at /\ e.at <= pull.end
                          /\ \A r \in pull.raw : Older(r, e)}

\* ReadNextEvents: the oldest of it, as many as a page takes.
IsPage(page) ==
    /\ IF Cardinality(Ahead) <= PageSize THEN page = Ahead ELSE Cardinality(page) = PageSize
    /\ \A d \in page : \A e \in Ahead \ page : Older(d, e)

-----------------------------------------------------------------------------
(* One collection.                                                          *)

\* run_collector_for_vcenter: the cursor is read, then the connection is opened.
BeginPull ==
    /\ pull.pc = "idle"
    /\ pull' = [NoPull EXCEPT !.pc = "connecting", !.prev = eventCursor]
    /\ UNCHANGED <<now, skew, emitted, kept, deleted, eventCursor, promised>>

\* TimestampCursor.window_start, and the filter of the history collector.
WindowStart(prev, end) == IF prev = NoEventCursor THEN end - Lookback ELSE prev - Overlap

OpenWindow ==
    /\ pull.pc = "connecting"
    /\ pull' = [pull EXCEPT !.pc = "reading", !.end = now, !.since = WindowStart(pull.prev, now)]
    /\ UNCHANGED <<now, skew, emitted, kept, deleted, eventCursor, promised>>

\* Until a page is empty or there were max_pages.
ReadPage ==
    /\ pull.pc = "reading"
    /\ \E page \in SUBSET Ahead :
          /\ IsPage(page)
          /\ pull' = IF pull.pages = MaxPages \/ page = {} THEN [pull EXCEPT !.pc = "read"]
                     ELSE [pull EXCEPT !.pages = @ + 1, !.raw = @ \cup page]
    /\ UNCHANGED <<now, skew, emitted, kept, deleted, eventCursor, promised>>

\* normalize_event leaves out an event without a key.
Keyed(e) == e.flaw # "keyless"

\* EventsCollector.fetch.
Batch == {e \in pull.raw : Keyed(e)}

(* Mutant: the next window begins where this one ended.                     *)
NextCursor_ToTheEnd(batch, next) == next = pull.end
\* TimestampCursor.advance: the latest event, else what it was, else now.
NextCursor(batch, next) ==
    IF batch # {} THEN /\ \E e \in batch : next = e.at
                       /\ \A e \in batch : e.at <= next
    ELSE next = IF pull.prev # NoEventCursor THEN pull.prev ELSE now

\* _batch_errors.
BatchErrors == {e \in Batch : e.flaw = "naive"}

\* collect returns and _validate_batch looks for errors: one of them refuses all.
CheckBatch ==
    /\ pull.pc = "read"
    /\ \/ /\ BatchErrors # {}
          /\ pull' = NoPull
       \/ /\ BatchErrors = {}
          /\ \E next \in {e.at : e \in emitted} \cup {eventCursor, pull.end, now} :
                /\ NextCursor(Batch, next)
                /\ pull' = [pull EXCEPT !.pc = "storing", !.next = next]
    /\ UNCHANGED <<now, skew, emitted, kept, deleted, eventCursor, promised>>

\* _persist_batch: rows and cursor in one transaction; a key that is there stays.
StoreBatch ==
    /\ pull.pc = "storing"
    /\ ~ \E e \in Batch : e.flaw \in Refused
    /\ kept' = kept \cup {e \in Batch : ~ \E k \in kept : k.key = e.key}
    /\ eventCursor' = pull.next
    /\ promised' = IF promised # NoEventCursor THEN promised
                   ELSE IF Batch = {} THEN pull.next - Overlap ELSE pull.since
    /\ pull' = NoPull
    /\ UNCHANGED <<now, skew, emitted, deleted>>

\* connect_vcenter refuses the protocol, the port or the host, or does not succeed.
ConnectionFails ==
    /\ pull.pc = "connecting"
    /\ pull' = NoPull
    /\ UNCHANGED <<now, skew, emitted, kept, deleted, eventCursor, promised>>

\* An error of the session, the timeout, an error of the database: nothing is
\* stored (what a thread that was given up on still returns is dropped).
PullFails ==
    /\ pull.pc \in {"reading", "read", "storing"}
    /\ pull' = NoPull
    /\ UNCHANGED <<now, skew, emitted, kept, deleted, eventCursor, promised>>

\* purge_old_events.
PurgeEvents ==
    LET old == {e \in kept : e.at < now - Retention}
    IN /\ old # {}
       /\ kept' = kept \ old
       /\ deleted' = deleted \cup old
       /\ UNCHANGED <<now, skew, emitted, eventCursor, promised, pull>>

EventsNext ==
    \/ Tick \/ PurgeEvents
    \/ \E delay \in Delays, flaw \in Flaws \cup {"none"} : EventEmitted(delay, flaw)
    \/ BeginPull \/ OpenWindow \/ ReadPage \/ CheckBatch \/ StoreBatch
    \/ ConnectionFails \/ PullFails

EventsSpec == EventsInit /\ [][EventsNext]_eventVars

(***************************************************************************)
(* Properties                                                              *)
(***************************************************************************)
\* Rows, cursor and the collection under way have their shape.
EventsTypeOK ==
    /\ kept \subseteq emitted /\ deleted \subseteq emitted
    /\ eventCursor \in Int \cup {NoEventCursor} /\ promised \in Int \cup {NoEventCursor}
    /\ pull.pc \in {"idle", "connecting", "reading", "read", "storing"}
    /\ pull.raw \subseteq emitted

\* Readable no later than the overlap after the time it carries, by the
\* application's clock.
InTime(e) == e.seen - e.at <= Overlap

\* No event is passed over: what a cursor has left behind was stored, whatever
\* failed and however the clocks differ, if it was readable in time and has a
\* key (TimestampCursor, the transaction of _persist_batch).
NoEventMissed ==
    eventCursor # NoEventCursor =>
        \A e \in emitted :
            e.at >= promised /\ e.at < eventCursor - Overlap /\ InTime(e) /\ Keyed(e)
                => e \in kept \cup deleted
==============================================================================
