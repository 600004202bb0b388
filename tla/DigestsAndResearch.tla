------------------------- MODULE DigestsAndResearch -------------------------
(***************************************************************************)
(* The jobs that summarise stored events: the daily digest and one asked   *)
(* for by an operator, the research of event types on the web with its     *)
(* cache, and the purge of what is older than its retention.               *)
(*                                                                         *)
(* Time is counted in days of the digest time zone.  The language model    *)
(* and the search service are external: they answer anything or fail.      *)
(***************************************************************************)
EXTENDS Integers, Sequences, FiniteSets

CONSTANTS
    EventTypes,
    TypeScore(_),         \* the greatest notable score of the events of a type
    ScoreThreshold,       \* research_event_score_threshold
    LastDay,              \* bound: days
    MaxEvents,            \* bound: events stored at once
    MaxAsked,             \* bound: digests there may be when one is asked for
    Periods,              \* periods an operator asks for: <<from, to>>
    FoundDays, NothingDays, ErrorDays, \* how long a result of research is fresh
    LookbackDays, MaxPerCycle, MaxAttached,
    EventDays, DigestDays, \* retention; 0 keeps digests for ever
    NoResearch

ASSUME DigestsAssumption ==
    /\ {MaxEvents, MaxAsked, FoundDays, NothingDays, ErrorDays, LookbackDays, DigestDays} \subseteq Nat
    /\ {LastDay, MaxPerCycle, MaxAttached, EventDays} \subseteq Nat \ {0}
    /\ ScoreThreshold \in Int
    /\ Periods \subseteq Int \X Int
    /\ \A p \in Periods : p[1] < p[2]
    /\ NoResearch \notin [status : {"ok", "no_result", "error"}, at : 1 .. LastDay]

VARIABLES
    today,
    happened,   \* stored events: [type, day]
    research,   \* event type -> its row, NoResearch when there is none
    digests,    \* stored digests
    due,        \* the trigger of the daily digest has fired and its job has not begun
    writing,    \* task -> the digest it works at
    cycle       \* the research job

digestVars == <<today, happened, research, digests, due, writing, cycle>>

Tasks == {"scheduled", "asked for"}
NoDigest == [pc |-> "idle", kind |-> "", from |-> 0, to |-> 0,
             status |-> "", attached |-> {}]
NoCycle == [pc |-> "idle", targets |-> <<>>, status |-> ""]

DigestsInit ==
    /\ today = 1
    /\ happened = {}
    /\ research = [t \in EventTypes |-> NoResearch]
    /\ digests = {}
    /\ due = FALSE
    /\ writing = [k \in Tasks |-> NoDigest]
    /\ cycle = NoCycle

During(from, to) == {e \in happened : from <= e.day /\ e.day < to}
Notable(events) == {t \in {e.type : e \in events} : TypeScore(t) >= ScoreThreshold}

\* The n types of the highest scores, in their order.
Ranked(types) == {s \in [1 .. Cardinality(types) -> types] :
                     /\ {s[i] : i \in DOMAIN s} = types
                     /\ \A i, j \in DOMAIN s : i < j => TypeScore(s[i]) >= TypeScore(s[j])}
Topmost(n, s) == SubSeq(s, 1, IF Len(s) < n THEN Len(s) ELSE n)

-----------------------------------------------------------------------------
(* Digests.                                                                 *)

\* The cron trigger fires once a day; a job that waits takes the place of it.
NextDay ==
    /\ today < LastDay
    /\ today' = today + 1
    /\ due' = TRUE
    /\ UNCHANGED <<happened, research, digests, writing, cycle>>

\* A collector stores an event of yesterday or today.
EventStored(t, day) ==
    /\ day \in {today - 1, today}
    /\ Cardinality(happened) < MaxEvents
    /\ happened' = happened \cup {[type |-> t, day |-> day]}
    /\ UNCHANGED <<today, research, digests, due, writing, cycle>>

BeginDigest(task, kind, from, to) ==
    /\ writing[task].pc = "idle"
    /\ writing' = [writing EXCEPT ![task] =
           [NoDigest EXCEPT !.pc = "summarising", !.kind = kind, !.from = from, !.to = to]]

\* run_daily_digest: yesterday, in the digest time zone, when the job begins.
DailyDigest ==
    /\ due
    /\ due' = FALSE
    /\ BeginDigest("scheduled", "daily", today - 1, today)
    /\ UNCHANGED <<today, happened, research, digests, cycle>>

\* The job waited longer than its misfire grace.
DigestMissed ==
    /\ due
    /\ due' = FALSE
    /\ UNCHANGED <<today, happened, research, digests, writing, cycle>>

\* run_digest: yesterday, or a period and a kind of the operator's.
DigestAskedFor(kind, from, to) ==
    /\ Cardinality(digests) + Cardinality({k \in Tasks : writing[k].pc # "idle"}) < MaxAsked
    /\ BeginDigest("asked for", kind, from, to)
    /\ UNCHANGED <<today, happened, research, digests, due, cycle>>

\* The template fails: a row without a text says so.
TemplateFails(task) ==
    /\ writing[task].pc = "summarising"
    /\ writing' = [writing EXCEPT ![task].pc = "storing", ![task].status = "error"]
    /\ UNCHANGED <<today, happened, research, digests, due, cycle>>

\* The model adds its summary, or the template stands alone (augment_digest_with_llm).
Summarised(task, answered) ==
    /\ writing[task].pc = "summarising"
    /\ writing' = [writing EXCEPT
           ![task].pc = IF writing[task].kind = "daily" THEN "attaching" ELSE "storing",
           ![task].status = IF answered THEN "ok" ELSE "ok_llm_failed"]
    /\ UNCHANGED <<today, happened, research, digests, due, cycle>>

\* select_research_for_window: a result is attached however old it is.
Attachable(from, to) ==
    {t \in Notable(During(from, to)) : research[t] # NoResearch /\ research[t].status = "ok"}

ResearchAttached(task) ==
    LET d == writing[task]
    IN /\ d.pc = "attaching"
       /\ \E order \in Ranked(Attachable(d.from, d.to)) :
             LET best == Topmost(MaxAttached, order)
             IN writing' = [writing EXCEPT ![task].pc = "storing",
                               ![task].attached = {best[i] : i \in DOMAIN best}]
       /\ UNCHANGED <<today, happened, research, digests, due, cycle>>

\* The row is committed before the answer to the operator is put together.
DigestStored(task) ==
    LET d == writing[task]
    IN /\ d.pc = "storing"
       /\ digests' = digests \cup
              {[task |-> task, kind |-> d.kind, from |-> d.from, to |-> d.to,
                status |-> d.status, attached |-> d.attached, at |-> today]}
       /\ writing' = [writing EXCEPT ![task] = NoDigest]
       /\ UNCHANGED <<today, happened, research, due, cycle>>

\* The database fails: the job logs it, the request is refused.
DigestLost(task) ==
    /\ writing[task].pc # "idle"
    /\ writing' = [writing EXCEPT ![task] = NoDigest]
    /\ UNCHANGED <<today, happened, research, digests, due, cycle>>

-----------------------------------------------------------------------------
(* Research: run_research_cycle, one type after the other.                  *)

FreshFor(status) == CASE status = "ok" -> FoundDays
                      [] status = "no_result" -> NothingDays
                      [] OTHER -> ErrorDays

(* Mutant: an error is no result, so the type is searched again at once. *)
Fresh_NotErrors(t) ==
    /\ research[t] # NoResearch
    /\ research[t].status # "error"
    /\ research[t].at >= today - FreshFor(research[t].status)

\* research_is_fresh
Fresh(t) ==
    /\ research[t] # NoResearch
    /\ research[t].at >= today - FreshFor(research[t].status)

SelectTargets ==
    LET stale == {t \in Notable({e \in happened : e.day >= today - LookbackDays}) : ~ Fresh(t)}
    IN /\ cycle.pc = "idle"
       /\ stale # {}
       /\ \E order \in Ranked(stale) :
             cycle' = [NoCycle EXCEPT !.pc = "searching", !.targets = Topmost(MaxPerCycle, order)]
       /\ UNCHANGED <<today, happened, research, digests, due, writing>>

\* The search brings pages, none, or fails.
Searched(outcome) ==
    /\ cycle.pc = "searching"
    /\ cycle' = [cycle EXCEPT !.pc = IF outcome = "pages" THEN "condensing" ELSE "keeping",
                              !.status = CASE outcome = "pages" -> ""
                                           [] outcome = "none" -> "no_result"
                                           [] OTHER -> "error"]
    /\ UNCHANGED <<today, happened, research, digests, due, writing>>

\* The model finds nothing useful; or it condenses, fails or is not configured,
\* and the sources are kept for what they are.
Condensed(useless) ==
    /\ cycle.pc = "condensing"
    /\ cycle' = [cycle EXCEPT !.pc = "keeping", !.status = IF useless THEN "no_result" ELSE "ok"]
    /\ UNCHANGED <<today, happened, research, digests, due, writing>>

NextTarget == IF Len(cycle.targets) = 1 THEN NoCycle
              ELSE [NoCycle EXCEPT !.pc = "searching", !.targets = Tail(cycle.targets)]

\* _upsert_research: the row of the type says what this search has brought, also
\* where an older one had found more.
ResearchKept ==
    /\ cycle.pc = "keeping"
    /\ research' = [research EXCEPT ![Head(cycle.targets)] =
           [status |-> cycle.status, at |-> today]]
    /\ cycle' = NextTarget
    /\ UNCHANGED <<today, happened, digests, due, writing>>

\* The database fails for this type; the others follow.
ResearchLost ==
    /\ cycle.pc = "keeping"
    /\ cycle' = NextTarget
    /\ UNCHANGED <<today, happened, research, digests, due, writing>>

-----------------------------------------------------------------------------
\* purge_retention: one transaction, kept or lost as a whole.
PurgeOld ==
    /\ happened' = {e \in happened : e.day >= today - EventDays}
    /\ digests' = IF DigestDays = 0 THEN digests ELSE {d \in digests : d.at >= today - DigestDays}
    /\ <<happened, digests>> # <<happened', digests'>>
    /\ UNCHANGED <<today, research, due, writing, cycle>>

\* The jobs live in memory: what was due or under way is gone.
StopAndStart ==
    /\ due' = FALSE
    /\ writing' = [k \in Tasks |-> NoDigest]
    /\ cycle' = NoCycle
    /\ UNCHANGED <<today, happened, research, digests>>

DigestsNext ==
    \/ NextDay \/ DailyDigest \/ DigestMissed \/ PurgeOld \/ StopAndStart
    \/ \E t \in EventTypes, day \in 0 .. LastDay : EventStored(t, day)
    \/ \E kind \in {"daily", "weekly"}, p \in Periods : DigestAskedFor(kind, p[1], p[2])
    \/ \E k \in Tasks : TemplateFails(k) \/ ResearchAttached(k) \/ DigestStored(k) \/ DigestLost(k)
    \/ \E k \in Tasks, answered \in BOOLEAN : Summarised(k, answered)
    \/ SelectTargets \/ ResearchKept \/ ResearchLost
    \/ \E outcome \in {"pages", "none", "fails"} : Searched(outcome)
    \/ \E useless \in BOOLEAN : Condensed(useless)

DigestsSpec == DigestsInit /\ [][DigestsNext]_digestVars

(***************************************************************************)
(* Properties                                                              *)
(***************************************************************************)
DigestRecord ==
    [task : Tasks, kind : {"daily", "weekly"}, from : Int, to : Int,
     status : {"ok", "ok_llm_failed", "error"}, attached : SUBSET EventTypes, at : 1 .. LastDay]
EventTypeResearch == [status : {"ok", "no_result", "error"}, at : 1 .. LastDay]

\* Rows and jobs have their shape.
DigestsTypeOK ==
    /\ today \in 1 .. LastDay
    /\ happened \subseteq [type : EventTypes, day : 0 .. LastDay]
    /\ research \in [EventTypes -> {NoResearch} \cup EventTypeResearch]
    /\ digests \subseteq DigestRecord
    /\ \A k \in Tasks : writing[k].pc \in {"idle", "summarising", "attaching", "storing"}
    /\ cycle.pc \in {"idle", "searching", "condensing", "keeping"}
    /\ Len(cycle.targets) <= MaxPerCycle

\* The schedule writes a day once and only when it is over, whatever runs
\* beside it and across restarts (run_daily_digest, zoned_yesterday_window).
DaysDigestedOnce ==
    \A d \in {e \in digests : e.task = "scheduled"} :
        /\ d.to <= d.at
        /\ \A e \in digests : e.task = "scheduled" /\ e.from = d.from => e = d

\* No type is searched while the result of an earlier search is fresh, though
\* days pass between its selection and its turn (run_research_cycle).
NoneSearchedWhileFresh ==
    cycle.pc \in {"searching", "condensing", "keeping"} =>
        LET row == research[Head(cycle.targets)]
        IN row = NoResearch \/ row.at < today - FreshFor(row.status)

\* What a digest attaches was found for a type of its period that is worth it,
\* and goes with a text (select_research_for_window, run_digest_once).
AttachedWasFound ==
    \A d \in digests \cup {writing[k] : k \in Tasks} :
        d.attached # {} =>
            /\ d.kind = "daily" /\ d.status # "error"
            /\ Cardinality(d.attached) <= MaxAttached
            /\ \A t \in d.attached : research[t] # NoResearch /\ TypeScore(t) >= ScoreThreshold

\* Days are written once and research is bought once.
DigestPromises == DaysDigestedOnce /\ NoneSearchedWhileFresh /\ AttachedWasFound
=============================================================================
