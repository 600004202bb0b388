-------------------------- MODULE CollectorRuntime --------------------------
(***************************************************************************)
(* Collection by one plugin that runs in a worker process, for every       *)
(* enabled vCenter: the jobs that start it (the interval job of the plugin *)
(* and the manual ingest), one run per vCenter, the worker of each         *)
(* registry generation with its request channel, and the hot reload that   *)
(* replaces a generation by the next.                                      *)
(*                                                                         *)
(* What a vCenter has to report is abstracted to items numbered 1, 2, ...; *)
(* a cursor is the number of the last item it covers.  The plugin itself   *)
(* is external: it answers with the items after the cursor it was given.   *)
(*                                                                         *)
(* One action is the code between two awaits of the asyncio loop.  A job   *)
(* is taken as busy until all its runs have ended.                         *)
(***************************************************************************)
EXTENDS Integers, FiniteSets, Sequences

CONSTANTS
    VCenters,    \* the enabled vCenters
    Jobs,        \* the callers of run_registered_collector, one run at a time each
    PollJobs,    \* those the scheduler starts again and again
    Reloader,    \* the task inside reload_collector_registry
    Null,        \* None
    MaxGen,      \* bound: generations of the registry
    MaxItems,    \* bound: items a vCenter produces
    Limit,       \* settings.ingestion_concurrency
    FaultKinds,  \* of "hang", "exit", "error", "db", "restart"
    MaxFaults    \* bound: faults in a behaviour

ASSUME CollectorAssumption ==
    /\ PollJobs \subseteq Jobs
    /\ IsFiniteSet(Jobs) /\ IsFiniteSet(VCenters)
    /\ {MaxItems, MaxFaults} \subseteq Nat
    /\ {MaxGen, Limit} \subseteq Nat \ {0}
    /\ Reloader # Null
    /\ {Reloader, Null} \cap (VCenters \cup (Jobs \X VCenters)) = {}

VARIABLES
    source,    \* vCenter -> how many items it has produced so far
    stored,    \* vCenter -> the items in its rows of the database
    cursor,    \* vCenter -> IngestionState.cursor_value
    status,    \* vCenter -> CollectorRunState.status
    registry,  \* the active generation, 0 before the first one is active
    regs,      \* generation -> status of the plugin's registration in it
    job,       \* job -> where it is, and the generation it captured
    run,       \* job -> vCenter -> where the run is, its cursor and its batch
    lock,      \* vCenter -> the run that holds _locks[plugin, vCenter]
    worker,    \* generation -> its CollectorWorker
    reload,    \* the reload in progress
    faults     \* faults so far

database == <<stored, cursor, status>>
vars == <<source, stored, cursor, status, registry, regs, job, run, lock,
          worker, reload, faults>>

Gens    == 1 .. MaxGen
Runs    == Jobs \X VCenters
Callers == Runs \cup {Reloader}
Item(v, n)        == <<v, n>>
Items(v, from, to) == {Item(v, n) : n \in (from + 1) .. to}

NoBatch == [ok |-> FALSE, vc |-> Null, from |-> 0, to |-> 0]
Idle    == [pc |-> "idle", cur |-> 0, batch |-> NoBatch]
Down    == [up |-> FALSE, hung |-> FALSE, closing |-> FALSE,
            busy |-> Null, inbox |-> <<>>, pipe |-> <<>>]
Booting == [pc |-> "starting", gen |-> 1, prev |-> 0, left |-> {}, at |-> Null]

Init ==
    /\ source = [v \in VCenters |-> 0]
    /\ stored = [v \in VCenters |-> {}]
    /\ cursor = [v \in VCenters |-> 0]
    /\ status = [v \in VCenters |-> "idle"]
    /\ registry = 0
    /\ regs = [g \in Gens |-> IF g = 1 THEN "enabled" ELSE "none"]
    /\ job = [j \in Jobs |-> [pc |-> "idle", gen |-> 0]]
    /\ run = [j \in Jobs |-> [v \in VCenters |-> Idle]]
    /\ lock = [v \in VCenters |-> Null]
    /\ worker = [g \in Gens |-> Down]
    /\ reload = Booting
    /\ faults = 0

Fault(kind) ==
    /\ kind \in FaultKinds
    /\ faults < MaxFaults
    /\ faults' = faults + 1

-----------------------------------------------------------------------------
(* The worker process and its channel: CollectorWorker of remote.py and     *)
(* the loop of worker.py.  The lock of a CollectorWorker is `busy`.         *)

Request(op, v, from) == [op |-> op, vc |-> v, from |-> from]

\* request(): spawn the process when none is running, then write the line.
Spawned(w) == IF w.up THEN w ELSE [Down EXCEPT !.up = TRUE]

Send(g, who, req) ==
    /\ worker[g].busy = Null
    /\ worker' = [worker EXCEPT ![g] =
                    [Spawned(worker[g]) EXCEPT !.busy = who, !.inbox = Append(@, req)]]

\* The response line that readline() returns, and what stays behind it.
Answered(g, who) == worker[g].busy = who /\ worker[g].pipe # <<>>
Answer(g)        == Head(worker[g].pipe)
TakeAnswer(g)    ==
    worker' = [worker EXCEPT ![g].busy = Null, ![g].pipe = Tail(@)]

\* No line: the timeout expires, or the process is gone and the read hits EOF.
(* Mutant: a worker that hangs is waited for without a timeout.             *)
Lost_NoTimeout(g, who) ==
    worker[g].busy = who /\ worker[g].pipe = <<>> /\ ~worker[g].up
Lost(g, who) ==
    /\ worker[g].busy = who
    /\ worker[g].pipe = <<>>
    /\ worker[g].hung \/ ~worker[g].up

\* kill(): the process and everything in its pipes are gone.
(* Mutant: a worker that timed out is left running for the next request.    *)
Killed_LeftRunning(w) == [w EXCEPT !.busy = Null]
Killed(w) == Down
GiveUp(g) == worker' = [worker EXCEPT ![g] = Killed(@)]

\* _serve(): one request is read, handled and answered.
Serve(g) ==
    LET w   == worker[g]
        req == Head(w.inbox)
    IN  /\ w.up /\ ~w.closing /\ w.inbox # <<>>
        /\ \E ok \in BOOLEAN :
             /\ \/ ok /\ UNCHANGED faults
                \/ ~ok /\ Fault("error")
             /\ worker' = [worker EXCEPT ![g].inbox = Tail(@),
                    ![g].hung = FALSE,
                    ![g].pipe = Append(@, [ok   |-> ok, vc |-> req.vc,
                                           from |-> req.from,
                                           to   |-> IF req.op = "collect"
                                                    THEN source[req.vc] ELSE 0])]
        /\ UNCHANGED <<source, database, registry, regs, job, run, lock, reload>>

\* The plugin takes longer than the timeout; it may still answer late.
Hang(g) ==
    /\ worker[g].up /\ worker[g].inbox # <<>> /\ ~worker[g].hung
    /\ Fault("hang")
    /\ worker' = [worker EXCEPT ![g].hung = TRUE]
    /\ UNCHANGED <<source, database, registry, regs, job, run, lock, reload>>

\* The process dies.  A line it has written can still be read.
Exit(g) ==
    /\ worker[g].up
    /\ Fault("exit")
    /\ worker' = [worker EXCEPT ![g] = [Down EXCEPT !.busy = worker[g].busy,
                                                    !.pipe = worker[g].pipe]]
    /\ UNCHANGED <<source, database, registry, regs, job, run, lock, reload>>

-----------------------------------------------------------------------------
(* Jobs: run_registered_collector.                                          *)

\* The registration is captured before the vCenters are listed.
StartJob(j) ==
    /\ job[j].pc = "idle"
    /\ registry # 0
    /\ job' = [job EXCEPT ![j] = [pc |-> "listing", gen |-> registry]]
    /\ UNCHANGED <<source, database, registry, regs, run, lock, worker, reload,
                   faults>>

ListVCenters(j) ==
    /\ job[j].pc = "listing"
    /\ \/ /\ job' = [job EXCEPT ![j].pc = "running"]
          /\ run' = [run EXCEPT ![j] =
                       [v \in VCenters |-> [Idle EXCEPT !.pc = "begin"]]]
          /\ UNCHANGED faults
       \/ /\ Fault("db")
          /\ job' = [job EXCEPT ![j].pc = "idle"]
          /\ UNCHANGED run
    /\ UNCHANGED <<source, database, registry, regs, lock, worker, reload>>

EndJob(j) ==
    /\ job[j].pc = "running"
    /\ \A v \in VCenters : run[j][v].pc = "idle"
    /\ job' = [job EXCEPT ![j].pc = "idle"]
    /\ UNCHANGED <<source, database, registry, regs, run, lock, worker, reload,
                   faults>>

-----------------------------------------------------------------------------
(* One run: run_collector_for_vcenter.                                      *)

Goes(j, v, pc) == run' = [run EXCEPT ![j][v].pc = pc]
Ends(j, v)     == run' = [run EXCEPT ![j][v] = Idle]

\* A drain that waits for the lock is ahead of whoever asks for it now.
DrainWaits(v) == reload.at = v

\* The check of the lock, before any await.
(* Mutant: a lock of its own for each generation.                           *)
AlreadyRunning_PerGeneration(j, v) ==
    lock[v] # Null /\ job[lock[v][1]].gen = job[j].gen
AlreadyRunning(j, v) == lock[v] # Null

\* Not enabled: failed.  Locked: skipped.  Otherwise the lock is taken, or
\* waited for behind the drain.
Begin(j, v) ==
    /\ run[j][v].pc = "begin"
    /\ IF regs[job[j].gen] # "enabled" \/ AlreadyRunning(j, v)
       THEN Ends(j, v) /\ UNCHANGED lock
       ELSE IF DrainWaits(v)
       THEN Goes(j, v, "queued") /\ UNCHANGED lock
       ELSE /\ Goes(j, v, "locked")
            /\ lock' = [lock EXCEPT ![v] = <<j, v>>]
    /\ UNCHANGED <<source, database, registry, regs, job, worker, reload, faults>>

TakeLock(j, v) ==
    /\ run[j][v].pc = "queued"
    /\ lock[v] = Null /\ ~DrainWaits(v)
    /\ Goes(j, v, "locked")
    /\ lock' = [lock EXCEPT ![v] = <<j, v>>]
    /\ UNCHANGED <<source, database, registry, regs, job, worker, reload, faults>>

\* The runs that hold the limiter.
Holding == {r \in Runs : run[r[1]][r[2]].pc
                \in {"marked", "asking", "waiting", "persisting", "failing"}}

\* The limiter, then _mark_started, whose failure leaves through the caller.
MarkStarted(j, v) ==
    /\ run[j][v].pc = "locked"
    /\ Cardinality(Holding) < Limit
    /\ \/ /\ Goes(j, v, "marked")
          /\ status' = [status EXCEPT ![v] = "running"]
          /\ UNCHANGED <<lock, faults>>
       \/ /\ Fault("db")
          /\ Ends(j, v)
          /\ lock' = [lock EXCEPT ![v] = Null]
          /\ UNCHANGED status
    /\ UNCHANGED <<source, stored, cursor, registry, regs, job, worker, reload>>

ReadCursor(j, v) ==
    /\ run[j][v].pc = "marked"
    /\ \/ /\ run' = [run EXCEPT ![j][v].pc = "asking",
                                ![j][v].cur = cursor[v]]
          /\ UNCHANGED faults
       \/ Fault("db") /\ Goes(j, v, "failing")
    /\ UNCHANGED <<source, database, registry, regs, job, lock, worker, reload>>

\* collect_with_connection: ask the worker of the captured generation.
SendCollect(j, v) ==
    /\ run[j][v].pc = "asking"
    /\ Send(job[j].gen, <<j, v>>, Request("collect", v, run[j][v].cur))
    /\ Goes(j, v, "waiting")
    /\ UNCHANGED <<source, database, registry, regs, job, lock, reload, faults>>

\* The answer as it arrives: the id it carries is not compared.
CollectAnswered(j, v) ==
    LET g == job[j].gen IN
    /\ run[j][v].pc = "waiting"
    /\ Answered(g, <<j, v>>)
    /\ run' = [run EXCEPT ![j][v].batch = Answer(g),
                          ![j][v].pc = IF Answer(g).ok THEN "persisting"
                                                       ELSE "failing"]
    /\ TakeAnswer(g)
    /\ UNCHANGED <<source, database, registry, regs, job, lock, reload, faults>>

CollectLost(j, v) ==
    /\ run[j][v].pc = "waiting"
    /\ Lost(job[j].gen, <<j, v>>)
    /\ GiveUp(job[j].gen)
    /\ Goes(j, v, "failing")
    /\ UNCHANGED <<source, database, registry, regs, job, lock, reload, faults>>

\* The cursor after a batch, where the plugin may leave it as it is.
(* Mutants: None is stored too; the cursor is taken from the time of commit. *)
Advanced_None(v, next) == [cursor EXCEPT ![v] = next]
Advanced_Now(v, next)  == [cursor EXCEPT ![v] = source[v]]
Advanced(v, next) ==
    IF next = Null THEN cursor ELSE [cursor EXCEPT ![v] = next]

\* _persist_batch: rows, cursor and run state in one transaction.  A row
\* that exists is not inserted again.
Persist(j, v) ==
    LET b == run[j][v].batch IN
    /\ run[j][v].pc = "persisting"
    /\ \/ /\ stored' = [stored EXCEPT ![v] = @ \cup Items(b.vc, b.from, b.to)]
          /\ \E next \in {b.to, Null} : cursor' = Advanced(v, next)
          /\ status' = [status EXCEPT ![v] = "ok"]
          /\ Ends(j, v)
          /\ lock' = [lock EXCEPT ![v] = Null]
          /\ UNCHANGED faults
       \/ /\ Fault("db")
          /\ Goes(j, v, "failing")
          /\ UNCHANGED <<database, lock>>
    /\ UNCHANGED <<source, registry, regs, job, worker, reload>>

\* _mark_failed; when it fails too, the status stays as it was.
(* Mutant: the failure path does not release the lock.                      *)
MarkFailed_KeepsLock(j, v) ==
    /\ run[j][v].pc = "failing"
    /\ Ends(j, v)
    /\ status' = [status EXCEPT ![v] = "failed"]
    /\ UNCHANGED <<source, stored, cursor, registry, regs, job, worker, reload,
                   lock, faults>>
MarkFailed(j, v) ==
    /\ run[j][v].pc = "failing"
    /\ \/ status' = [status EXCEPT ![v] = "failed"] /\ UNCHANGED faults
       \/ Fault("db") /\ UNCHANGED status
    /\ Ends(j, v)
    /\ lock' = [lock EXCEPT ![v] = Null]
    /\ UNCHANGED <<source, stored, cursor, registry, regs, job, worker, reload>>

-----------------------------------------------------------------------------
(* reload_collector_registry, and build_initial_collector_registry, which   *)
(* is the same without a previous generation.                               *)

\* build: the next generation, with the plugin enabled or not as set now.
BeginReload ==
    /\ reload.pc = "idle"
    /\ registry \in 1 .. MaxGen - 1
    /\ \E to \in {"enabled", "disabled"} :
         regs' = [regs EXCEPT ![registry + 1] = to]
    /\ reload' = [Booting EXCEPT !.gen = registry + 1, !.prev = registry]
    /\ UNCHANGED <<source, database, registry, job, run, lock, worker, faults>>

\* activate_collector_registry and the snapshot of drain_collector_runs: there
\* is no await between them.
Activate(outcome) ==
    LET prev == reload.prev
        stop == prev # 0 /\ regs[prev] = "enabled"
    IN  /\ regs' = [regs EXCEPT ![reload.gen] = outcome]
        /\ registry' = reload.gen
        /\ reload' = [reload EXCEPT
                        !.pc = IF stop THEN "draining" ELSE "idle",
                        !.left = IF stop THEN {v \in VCenters : lock[v] # Null}
                                         ELSE {}]
        /\ UNCHANGED <<source, database, job, run, lock>>

ActivateDisabled ==
    /\ reload.pc = "starting"
    /\ regs[reload.gen] = "disabled"
    /\ Activate("disabled")
    /\ UNCHANGED <<worker, faults>>

SendStart ==
    /\ reload.pc = "starting"
    /\ regs[reload.gen] = "enabled"
    /\ Send(reload.gen, Reloader, Request("start", Null, 0))
    /\ reload' = [reload EXCEPT !.pc = "startWait"]
    /\ UNCHANGED <<source, database, registry, regs, job, run, lock, faults>>

StartAnswered ==
    /\ reload.pc = "startWait"
    /\ Answered(reload.gen, Reloader)
    /\ TakeAnswer(reload.gen)
    /\ Activate(IF Answer(reload.gen).ok THEN "enabled" ELSE "failed")
    /\ UNCHANGED faults

StartLost ==
    /\ reload.pc = "startWait"
    /\ Lost(reload.gen, Reloader)
    /\ GiveUp(reload.gen)
    /\ Activate("failed")
    /\ UNCHANGED faults

\* drain_collector_runs: the locks of the snapshot, one after the other.
DrainNext ==
    /\ reload.pc = "draining" /\ reload.at = Null
    /\ \E v \in reload.left : reload' = [reload EXCEPT !.at = v]
    /\ UNCHANGED <<source, database, registry, regs, job, run, lock, worker,
                   faults>>

DrainPass ==
    /\ reload.pc = "draining" /\ reload.at # Null
    /\ lock[reload.at] = Null
    /\ reload' = [reload EXCEPT !.at = Null, !.left = @ \ {reload.at}]
    /\ UNCHANGED <<source, database, registry, regs, job, run, lock, worker,
                   faults>>

\* stop(): the stop request ...
SendStop ==
    /\ reload.pc = "draining" /\ reload.left = {}
    /\ Send(reload.prev, Reloader, Request("stop", Null, 0))
    /\ reload' = [reload EXCEPT !.pc = "stopWait"]
    /\ UNCHANGED <<source, database, registry, regs, job, run, lock, faults>>

\* ... answered, well or badly, or lost; then shutdown() closes its stdin.
StopDone ==
    LET g == reload.prev IN
    /\ reload.pc = "stopWait"
    /\ \/ /\ Answered(g, Reloader)
          /\ worker' = [worker EXCEPT ![g].busy = Null, ![g].pipe = Tail(@),
                                      ![g].closing = worker[g].up]
       \/ Lost(g, Reloader) /\ GiveUp(g)
    /\ reload' = [reload EXCEPT !.pc = "exiting"]
    /\ UNCHANGED <<source, database, registry, regs, job, run, lock, faults>>

\* The process has ended by itself, or was killed when the grace was over.
ReloadDone ==
    LET g == reload.prev IN
    /\ reload.pc = "exiting"
    /\ worker' = [worker EXCEPT ![g] = IF @.closing
                                       THEN [Down EXCEPT !.busy = worker[g].busy]
                                       ELSE @]
    /\ reload' = [reload EXCEPT !.pc = "idle"]
    /\ UNCHANGED <<source, database, registry, regs, job, run, lock, faults>>

-----------------------------------------------------------------------------
\* A vCenter produces an item (external).
Produce(v) ==
    /\ source[v] < MaxItems
    /\ source' = [source EXCEPT ![v] = @ + 1]
    /\ UNCHANGED <<database, registry, regs, job, run, lock, worker, reload,
                   faults>>

\* The application is restarted: the database stays, the workers read EOF.
Restart ==
    /\ Fault("restart")
    /\ registry' = 0
    /\ regs' = [g \in Gens |-> IF g = 1 THEN "enabled" ELSE "none"]
    /\ job' = [j \in Jobs |-> [pc |-> "idle", gen |-> 0]]
    /\ run' = [j \in Jobs |-> [v \in VCenters |-> Idle]]
    /\ lock' = [v \in VCenters |-> Null]
    /\ worker' = [g \in Gens |-> Down]
    /\ reload' = Booting
    /\ UNCHANGED <<source, database>>

JobStep(j) == ListVCenters(j) \/ EndJob(j)

RunStep(j, v) ==
    \/ Begin(j, v) \/ TakeLock(j, v) \/ MarkStarted(j, v) \/ ReadCursor(j, v)
    \/ SendCollect(j, v) \/ CollectAnswered(j, v) \/ CollectLost(j, v)
    \/ Persist(j, v) \/ MarkFailed(j, v)

ReloadStep ==
    \/ ActivateDisabled \/ SendStart \/ StartAnswered \/ StartLost
    \/ DrainNext \/ DrainPass \/ SendStop \/ StopDone \/ ReloadDone

Next ==
    \/ \E j \in Jobs : StartJob(j) \/ JobStep(j)
    \/ \E j \in Jobs, v \in VCenters : RunStep(j, v)
    \/ \E g \in Gens : Serve(g) \/ Hang(g) \/ Exit(g)
    \/ BeginReload \/ ReloadStep
    \/ \E v \in VCenters : Produce(v)
    \/ Restart

Spec == Init /\ [][Next]_vars

(***************************************************************************)
(* Every task that can go on does: the event loop is never blocked and     *)
(* every wait ends, because a timeout kills a worker that does not answer. *)
(* A run and a reload wait at one place at a time; the asyncio locks and   *)
(* the semaphore wake their waiters in turn, so neither is passed over for *)
(* ever (strong fairness).  The scheduler starts the interval jobs again   *)
(* and again.  Nothing is assumed of faults, reloads or manual ingests.    *)
(***************************************************************************)
Fairness ==
    /\ \A j \in Jobs : WF_vars(JobStep(j))
    /\ \A j \in PollJobs : WF_vars(StartJob(j))
    /\ \A j \in Jobs, v \in VCenters : SF_vars(RunStep(j, v))
    /\ \A g \in Gens : WF_vars(Serve(g) /\ ~worker[g].hung)
    /\ SF_vars(ReloadStep)

FairSpec == Spec /\ Fairness

-----------------------------------------------------------------------------
(* Properties.                                                              *)

RunPCs == {"idle", "begin", "queued", "locked", "marked", "asking", "waiting",
           "persisting", "failing"}
ReloadPCs == {"idle", "starting", "startWait", "draining", "stopWait", "exiting"}
Requests == [op : {"start", "collect", "stop"}, vc : VCenters \cup {Null},
             from : 0 .. MaxItems]
Batches == [ok : BOOLEAN, vc : VCenters \cup {Null},
            from : 0 .. MaxItems, to : 0 .. MaxItems]
Workers == [up : BOOLEAN, hung : BOOLEAN, closing : BOOLEAN,
            busy : Callers \cup {Null}, inbox : Seq(Requests), pipe : Seq(Batches)]

\* The values of the rows ingestion_state and collector_run_states keep.
IngestionState == 0 .. MaxItems
CollectorRunState == {"idle", "running", "ok", "failed"}

(* The types of the collector's state.                                      *)
TypeOK ==
    /\ source \in [VCenters -> 0 .. MaxItems]
    /\ stored \in [VCenters -> SUBSET (VCenters \X (1 .. MaxItems))]
    /\ cursor \in [VCenters -> IngestionState]
    /\ status \in [VCenters -> CollectorRunState]
    /\ registry \in 0 .. MaxGen
    /\ regs \in [Gens -> {"none", "enabled", "disabled", "failed"}]
    /\ job \in [Jobs -> [pc : {"idle", "listing", "running"}, gen : 0 .. MaxGen]]
    /\ run \in [Jobs -> [VCenters ->
                [pc : RunPCs, cur : 0 .. MaxItems, batch : Batches]]]
    /\ lock \in [VCenters -> Runs \cup {Null}]
    /\ worker \in [Gens -> Workers]
    /\ reload \in [pc : ReloadPCs, gen : Gens, prev : 0 .. MaxGen,
                   left : SUBSET VCenters, at : VCenters \cup {Null}]
    /\ faults \in 0 .. MaxFaults

(* Everything a cursor has passed is in the database: whatever fails between *)
(* reading the cursor, collecting and committing, no item is skipped         *)
(* (_persist_batch commits the rows and the cursor together).                *)
NothingSkipped ==
    \A v \in VCenters : Items(v, 0, cursor[v]) \subseteq stored[v]

(* What is stored for a vCenter was collected from that vCenter: the answers *)
(* of a worker are not matched to their requests, so no answer of a request  *)
(* that was given up may ever be read by a later one (request, kill).        *)
OnlyOwnData ==
    \A v \in VCenters : stored[v] \subseteq {Item(v, n) : n \in 1 .. source[v]}

(* A cursor never moves back, whichever jobs collect at once and across      *)
(* reloads: read, collect and commit of one vCenter never overlap, also when *)
(* the runs belong to different generations (_locks is keyed by plugin).     *)
CursorNeverRegresses ==
    [][\A v \in VCenters : cursor'[v] >= cursor[v]]_cursor

(* The status shown for a vCenter is "running" while a run collects from it: *)
(* a run that is skipped, fails or is late never overwrites another's        *)
(* status (_mark_started, _mark_failed).  Only a fault of the database or a  *)
(* restart leaves "running" behind a run that has ended.                     *)
StatusTracksRun ==
    \A v \in VCenters :
        LET collecting == \E j \in Jobs : <<j, v>> \in Holding IN
        /\ collecting => status[v] = "running"
        /\ status[v] = "running" /\ faults = 0 => collecting

(* Both columns of a run state, the cursor and the status, are true at any   *)
(* moment (collector_run_states).                                            *)
RunStateIsTrue == NothingSkipped /\ StatusTracksRun

(* The vCenters that a run collects from.                                    *)
Collected == {r[2] : r \in Holding}

Promise == INSTANCE CollectionPromise WITH collecting <- Collected

(* Whatever jobs, workers, reloads, faults and restarts do, every step is one *)
(* of CollectionPromise: one collection of a vCenter at a time, whose rows,  *)
(* cursor and status are committed together and are what follows the cursor  *)
(* (run_collector_for_vcenter).                                              *)
CollectsAsPromised == Promise!Spec

(* A reload ends, whatever the old worker and the runs it waits for do.      *)
ReloadEnds == [](reload.pc # "idle" => <>(reload.pc = "idle"))

(* An item is stored in the end, whatever is done by hand beside the         *)
(* interval job, if the plugin stays enabled: no fault of a worker, a        *)
(* database or a restart leaves collection stuck.                            *)
Collecting == registry # 0 /\ regs[registry] = "enabled"
EveryItemStored ==
    <>[]Collecting =>
        \A v \in VCenters : \A n \in 1 .. MaxItems :
            (source[v] >= n) ~> (Item(v, n) \in stored[v])
=============================================================================
