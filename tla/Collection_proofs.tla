--------------------------- MODULE Collection_proofs ---------------------------
(***************************************************************************)
(* Theorems about the three machines of collection.                        *)
(*                                                                         *)
(* CollectorRuntime, for any number of vCenters, jobs and generations and  *)
(* every limit of concurrent collections: what is stored for a vCenter     *)
(* came from it, its cursor and its status are true, the cursor never      *)
(* moves back, and every step is one of CollectionPromise.                 *)
(*                                                                         *)
(* EventCollection: no event is passed over, for every difference of the   *)
(* clocks, delay, page size and limit of pages, and every length of the    *)
(* history.  ScoreRules: stored scores follow the rules, for any event     *)
(* types and editors.                                                      *)
(*                                                                         *)
(* MCCollection: what runs side by side is each of the three.              *)
(***************************************************************************)
EXTENDS MCCollection, FiniteSetTheorems, SequenceTheorems, TLAPS

LockPCs == {"locked", "marked", "asking", "waiting", "persisting", "failing"}

\* What a job does not run yet is idle, and what it runs has a registration.
JobsTrue ==
    /\ \A j \in Jobs : job[j].pc # "running" => \A v \in VCenters : run[j][v].pc = "idle"
    /\ \A j \in Jobs : job[j].pc # "idle" => job[j].gen \in Gens
    /\ reload.pc \in {"draining", "stopWait", "exiting"} => reload.prev \in Gens

\* A lock is held by the run, of its own vCenter, that is past taking it.
LocksTrue ==
    \A v \in VCenters :
        /\ lock[v] # Null => \E j \in Jobs : lock[v] = <<j, v>>
        /\ \A j \in Jobs : run[j][v].pc \in LockPCs <=> lock[v] = <<j, v>>

\* A worker that nobody asks has nothing in its pipes, so that a request is
\* alone in them until its caller has taken the answer or killed the worker.
OneRequest(w) ==
    /\ w.busy = Null => w.inbox = <<>> /\ w.pipe = <<>>
    /\ w.inbox = <<>> \/ w.pipe = <<>>
    /\ Len(w.inbox) <= 1 /\ Len(w.pipe) <= 1
    /\ \A n \in DOMAIN w.inbox : w.inbox[n].op = "collect" => w.inbox[n].vc \in VCenters

\* What is in the pipes of a worker that a run is asking is about that run.
Answers(b, v, from, last) == b.ok => b.vc = v /\ b.from = from /\ b.to \in from .. last
ChannelsTrue ==
    \A g \in Gens :
        /\ OneRequest(worker[g])
        /\ \A j \in Jobs, v \in VCenters : worker[g].busy = <<j, v>> =>
              /\ job[j].gen = g /\ run[j][v].pc = "waiting"
              /\ \A n \in DOMAIN worker[g].inbox :
                    worker[g].inbox[n] = Request("collect", v, run[j][v].cur)
              /\ \A n \in DOMAIN worker[g].pipe :
                    Answers(worker[g].pipe[n], v, run[j][v].cur, source[v])

\* The cursor is still the one that the run, which holds the lock, has read.
CursorsTrue ==
    \A v \in VCenters :
        /\ cursor[v] <= source[v]
        /\ \A j \in Jobs :
              /\ run[j][v].pc \in {"asking", "waiting"} => run[j][v].cur = cursor[v]
              /\ run[j][v].pc = "persisting" =>
                    run[j][v].batch.ok /\ Answers(run[j][v].batch, v, cursor[v], source[v])

ChannelInv == TypeOK /\ JobsTrue /\ LocksTrue /\ ChannelsTrue /\ CursorsTrue
CollectorInv == ChannelInv /\ OnlyOwnData /\ RunStateIsTrue

-----------------------------------------------------------------------------
(* The records the operators build.                                        *)

RunRow == [pc : RunPCs, cur : 0 .. MaxItems, batch : Batches]
JobRow == [pc : {"idle", "listing", "running"}, gen : 0 .. MaxGen]
ReloadRow == [pc : ReloadPCs, gen : Gens, prev : 0 .. MaxGen,
              left : SUBSET VCenters, at : VCenters \cup {Null}]

LEMMA CollectorConstants ==
    /\ PollJobs \subseteq Jobs /\ MaxGen \in Nat /\ MaxItems \in Nat /\ MaxFaults \in Nat
    /\ Limit \in Nat \ {0} /\ 1 \in Gens
    /\ Reloader # Null /\ Reloader \notin Runs /\ Null \notin Runs /\ Null \notin VCenters
BY CollectorAssumption DEF Runs, Gens

LEMMA IdleType == Idle \in RunRow /\ NoBatch \in Batches /\ Idle.pc = "idle"
BY CollectorConstants DEF Idle, NoBatch, RunRow, RunPCs, Batches

LEMMA DownType ==
  /\ Down \in Workers /\ Down.busy = Null /\ Down.inbox = <<>> /\ Down.pipe = <<>>
  /\ ~Down.up /\ ~Down.closing
BY DEF Down, Workers

LEMMA OnlyOne ==
  ASSUME NEW S, NEW q \in Seq(S), q # <<>>, Len(q) <= 1
  PROVE  Tail(q) = <<>> /\ Head(q) \in S /\ Head(q) = q[1] /\ Len(q) = 1 /\ 1 \in DOMAIN q
<1>0. Len(q) \in Nat \ {0}
  BY EmptySeq, Zenon
<1>1. Len(q) = 1
  BY <1>0
<1>2. Tail(q) \in Seq(S) /\ Len(Tail(q)) = 0
  BY <1>1, HeadTailProperties
<1>3. Tail(q) = <<>>
  BY <1>2, EmptySeq
<1>4. DOMAIN q = 1 .. 1 /\ q[1] \in S
  BY <1>1, LenProperties, ElementOfSeq
<1>5. Head(q) = q[1]
  OBVIOUS
<1> QED
  BY <1>1, <1>3, <1>4, <1>5

\* A request is written.
LEMMA SendType ==
  ASSUME NEW w \in Workers, NEW who \in Callers, NEW req \in Requests,
         w.busy = Null, OneRequest(w), req.op = "collect" => req.vc \in VCenters
  PROVE  LET s == [Spawned(w) EXCEPT !.busy = who, !.inbox = Append(@, req)]
         IN  /\ s \in Workers /\ OneRequest(s) /\ s.busy = who
             /\ s.inbox = <<req>> /\ s.pipe = <<>>
<1> DEFINE v == Spawned(w)
<1>1. v \in Workers /\ v.inbox = <<>> /\ v.pipe = <<>>
  BY DEF Spawned, Down, Workers, OneRequest
<1> HIDE DEF v
<1> DEFINE s == [v EXCEPT !.busy = who, !.inbox = Append(@, req)]
<1>2. Append(v.inbox, req) = <<req>> /\ <<req>> \in Seq(Requests)
  BY <1>1
<1>3. s \in Workers /\ s.busy = who /\ s.inbox = <<req>> /\ s.pipe = <<>>
  BY <1>1, <1>2 DEF Workers
<1> HIDE DEF s
<1>4. who # Null
  BY CollectorConstants DEF Callers
<1>5. OneRequest(s)
  BY <1>3, <1>4 DEF OneRequest
<1> QED
  BY <1>3, <1>5 DEF s, v

\* An answer is taken: nothing is left behind.
LEMMA TakeType ==
  ASSUME NEW w \in Workers, OneRequest(w), w.pipe # <<>>
  PROVE  LET s == [w EXCEPT !.busy = Null, !.pipe = Tail(@)]
         IN  /\ s \in Workers /\ OneRequest(s) /\ s.busy = Null
             /\ Head(w.pipe) \in Batches /\ Head(w.pipe) = w.pipe[1] /\ 1 \in DOMAIN w.pipe
<1>1. w.pipe \in Seq(Batches) /\ Len(w.pipe) <= 1 /\ w.inbox = <<>>
  BY DEF OneRequest, Workers
<1>2. Tail(w.pipe) = <<>> /\ Head(w.pipe) \in Batches /\ Head(w.pipe) = w.pipe[1]
      /\ 1 \in DOMAIN w.pipe
  BY <1>1, OnlyOne
<1> DEFINE s == [w EXCEPT !.busy = Null, !.pipe = Tail(@)]
<1>3. s = [w EXCEPT !.busy = Null, !.pipe = <<>>]
  BY <1>2, Zenon
<1> HIDE DEF s
<1>4. <<>> \in Seq(Batches)
  BY EmptySeq
<1>5. s \in Workers /\ s.busy = Null /\ s.pipe = <<>> /\ s.inbox = <<>>
  BY <1>1, <1>3, <1>4 DEF Workers
<1>6. OneRequest(s)
  BY <1>5 DEF OneRequest
<1> QED
  BY <1>2, <1>5, <1>6 DEF s

-----------------------------------------------------------------------------
(* What a step does to the runs, the locks and the workers.                *)

RunsOf == [Jobs -> [VCenters -> RunRow]]

\* Only one run changes.
RunBecomes(j, v, row) ==
    /\ run' \in RunsOf /\ run'[j][v] = row
    /\ \A k \in Jobs, u \in VCenters : k # j \/ u # v => run'[k][u] = run[k][u]

LEMMA RunSet ==
  ASSUME run \in RunsOf, NEW j \in Jobs, NEW v \in VCenters, NEW row \in RunRow,
         run' = [run EXCEPT ![j][v] = row]
  PROVE  RunBecomes(j, v, row)
<1>1. run' = [run EXCEPT ![j] = [run[j] EXCEPT ![v] = row]]
  OBVIOUS
<1>2. [run[j] EXCEPT ![v] = row] \in [VCenters -> RunRow]
  BY DEF RunsOf
<1> QED
  BY <1>1, <1>2 DEF RunsOf, RunBecomes

LEMMA RunGoes ==
  ASSUME run \in RunsOf, NEW j \in Jobs, NEW v \in VCenters, NEW pc \in RunPCs, Goes(j, v, pc)
  PROVE  /\ run[j][v] \in RunRow
         /\ run'[j][v] \in RunRow /\ RunBecomes(j, v, run'[j][v])
         /\ run'[j][v].pc = pc /\ run'[j][v].cur = run[j][v].cur
         /\ run'[j][v].batch = run[j][v].batch
<1> DEFINE row == [run[j][v] EXCEPT !.pc = pc]
<1>1. run[j][v] \in RunRow
  BY DEF RunsOf
<1>2. row \in RunRow /\ row.pc = pc /\ row.cur = run[j][v].cur /\ row.batch = run[j][v].batch
  BY <1>1 DEF RunRow
<1>3. run' = [run EXCEPT ![j][v] = row]
  BY DEF Goes
<1> HIDE DEF row
<1>4. RunBecomes(j, v, row)
  BY <1>2, <1>3, RunSet
<1> QED
  BY <1>1, <1>2, <1>4 DEF RunBecomes, row

LEMMA RunEnds ==
  ASSUME run \in RunsOf, NEW j \in Jobs, NEW v \in VCenters, Ends(j, v)
  PROVE  RunBecomes(j, v, Idle)
BY RunSet, IdleType DEF Ends

WorkersOf == [Gens -> Workers]
WorkerBecomes(g, w) ==
    /\ worker' \in WorkersOf /\ worker'[g] = w
    /\ \A h \in Gens \ {g} : worker'[h] = worker[h]

LEMMA WorkerSet ==
  ASSUME worker \in WorkersOf, NEW g \in Gens, NEW w \in Workers,
         worker' = [worker EXCEPT ![g] = w]
  PROVE  WorkerBecomes(g, w)
BY DEF WorkersOf, WorkerBecomes

LEMMA WorkerSends ==
  ASSUME worker \in WorkersOf, NEW g \in Gens, NEW who \in Callers, NEW req \in Requests,
         req.op = "collect" => req.vc \in VCenters,
         OneRequest(worker[g]), Send(g, who, req)
  PROVE  \E w \in Workers :
            /\ WorkerBecomes(g, w)
            /\ OneRequest(w) /\ w.busy = who /\ w.inbox = <<req>> /\ w.pipe = <<>>
<1> DEFINE w == [Spawned(worker[g]) EXCEPT !.busy = who, !.inbox = Append(@, req)]
<1>1. worker[g] \in Workers /\ worker[g].busy = Null
  BY DEF WorkersOf, Send
<1>2. w \in Workers /\ OneRequest(w) /\ w.busy = who /\ w.inbox = <<req>> /\ w.pipe = <<>>
  BY <1>1, SendType
<1>3. worker' = [worker EXCEPT ![g] = w]
  BY DEF Send
<1> HIDE DEF w
<1> QED
  BY <1>2, <1>3, WorkerSet

LEMMA WorkerTaken ==
  ASSUME worker \in WorkersOf, NEW g \in Gens, OneRequest(worker[g]), TakeAnswer(g),
         worker[g].pipe # <<>>
  PROVE  /\ \E w \in Workers : WorkerBecomes(g, w) /\ OneRequest(w) /\ w.busy = Null
         /\ Answer(g) \in Batches /\ Answer(g) = worker[g].pipe[1] /\ 1 \in DOMAIN worker[g].pipe
<1> DEFINE w == [worker[g] EXCEPT !.busy = Null, !.pipe = Tail(@)]
<1>1. worker[g] \in Workers
  BY DEF WorkersOf
<1>2. /\ w \in Workers /\ OneRequest(w) /\ w.busy = Null
      /\ Head(worker[g].pipe) \in Batches /\ Head(worker[g].pipe) = worker[g].pipe[1]
      /\ 1 \in DOMAIN worker[g].pipe
  BY <1>1, TakeType
<1>3. worker' = [worker EXCEPT ![g] = w]
  BY <1>1 DEF TakeAnswer, WorkersOf
<1> HIDE DEF w
<1> QED
  BY <1>2, <1>3, WorkerSet DEF Answer

LEMMA DownClean == OneRequest(Down)
BY DownType DEF OneRequest

LEMMA WorkerGivenUp ==
  ASSUME worker \in WorkersOf, NEW g \in Gens, GiveUp(g)
  PROVE  \E w \in Workers : WorkerBecomes(g, w) /\ OneRequest(w) /\ w.busy = Null
<1>1. worker' = [worker EXCEPT ![g] = Down]
  BY DEF GiveUp, Killed
<1> QED
  BY <1>1, WorkerSet, DownType, DownClean

-----------------------------------------------------------------------------
(* What keeps the parts of the invariant.                                  *)

LEMMA TypesOf ==
  ASSUME TypeOK
  PROVE  /\ run \in RunsOf /\ worker \in WorkersOf
         /\ lock \in [VCenters -> Runs \cup {Null}]
         /\ job \in [Jobs -> JobRow] /\ reload \in ReloadRow
         /\ source \in [VCenters -> 0 .. MaxItems] /\ cursor \in [VCenters -> 0 .. MaxItems]
BY DEF TypeOK, RunsOf, RunRow, WorkersOf, JobRow, ReloadRow, IngestionState

\* A run that goes on or ends: what it holds it holds alone.
LEMMA RunKeepsLocks ==
  ASSUME TypeOK, JobsTrue, LocksTrue, NEW j \in Jobs, NEW v \in VCenters, NEW row \in RunRow,
         RunBecomes(j, v, row), run[j][v].pc # "idle", UNCHANGED <<job, reload>>,
         \/ UNCHANGED lock /\ (row.pc \in LockPCs <=> run[j][v].pc \in LockPCs)
         \/ lock[v] = Null /\ lock' = [lock EXCEPT ![v] = <<j, v>>] /\ row.pc \in LockPCs
         \/ /\ lock' = [lock EXCEPT ![v] = Null]
            /\ row.pc \notin LockPCs /\ run[j][v].pc \in LockPCs
  PROVE  JobsTrue' /\ LocksTrue' /\ lock' \in [VCenters -> Runs \cup {Null}]
<1>1. run \in RunsOf /\ run' \in RunsOf /\ lock \in [VCenters -> Runs \cup {Null}]
  BY TypesOf DEF RunBecomes
<1>2. JobsTrue'
  BY DEF JobsTrue, RunBecomes
<1>3. lock' \in [VCenters -> Runs \cup {Null}] /\ \A u \in VCenters \ {v} : lock'[u] = lock[u]
  BY <1>1 DEF Runs
<1>4. <<j, v>> # Null
  BY CollectorConstants DEF Runs
<1>5. ASSUME NEW u \in VCenters
      PROVE  /\ lock'[u] # Null => \E k \in Jobs : lock'[u] = <<k, u>>
             /\ \A k \in Jobs : run'[k][u].pc \in LockPCs <=> lock'[u] = <<k, u>>
  <2>1. CASE u # v
    BY <1>3, <2>1 DEF LocksTrue, RunBecomes
  <2>2. CASE u = v
    <3>1. /\ lock[v] # Null => \E k \in Jobs : lock[v] = <<k, v>>
          /\ \A k \in Jobs : run[k][v].pc \in LockPCs <=> lock[v] = <<k, v>>
      BY DEF LocksTrue
    <3>2. /\ run'[j][v] = row
          /\ \A k \in Jobs \ {j} : run'[k][v] = run[k][v]
      BY DEF RunBecomes
    <3>3. CASE UNCHANGED lock /\ (row.pc \in LockPCs <=> run[j][v].pc \in LockPCs)
      BY <2>2, <3>1, <3>2, <3>3
    <3>4. CASE lock[v] = Null /\ lock' = [lock EXCEPT ![v] = <<j, v>>] /\ row.pc \in LockPCs
      <4>1. lock'[v] = <<j, v>>
        BY <1>1, <3>4
      <4>2. \A k \in Jobs : k # j => <<k, v>> # Null
        BY CollectorConstants DEF Runs
      <4> QED
        BY <1>4, <2>2, <3>1, <3>2, <3>4, <4>1, <4>2
    <3>5. CASE /\ lock' = [lock EXCEPT ![v] = Null]
               /\ row.pc \notin LockPCs /\ run[j][v].pc \in LockPCs
      <4>1. lock'[v] = Null /\ lock[v] = <<j, v>>
        BY <1>1, <3>1, <3>5
      <4>2. \A k \in Jobs : <<k, v>> # Null
        BY CollectorConstants DEF Runs
      <4> QED
        BY <2>2, <3>1, <3>2, <3>5, <4>1, <4>2
    <3> QED
      BY <3>3, <3>4, <3>5
  <2> QED
    BY <2>1, <2>2
<1>6. LocksTrue'
  BY <1>5 DEF LocksTrue
<1> QED
  BY <1>2, <1>3, <1>6

\* A run that asks no worker leaves the channels as they are.
LEMMA ChannelsKept ==
  ASSUME TypeOK, ChannelsTrue, UNCHANGED worker,
         \A v \in VCenters : source'[v] \in Nat /\ source'[v] >= source[v],
         \A j \in Jobs, v \in VCenters : run[j][v].pc = "waiting" =>
            /\ run'[j][v].pc = "waiting" /\ run'[j][v].cur = run[j][v].cur
            /\ job'[j].gen = job[j].gen
  PROVE  ChannelsTrue'
<1>1. ASSUME NEW g \in Gens, NEW j \in Jobs, NEW v \in VCenters, worker[g].busy = <<j, v>>
      PROVE  /\ job'[j].gen = g /\ run'[j][v].pc = "waiting"
             /\ \A n \in DOMAIN worker[g].inbox :
                   worker[g].inbox[n] = Request("collect", v, run'[j][v].cur)
             /\ \A n \in DOMAIN worker[g].pipe :
                   Answers(worker[g].pipe[n], v, run'[j][v].cur, source'[v])
  <2>1. /\ job[j].gen = g /\ run[j][v].pc = "waiting"
        /\ \A n \in DOMAIN worker[g].inbox :
              worker[g].inbox[n] = Request("collect", v, run[j][v].cur)
        /\ \A n \in DOMAIN worker[g].pipe : Answers(worker[g].pipe[n], v, run[j][v].cur, source[v])
    BY <1>1 DEF ChannelsTrue
  <2>2. job'[j].gen = g /\ run'[j][v].pc = "waiting" /\ run'[j][v].cur = run[j][v].cur
    BY <2>1
  <2>3. source[v] \in Nat /\ source'[v] \in Nat /\ source[v] <= source'[v]
    BY CollectorConstants DEF TypeOK
  <2>4. run[j][v].cur \in Nat
    BY TypesOf, CollectorConstants DEF RunsOf, RunRow
  <2>5. \A b : Answers(b, v, run[j][v].cur, source[v])
                   => Answers(b, v, run'[j][v].cur, source'[v])
    BY <2>2, <2>3, <2>4 DEF Answers
  <2> QED
    BY <2>1, <2>2, <2>5
<1> QED
  BY <1>1 DEF ChannelsTrue

\* Only the worker that a run asks changes, and what is in its pipes is about
\* the run that waits for it.
LEMMA ChannelsChange ==
  ASSUME TypeOK, ChannelsTrue, NEW g \in Gens, NEW w \in Workers, WorkerBecomes(g, w),
         OneRequest(w), UNCHANGED <<source, job>>,
         \A j \in Jobs, v \in VCenters :
            run[j][v].pc = "waiting" /\ worker[g].busy # <<j, v>> =>
                run'[j][v].pc = "waiting" /\ run'[j][v].cur = run[j][v].cur,
         \A j \in Jobs, v \in VCenters : w.busy = <<j, v>> =>
            /\ job[j].gen = g /\ run'[j][v].pc = "waiting"
            /\ \A n \in DOMAIN w.inbox : w.inbox[n] = Request("collect", v, run'[j][v].cur)
            /\ \A n \in DOMAIN w.pipe : Answers(w.pipe[n], v, run'[j][v].cur, source[v])
  PROVE  ChannelsTrue'
<1>1. ASSUME NEW h \in Gens
      PROVE  /\ OneRequest(worker'[h])
             /\ \A j \in Jobs, v \in VCenters : worker'[h].busy = <<j, v>> =>
                  /\ job'[j].gen = h /\ run'[j][v].pc = "waiting"
                  /\ \A n \in DOMAIN worker'[h].inbox :
                        worker'[h].inbox[n] = Request("collect", v, run'[j][v].cur)
                  /\ \A n \in DOMAIN worker'[h].pipe :
                        Answers(worker'[h].pipe[n], v, run'[j][v].cur, source'[v])
  <2>1. CASE h = g
    BY <2>1 DEF WorkerBecomes
  <2>2. CASE h # g
    <3>1. worker'[h] = worker[h]
      BY <2>2 DEF WorkerBecomes
    <3>2. OneRequest(worker[h])
      BY DEF ChannelsTrue
    <3>3. ASSUME NEW j \in Jobs, NEW v \in VCenters, worker[h].busy = <<j, v>>
          PROVE  /\ job'[j].gen = h /\ run'[j][v].pc = "waiting"
                 /\ \A n \in DOMAIN worker[h].inbox :
                       worker[h].inbox[n] = Request("collect", v, run'[j][v].cur)
                 /\ \A n \in DOMAIN worker[h].pipe :
                       Answers(worker[h].pipe[n], v, run'[j][v].cur, source[v])
      <4>1. /\ job[j].gen = h /\ run[j][v].pc = "waiting"
            /\ \A n \in DOMAIN worker[h].inbox :
                  worker[h].inbox[n] = Request("collect", v, run[j][v].cur)
            /\ \A n \in DOMAIN worker[h].pipe :
                  Answers(worker[h].pipe[n], v, run[j][v].cur, source[v])
        BY <3>3 DEF ChannelsTrue
      <4>2. worker[g].busy # <<j, v>>
        BY <2>2, <4>1 DEF ChannelsTrue
      <4>3. run'[j][v].pc = "waiting" /\ run'[j][v].cur = run[j][v].cur
        BY <4>1, <4>2
      <4> QED
        BY <4>1, <4>3
    <3> QED
      BY <3>1, <3>2, <3>3
  <2> QED
    BY <2>1, <2>2
<1> QED
  BY <1>1 DEF ChannelsTrue

\* A cursor is moved by the run that holds the lock, so under no other.
LEMMA CursorsMoved ==
  ASSUME TypeOK, LocksTrue, CursorsTrue, UNCHANGED source,
         NEW j \in Jobs, NEW v \in VCenters, NEW row \in RunRow, RunBecomes(j, v, row),
         \A u \in VCenters \ {v} : cursor'[u] = cursor[u],
         \/ cursor'[v] = cursor[v]
         \/ run[j][v].pc \in LockPCs /\ cursor'[v] <= source[v],
         row.pc \in {"asking", "waiting"} => row.cur = cursor'[v],
         row.pc = "persisting" =>
            row.batch.ok /\ Answers(row.batch, v, cursor'[v], source[v])
  PROVE  CursorsTrue'
<1>1. ASSUME NEW u \in VCenters
      PROVE  /\ cursor'[u] <= source'[u]
             /\ \A k \in Jobs :
                  /\ run'[k][u].pc \in {"asking", "waiting"} => run'[k][u].cur = cursor'[u]
                  /\ run'[k][u].pc = "persisting" =>
                        /\ run'[k][u].batch.ok
                        /\ Answers(run'[k][u].batch, u, cursor'[u], source'[u])
  <2>1. CASE u # v
    BY <2>1 DEF CursorsTrue, RunBecomes
  <2>2. CASE u = v
    <3>1. cursor'[v] <= source'[v]
      BY DEF CursorsTrue
    <3>2. ASSUME NEW k \in Jobs \ {j}, run[k][v].pc \in {"asking", "waiting", "persisting"}
          PROVE  cursor'[v] = cursor[v]
      <4>1. lock[v] = <<k, v>>
        BY <3>2 DEF LocksTrue, LockPCs
      <4>2. run[j][v].pc \in LockPCs => lock[v] = <<j, v>>
        BY DEF LocksTrue
      <4> QED
        BY <4>1, <4>2
    <3>3. run'[j][v] = row /\ \A k \in Jobs \ {j} : run'[k][v] = run[k][v]
      BY DEF RunBecomes
    <3> QED
      BY <2>2, <3>1, <3>2, <3>3 DEF CursorsTrue
  <2> QED
    BY <2>1, <2>2
<1> QED
  BY <1>1 DEF CursorsTrue

\* Elsewhere no run that has read its cursor changes, and the source grows.
LEMMA CursorsKept ==
  ASSUME TypeOK, CursorsTrue, UNCHANGED cursor,
         \A v \in VCenters : source'[v] \in Nat /\ source'[v] >= source[v],
         \A j \in Jobs, v \in VCenters :
            run'[j][v].pc \in {"asking", "waiting", "persisting"} => run'[j][v] = run[j][v]
  PROVE  CursorsTrue'
<1>1. ASSUME NEW v \in VCenters
      PROVE  source[v] \in Nat /\ cursor[v] \in Nat
  BY TypesOf, CollectorConstants
<1>2. \A v \in VCenters : \A b : Answers(b, v, cursor[v], source[v])
                              => Answers(b, v, cursor'[v], source'[v])
  BY <1>1 DEF Answers
<1> QED
  BY <1>1, <1>2 DEF CursorsTrue

-----------------------------------------------------------------------------
(* The steps of a run.                                                     *)

LEMMA RunFacts ==
  ASSUME ChannelInv, NEW j \in Jobs, NEW v \in VCenters
  PROVE  /\ run \in RunsOf /\ worker \in WorkersOf /\ run[j][v] \in RunRow
         /\ lock \in [VCenters -> Runs \cup {Null}] /\ <<j, v>> \in Runs
         /\ cursor[v] \in 0 .. MaxItems /\ source[v] \in 0 .. MaxItems
         /\ run[j][v].pc # "idle" => /\ job[j].gen \in Gens
                                     /\ worker[job[j].gen] \in Workers
                                     /\ OneRequest(worker[job[j].gen])
<1>1. /\ run \in RunsOf /\ worker \in WorkersOf
      /\ lock \in [VCenters -> Runs \cup {Null}]
      /\ cursor[v] \in 0 .. MaxItems /\ source[v] \in 0 .. MaxItems
  BY TypesOf DEF ChannelInv
<1>2. run[j][v].pc # "idle" => job[j].gen \in Gens
  BY DEF ChannelInv, JobsTrue
<1> QED
  BY <1>1, <1>2 DEF RunsOf, WorkersOf, Runs, ChannelInv, ChannelsTrue

\* What is not touched keeps its type.
LEMMA RunTypes ==
  ASSUME TypeOK, run' \in RunsOf, worker' \in WorkersOf, lock' \in [VCenters -> Runs \cup {Null}],
         stored' \in [VCenters -> SUBSET (VCenters \X (1 .. MaxItems))],
         cursor' \in [VCenters -> 0 .. MaxItems], status' \in [VCenters -> CollectorRunState],
         UNCHANGED faults \/ \E kind : Fault(kind),
         UNCHANGED <<source, registry, regs, job, reload>>
  PROVE  TypeOK'
<1>1. faults' \in 0 .. MaxFaults
  BY CollectorConstants DEF TypeOK, Fault
<1> QED
  BY <1>1 DEF TypeOK, RunsOf, RunRow, WorkersOf, IngestionState

LEMMA RunBegins ==
  ASSUME ChannelInv, NEW j \in Jobs, NEW v \in VCenters, Begin(j, v) \/ TakeLock(j, v)
  PROVE  /\ ChannelInv'
         /\ \A k \in Jobs, u \in VCenters : <<k, u>> \in Holding' <=> <<k, u>> \in Holding
<1>1. /\ run \in RunsOf /\ worker \in WorkersOf /\ run[j][v] \in RunRow
      /\ lock \in [VCenters -> Runs \cup {Null}] /\ <<j, v>> \in Runs
      /\ cursor[v] \in 0 .. MaxItems /\ source[v] \in 0 .. MaxItems
  BY RunFacts
<1>2. /\ UNCHANGED <<source, database, registry, regs, job, worker, reload, faults>>
      /\ run[j][v].pc \in {"begin", "queued"}
  BY DEF Begin, TakeLock
<1>3. \E row \in RunRow :
          /\ RunBecomes(j, v, row)
          /\ \/ row.pc \in {"idle", "queued"} /\ UNCHANGED lock
             \/ row.pc = "locked" /\ lock[v] = Null /\ lock' = [lock EXCEPT ![v] = <<j, v>>]
  <2>1. CASE Ends(j, v) /\ UNCHANGED lock
    BY <1>1, <2>1, RunEnds, IdleType
  <2>2. CASE Goes(j, v, "queued") /\ UNCHANGED lock
    <3>1. "queued" \in RunPCs
      BY DEF RunPCs
    <3> QED
      BY <1>1, <2>2, <3>1, RunGoes DEF RunBecomes, RunsOf
  <2>3. CASE Goes(j, v, "locked") /\ lock[v] = Null /\ lock' = [lock EXCEPT ![v] = <<j, v>>]
    <3>1. "locked" \in RunPCs
      BY DEF RunPCs
    <3> QED
      BY <1>1, <2>3, <3>1, RunGoes DEF RunBecomes, RunsOf
  <2> QED
    BY <2>1, <2>2, <2>3 DEF Begin, TakeLock, AlreadyRunning
<1>4. PICK row \in RunRow :
          /\ RunBecomes(j, v, row)
          /\ \/ row.pc \in {"idle", "queued"} /\ UNCHANGED lock
             \/ row.pc = "locked" /\ lock[v] = Null /\ lock' = [lock EXCEPT ![v] = <<j, v>>]
  BY <1>3
<1>5. JobsTrue' /\ LocksTrue' /\ lock' \in [VCenters -> Runs \cup {Null}]
  BY <1>2, <1>4, RunKeepsLocks DEF ChannelInv, LockPCs
<1>6. TypeOK'
  BY <1>1, <1>2, <1>4, <1>5, RunTypes DEF ChannelInv, RunBecomes, database, TypeOK, IngestionState
<1>7. /\ run'[j][v].pc \in {"idle", "queued", "locked"}
      /\ \A k \in Jobs, u \in VCenters : k # j \/ u # v => run'[k][u] = run[k][u]
  BY <1>4 DEF RunBecomes
<1>8. \A u \in VCenters : source[u] \in Nat /\ source'[u] = source[u]
  BY <1>2, TypesOf, CollectorConstants DEF ChannelInv
<1>9. ChannelsTrue'
  BY <1>2, <1>7, <1>8, ChannelsKept DEF ChannelInv
<1>10. CursorsTrue'
  BY <1>2, <1>7, <1>8, CursorsKept DEF ChannelInv, database
<1> QED
  BY <1>2, <1>5, <1>6, <1>7, <1>9, <1>10 DEF ChannelInv, Holding, Runs

\* The steps that ask no worker and move no cursor: the limiter, the cursor
\* read, a failure recorded.
LEMMA RunSteps ==
  ASSUME ChannelInv, NEW j \in Jobs, NEW v \in VCenters,
         MarkStarted(j, v) \/ ReadCursor(j, v) \/ MarkFailed(j, v)
  PROVE  ChannelInv'
<1>1. /\ run \in RunsOf /\ worker \in WorkersOf /\ run[j][v] \in RunRow
      /\ lock \in [VCenters -> Runs \cup {Null}] /\ <<j, v>> \in Runs
      /\ cursor[v] \in 0 .. MaxItems /\ source[v] \in 0 .. MaxItems
  BY RunFacts
<1>2. /\ UNCHANGED <<source, stored, cursor, registry, regs, job, worker, reload>>
      /\ run[j][v].pc \in {"locked", "marked", "failing"}
      /\ UNCHANGED faults \/ \E kind : Fault(kind)
  BY DEF MarkStarted, ReadCursor, MarkFailed, database
<1>3. status' \in [VCenters -> CollectorRunState]
  BY DEF MarkStarted, ReadCursor, MarkFailed, database, ChannelInv, TypeOK, CollectorRunState
<1>4. \E row \in RunRow :
          /\ RunBecomes(j, v, row)
          /\ \/ /\ UNCHANGED lock
                /\ \/ row.pc \in {"marked", "failing"}
                   \/ row.pc = "asking" /\ row.cur = cursor[v]
             \/ row.pc = "idle" /\ lock' = [lock EXCEPT ![v] = Null]
  <2>1. CASE Ends(j, v) /\ lock' = [lock EXCEPT ![v] = Null]
    BY <1>1, <2>1, RunEnds, IdleType
  <2>2. ASSUME NEW pc \in {"marked", "failing"}, Goes(j, v, pc), UNCHANGED lock
        PROVE  \E row \in RunRow : RunBecomes(j, v, row) /\ row.pc = pc /\ UNCHANGED lock
    <3>1. pc \in RunPCs
      BY DEF RunPCs
    <3> QED
      BY <1>1, <2>2, <3>1, RunGoes
  <2>3. ASSUME run' = [run EXCEPT ![j][v].pc = "asking", ![j][v].cur = cursor[v]]
        PROVE  \E row \in RunRow :
                  RunBecomes(j, v, row) /\ row.pc = "asking" /\ row.cur = cursor[v]
    <3> DEFINE row == [run[j][v] EXCEPT !.pc = "asking", !.cur = cursor[v]]
    <3>1. row \in RunRow /\ row.pc = "asking" /\ row.cur = cursor[v]
      BY <1>1 DEF RunRow, RunPCs
    <3>2. run' = [run EXCEPT ![j][v] = row]
      BY <1>1, <2>3 DEF RunsOf
    <3> HIDE DEF row
    <3> QED
      BY <1>1, <3>1, <3>2, RunSet
  <2>4. CASE MarkStarted(j, v)
    BY <2>1, <2>2, <2>4 DEF MarkStarted
  <2>5. CASE ReadCursor(j, v)
    BY <2>2, <2>3, <2>5 DEF ReadCursor
  <2>6. CASE MarkFailed(j, v)
    BY <2>1, <2>6 DEF MarkFailed
  <2> QED
    BY <2>4, <2>5, <2>6
<1>5. PICK row \in RunRow :
          /\ RunBecomes(j, v, row)
          /\ \/ /\ UNCHANGED lock
                /\ \/ row.pc \in {"marked", "failing"}
                   \/ row.pc = "asking" /\ row.cur = cursor[v]
             \/ row.pc = "idle" /\ lock' = [lock EXCEPT ![v] = Null]
  BY <1>4
<1>6. JobsTrue' /\ LocksTrue' /\ lock' \in [VCenters -> Runs \cup {Null}]
  BY <1>2, <1>5, RunKeepsLocks DEF ChannelInv, LockPCs
<1>7. TypeOK'
  BY <1>1, <1>2, <1>3, <1>5, <1>6, RunTypes DEF ChannelInv, RunBecomes, TypeOK, IngestionState
<1>8. /\ run'[j][v] = row /\ run[j][v].pc # "waiting"
      /\ \A k \in Jobs, u \in VCenters : k # j \/ u # v => run'[k][u] = run[k][u]
  BY <1>2, <1>5 DEF RunBecomes
<1>9. \A u \in VCenters : source[u] \in Nat /\ source'[u] = source[u]
  BY <1>2, TypesOf, CollectorConstants DEF ChannelInv
<1>10. ChannelsTrue'
  BY <1>2, <1>8, <1>9, ChannelsKept DEF ChannelInv
<1>11. CursorsTrue'
  BY <1>2, <1>5, CursorsMoved DEF ChannelInv
<1> QED
  BY <1>6, <1>7, <1>10, <1>11 DEF ChannelInv

\* A run asks the worker of the generation it captured.
LEMMA RunAsks ==
  ASSUME ChannelInv, NEW j \in Jobs, NEW v \in VCenters, SendCollect(j, v)
  PROVE  ChannelInv'
<1> DEFINE g == job[j].gen
           req == Request("collect", v, run[j][v].cur)
<1>1. /\ run \in RunsOf /\ worker \in WorkersOf /\ run[j][v] \in RunRow
      /\ lock \in [VCenters -> Runs \cup {Null}] /\ <<j, v>> \in Runs
      /\ cursor[v] \in 0 .. MaxItems /\ source[v] \in 0 .. MaxItems
      /\ run[j][v].pc = "asking" /\ g \in Gens /\ OneRequest(worker[g])
  BY RunFacts DEF SendCollect
<1>2. /\ UNCHANGED <<source, stored, cursor, status, registry, regs, job, lock, reload, faults>>
      /\ Send(g, <<j, v>>, req) /\ Goes(j, v, "waiting")
  BY DEF SendCollect, database
<1>3. req \in Requests /\ req.vc = v /\ <<j, v>> \in Callers
  BY <1>1 DEF Request, Requests, RunRow, Callers
<1>4. PICK w \in Workers :
            /\ WorkerBecomes(g, w)
            /\ OneRequest(w) /\ w.busy = <<j, v>> /\ w.inbox = <<req>> /\ w.pipe = <<>>
  <2> HIDE DEF g, req
  <2> QED
    BY <1>1, <1>2, <1>3, WorkerSends
<1>5. /\ run'[j][v] \in RunRow /\ RunBecomes(j, v, run'[j][v])
      /\ run'[j][v].pc = "waiting" /\ run'[j][v].cur = run[j][v].cur
  BY <1>1, <1>2, RunGoes DEF RunPCs
<1>6. JobsTrue' /\ LocksTrue' /\ lock' \in [VCenters -> Runs \cup {Null}]
  BY <1>1, <1>2, <1>5, RunKeepsLocks DEF ChannelInv, LockPCs
<1>7. TypeOK'
  <2>1. run' \in RunsOf /\ worker' \in WorkersOf
    BY <1>4, <1>5 DEF RunBecomes, WorkerBecomes
  <2> QED
    BY <1>1, <1>2, <1>6, <2>1, RunTypes DEF ChannelInv, TypeOK, IngestionState
<1>8. worker[g].busy = Null
  BY <1>2 DEF Send
<1>9. \A k \in Jobs, u \in VCenters : run[k][u].pc = "waiting" =>
          run'[k][u].pc = "waiting" /\ run'[k][u].cur = run[k][u].cur
  BY <1>1, <1>5 DEF RunBecomes
<1>10. ChannelsTrue'
  <2>1. ASSUME NEW k \in Jobs, NEW u \in VCenters, w.busy = <<k, u>>
        PROVE  /\ job[k].gen = g /\ run'[k][u].pc = "waiting"
               /\ \A n \in DOMAIN w.inbox : w.inbox[n] = Request("collect", u, run'[k][u].cur)
               /\ \A n \in DOMAIN w.pipe : Answers(w.pipe[n], u, run'[k][u].cur, source[u])
    <3>1. k = j /\ u = v
      BY <1>4, <2>1
    <3>2. \A n \in DOMAIN w.inbox : w.inbox[n] = req
      BY <1>4
    <3>3. DOMAIN w.pipe = {}
      BY <1>4
    <3> QED
      BY <1>5, <3>1, <3>2, <3>3
  <2> HIDE DEF g
  <2> QED
    BY <1>1, <1>2, <1>4, <1>9, <2>1, ChannelsChange DEF ChannelInv
<1>11. CursorsTrue'
  <2>1. run[j][v].cur = cursor[v]
    BY <1>1 DEF ChannelInv, CursorsTrue
  <2> QED
    BY <1>2, <1>5, <2>1, CursorsMoved DEF ChannelInv
<1> QED
  BY <1>6, <1>7, <1>10, <1>11 DEF ChannelInv

\* The answer, or none: what a run takes is the answer to its own request.
LEMMA RunHears ==
  ASSUME ChannelInv, NEW j \in Jobs, NEW v \in VCenters,
         CollectAnswered(j, v) \/ CollectLost(j, v)
  PROVE  ChannelInv'
<1> DEFINE g == job[j].gen
<1>1. /\ run \in RunsOf /\ worker \in WorkersOf /\ run[j][v] \in RunRow
      /\ lock \in [VCenters -> Runs \cup {Null}] /\ <<j, v>> \in Runs
      /\ cursor[v] \in 0 .. MaxItems /\ source[v] \in 0 .. MaxItems
      /\ run[j][v].pc = "waiting" /\ g \in Gens /\ OneRequest(worker[g])
  BY RunFacts DEF CollectAnswered, CollectLost
<1>2. /\ UNCHANGED <<source, stored, cursor, status, registry, regs, job, lock, reload, faults>>
      /\ worker[g].busy = <<j, v>>
  BY DEF CollectAnswered, CollectLost, Answered, Lost, database
<1>3. \E row \in RunRow, w \in Workers :
          /\ RunBecomes(j, v, row)
          /\ WorkerBecomes(g, w) /\ OneRequest(w) /\ w.busy = Null
          /\ \/ row.pc = "failing"
             \/ row.pc = "persisting" /\ row.batch.ok
                /\ Answers(row.batch, v, run[j][v].cur, source[v])
  <2>1. CASE CollectAnswered(j, v)
    <3>1. /\ TakeAnswer(g) /\ worker[g].pipe # <<>>
          /\ run' = [run EXCEPT ![j][v].batch = Answer(g),
                                ![j][v].pc = IF Answer(g).ok THEN "persisting" ELSE "failing"]
      BY <2>1 DEF CollectAnswered, Answered
    <3>2. /\ \E w \in Workers : WorkerBecomes(g, w) /\ OneRequest(w) /\ w.busy = Null
          /\ Answer(g) \in Batches /\ Answer(g) = worker[g].pipe[1] /\ 1 \in DOMAIN worker[g].pipe
      <4> HIDE DEF g
      <4> QED
        BY <1>1, <3>1, WorkerTaken
    <3>3. Answers(Answer(g), v, run[j][v].cur, source[v])
      BY <1>1, <1>2, <3>2 DEF ChannelInv, ChannelsTrue
    <3> DEFINE b == Answer(g)
               pc == IF b.ok THEN "persisting" ELSE "failing"
               row == [run[j][v] EXCEPT !.batch = b, !.pc = pc]
    <3> HIDE DEF b
    <3>4. /\ row \in RunRow /\ row.pc = pc /\ row.batch = b
      BY <1>1, <3>2 DEF RunRow, RunPCs, b
    <3>5. run' = [run EXCEPT ![j][v] = row]
      BY <1>1, <3>1 DEF RunsOf, b
    <3> HIDE DEF row
    <3>6. RunBecomes(j, v, row)
      BY <1>1, <3>4, <3>5, RunSet
    <3> QED
      BY <3>2, <3>3, <3>4, <3>6 DEF b
  <2>2. CASE CollectLost(j, v)
    <3>1. GiveUp(g) /\ Goes(j, v, "failing")
      BY <2>2 DEF CollectLost
    <3>2. \E w \in Workers : WorkerBecomes(g, w) /\ OneRequest(w) /\ w.busy = Null
      <4> HIDE DEF g
      <4> QED
        BY <1>1, <3>1, WorkerGivenUp
    <3>3. run'[j][v] \in RunRow /\ RunBecomes(j, v, run'[j][v]) /\ run'[j][v].pc = "failing"
      BY <1>1, <3>1, RunGoes DEF RunPCs
    <3> QED
      BY <3>2, <3>3
  <2> QED
    BY <2>1, <2>2
<1>4. PICK row \in RunRow, w \in Workers :
          /\ RunBecomes(j, v, row)
          /\ WorkerBecomes(g, w) /\ OneRequest(w) /\ w.busy = Null
          /\ \/ row.pc = "failing"
             \/ row.pc = "persisting" /\ row.batch.ok
                /\ Answers(row.batch, v, run[j][v].cur, source[v])
  BY <1>3
<1>5. JobsTrue' /\ LocksTrue' /\ lock' \in [VCenters -> Runs \cup {Null}]
  BY <1>1, <1>2, <1>4, RunKeepsLocks DEF ChannelInv, LockPCs
<1>6. TypeOK'
  <2>1. run' \in RunsOf /\ worker' \in WorkersOf
    BY <1>4 DEF RunBecomes, WorkerBecomes
  <2> QED
    BY <1>1, <1>2, <1>5, <2>1, RunTypes DEF ChannelInv, TypeOK, IngestionState
<1>7. ChannelsTrue'
  <2>1. \A k \in Jobs, u \in VCenters : run[k][u].pc = "waiting" /\ worker[g].busy # <<k, u>> =>
            run'[k][u].pc = "waiting" /\ run'[k][u].cur = run[k][u].cur
    BY <1>2, <1>4 DEF RunBecomes
  <2>2. \A k \in Jobs, u \in VCenters : w.busy # <<k, u>>
    BY <1>4, CollectorConstants DEF Runs
  <2> HIDE DEF g
  <2> QED
    BY <1>1, <1>2, <1>4, <2>1, <2>2, ChannelsChange DEF ChannelInv
<1>8. CursorsTrue'
  <2>1. run[j][v].cur = cursor[v]
    BY <1>1 DEF ChannelInv, CursorsTrue
  <2> QED
    BY <1>2, <1>4, <2>1, CursorsMoved DEF ChannelInv
<1> QED
  BY <1>5, <1>6, <1>7, <1>8 DEF ChannelInv

\* What a committed batch leaves: the items up to a cursor that has not moved
\* back and does not lead the source.
LEMMA BatchStored ==
  ASSUME ChannelInv, OnlyOwnData, NothingSkipped, NEW j \in Jobs, NEW v \in VCenters,
         run[j][v].pc = "persisting",
         LET b == run[j][v].batch
         IN  /\ stored' = [stored EXCEPT ![v] = @ \cup Items(b.vc, b.from, b.to)]
             /\ \E next \in {b.to, Null} : cursor' = Advanced(v, next)
  PROVE  /\ stored'[v] \in SUBSET (VCenters \X (1 .. MaxItems))
         /\ stored'[v] \subseteq {Item(v, n) : n \in 1 .. source[v]}
         /\ cursor'[v] \in cursor[v] .. source[v]
         /\ Items(v, 0, cursor'[v]) \subseteq stored'[v]
         /\ \A u \in VCenters \ {v} : stored'[u] = stored[u] /\ cursor'[u] = cursor[u]
<1> DEFINE b == run[j][v].batch
<1>1. /\ b.vc = v /\ b.from = cursor[v] /\ b.to \in cursor[v] .. source[v]
  BY DEF ChannelInv, CursorsTrue, Answers
<1>2. /\ cursor[v] \in Nat /\ source[v] \in 0 .. MaxItems /\ MaxItems \in Nat
      /\ cursor[v] <= source[v]
  <2>1. cursor[v] \in 0 .. MaxItems /\ source[v] \in 0 .. MaxItems
    BY RunFacts
  <2>2. cursor[v] <= source[v]
    BY DEF ChannelInv, CursorsTrue
  <2> QED
    BY <2>1, <2>2, CollectorConstants
<1>3. /\ stored[v] \in SUBSET (VCenters \X (1 .. MaxItems))
      /\ stored \in [VCenters -> SUBSET (VCenters \X (1 .. MaxItems))]
      /\ cursor \in [VCenters -> 0 .. MaxItems]
  BY TypesOf DEF ChannelInv, TypeOK
<1>4. /\ stored' = [stored EXCEPT ![v] = stored[v] \cup Items(v, cursor[v], b.to)]
      /\ cursor' = cursor \/ cursor' = [cursor EXCEPT ![v] = b.to]
  BY <1>1, Zenon DEF Advanced
<1> HIDE DEF b
<1>5. /\ stored'[v] = stored[v] \cup Items(v, cursor[v], b.to)
      /\ cursor'[v] \in {cursor[v], b.to}
      /\ \A u \in VCenters \ {v} : stored'[u] = stored[u] /\ cursor'[u] = cursor[u]
  BY <1>3, <1>4
<1>6. Items(v, cursor[v], b.to) \subseteq {Item(v, n) : n \in 1 .. source[v]}
  BY <1>1, <1>2 DEF Items
<1>7. {Item(v, n) : n \in 1 .. source[v]} \subseteq VCenters \X (1 .. MaxItems)
  BY <1>2 DEF Item
<1>8. Items(v, 0, b.to) \subseteq Items(v, 0, cursor[v]) \cup Items(v, cursor[v], b.to)
  BY <1>1, <1>2 DEF Items
<1>9. Items(v, 0, cursor[v]) \subseteq stored[v] /\ stored[v] \subseteq {Item(v, n) : n \in 1 .. source[v]}
  BY DEF OnlyOwnData, NothingSkipped
<1>10. stored'[v] \subseteq {Item(v, n) : n \in 1 .. source[v]}
  BY <1>5, <1>6, <1>9
<1>11. Items(v, 0, cursor'[v]) \subseteq stored'[v]
  BY <1>5, <1>8, <1>9
<1> QED
  BY <1>1, <1>2, <1>5, <1>7, <1>10, <1>11

LEMMA RunPersists ==
  ASSUME ChannelInv, OnlyOwnData, NothingSkipped, NEW j \in Jobs, NEW v \in VCenters,
         Persist(j, v)
  PROVE  /\ ChannelInv' /\ OnlyOwnData' /\ NothingSkipped'
         /\ \A u \in VCenters : cursor'[u] >= cursor[u]
<1>1. /\ run \in RunsOf /\ worker \in WorkersOf /\ run[j][v] \in RunRow
      /\ lock \in [VCenters -> Runs \cup {Null}] /\ <<j, v>> \in Runs
      /\ run[j][v].pc = "persisting"
  BY RunFacts DEF Persist
<1>2. /\ UNCHANGED <<source, registry, regs, job, worker, reload>>
      /\ UNCHANGED faults \/ \E kind : Fault(kind)
  BY DEF Persist
<1>3. /\ stored \in [VCenters -> SUBSET (VCenters \X (1 .. MaxItems))]
      /\ cursor \in [VCenters -> 0 .. MaxItems] /\ source \in [VCenters -> 0 .. MaxItems]
      /\ MaxItems \in Nat
  BY TypesOf, CollectorConstants DEF ChannelInv, TypeOK
<1> DEFINE Stores ==
               LET b == run[j][v].batch
               IN  /\ stored' = [stored EXCEPT ![v] = @ \cup Items(b.vc, b.from, b.to)]
                   /\ \E next \in {b.to, Null} : cursor' = Advanced(v, next)
           Leaves(row) ==
               \/ row.pc = "failing" /\ UNCHANGED <<stored, cursor, status, lock>>
               \/ /\ row.pc = "idle" /\ lock' = [lock EXCEPT ![v] = Null]
                  /\ status' = [status EXCEPT ![v] = "ok"]
                  /\ Stores
<1>4. \E row \in RunRow : RunBecomes(j, v, row) /\ Leaves(row)
  <2>1. \/ /\ Ends(j, v) /\ lock' = [lock EXCEPT ![v] = Null]
           /\ status' = [status EXCEPT ![v] = "ok"] /\ Stores
        \/ Goes(j, v, "failing") /\ UNCHANGED <<stored, cursor, status, lock>>
    BY Zenon DEF Persist, database
  <2> HIDE DEF Stores
  <2>2. CASE Ends(j, v) /\ lock' = [lock EXCEPT ![v] = Null]
             /\ status' = [status EXCEPT ![v] = "ok"] /\ Stores
    <3>1. RunBecomes(j, v, Idle) /\ Idle \in RunRow /\ Idle.pc = "idle"
      BY <1>1, <2>2, RunEnds, IdleType
    <3> QED
      BY <2>2, <3>1
  <2>3. CASE Goes(j, v, "failing") /\ UNCHANGED <<stored, cursor, status, lock>>
    <3>1. run'[j][v] \in RunRow /\ RunBecomes(j, v, run'[j][v]) /\ run'[j][v].pc = "failing"
      BY <1>1, <2>3, RunGoes DEF RunPCs
    <3> QED
      BY <2>3, <3>1
  <2> QED
    BY <2>1, <2>2, <2>3
<1>5. PICK row \in RunRow : RunBecomes(j, v, row) /\ Leaves(row)
  BY <1>4
<1>6. JobsTrue' /\ LocksTrue' /\ lock' \in [VCenters -> Runs \cup {Null}]
  BY <1>1, <1>2, <1>5, RunKeepsLocks DEF ChannelInv, LockPCs
<1>7. /\ stored'[v] \in SUBSET (VCenters \X (1 .. MaxItems))
      /\ stored'[v] \subseteq {Item(v, n) : n \in 1 .. source[v]}
      /\ cursor'[v] \in cursor[v] .. source[v]
      /\ Items(v, 0, cursor'[v]) \subseteq stored'[v]
      /\ \A u \in VCenters \ {v} : stored'[u] = stored[u] /\ cursor'[u] = cursor[u]
  <2>1. CASE UNCHANGED <<stored, cursor>>
    <3>1. cursor[v] <= source[v]
      BY DEF ChannelInv, CursorsTrue
    <3>2. cursor[v] \in cursor[v] .. source[v] /\ stored[v] \in SUBSET (VCenters \X (1 .. MaxItems))
      BY <1>3, <3>1
    <3> QED
      BY <2>1, <3>2 DEF OnlyOwnData, NothingSkipped
  <2>2. CASE ~UNCHANGED <<stored, cursor>>
    <3>1. LET b == run[j][v].batch
          IN  /\ stored' = [stored EXCEPT ![v] = @ \cup Items(b.vc, b.from, b.to)]
              /\ \E next \in {b.to, Null} : cursor' = Advanced(v, next)
      BY <1>5, <2>2
    <3> QED
      BY <1>1, <3>1, BatchStored, Zenon
  <2> QED
    BY <2>1, <2>2
<1>8. /\ stored' \in [VCenters -> SUBSET (VCenters \X (1 .. MaxItems))]
      /\ cursor' \in [VCenters -> 0 .. MaxItems]
  <2>1. cursor'[v] \in 0 .. MaxItems
    BY <1>3, <1>7
  <2>2. \/ UNCHANGED <<stored, cursor>>
        \/ /\ \E new : stored' = [stored EXCEPT ![v] = new]
           /\ \E new : cursor' = [cursor EXCEPT ![v] = new] \/ cursor' = cursor
    BY <1>5 DEF Advanced
  <2>3. CASE ~UNCHANGED <<stored, cursor>>
    <3>1. PICK new : stored' = [stored EXCEPT ![v] = new]
      BY <2>2, <2>3
    <3>2. PICK to : cursor' = [cursor EXCEPT ![v] = to] \/ cursor' = cursor
      BY <2>2, <2>3
    <3>3. stored' \in [VCenters -> SUBSET (VCenters \X (1 .. MaxItems))]
      BY <1>3, <1>7, <3>1
    <3>4. cursor' \in [VCenters -> 0 .. MaxItems]
      BY <1>3, <2>1, <3>2
    <3> QED
      BY <3>3, <3>4
  <2> QED
    BY <1>3, <2>3
<1>9. status' \in [VCenters -> CollectorRunState]
  BY <1>5 DEF ChannelInv, TypeOK, CollectorRunState
<1>10. run' \in RunsOf
  BY <1>5 DEF RunBecomes
<1>11. TypeOK'
  BY <1>1, <1>2, <1>6, <1>8, <1>9, <1>10, RunTypes DEF ChannelInv
<1>12. /\ run'[j][v] = row /\ run[j][v].pc # "waiting"
       /\ \A k \in Jobs, u \in VCenters : k # j \/ u # v => run'[k][u] = run[k][u]
  BY <1>1, <1>5 DEF RunBecomes
<1>13. \A u \in VCenters : source[u] \in Nat /\ source'[u] = source[u] /\ cursor[u] \in Nat
  BY <1>2, <1>3
<1>14. ChannelsTrue'
  BY <1>2, <1>12, <1>13, ChannelsKept DEF ChannelInv
<1>15. CursorsTrue'
  <2>1. run[j][v].pc \in LockPCs /\ cursor'[v] <= source[v]
    BY <1>1, <1>7, <1>13 DEF LockPCs
  <2>2. row.pc \notin {"asking", "waiting", "persisting"}
    BY <1>5
  <2> QED
    BY <1>2, <1>5, <1>7, <2>1, <2>2, CursorsMoved DEF ChannelInv
<1>16. OnlyOwnData'
  BY <1>2, <1>7 DEF OnlyOwnData
<1>17. NothingSkipped'
  BY <1>7 DEF NothingSkipped
<1>18. \A u \in VCenters : cursor'[u] >= cursor[u]
  BY <1>7, <1>13
<1> QED
  BY <1>6, <1>11, <1>14, <1>15, <1>16, <1>17, <1>18 DEF ChannelInv

-----------------------------------------------------------------------------
(* The steps of jobs, workers and reloads.                                 *)

\* Nothing that the runs, their locks and cursors are about has changed.
LEMMA RunsKept ==
  ASSUME ChannelInv, UNCHANGED <<run, lock, cursor, job, source>>, TypeOK', ChannelsTrue',
         reload'.pc \in {"draining", "stopWait", "exiting"} => reload'.prev \in Gens
  PROVE  ChannelInv'
BY DEF ChannelInv, JobsTrue, LocksTrue, CursorsTrue

LEMMA JobStarts ==
  ASSUME ChannelInv, NEW j \in Jobs, StartJob(j) \/ EndJob(j)
  PROVE  ChannelInv'
<1>1. /\ UNCHANGED <<source, stored, cursor, status, registry, regs, run, lock, worker, reload,
                     faults>>
      /\ \A v \in VCenters : run[j][v].pc = "idle"
  BY DEF StartJob, EndJob, database, ChannelInv, JobsTrue
<1>2. job \in [Jobs -> JobRow] /\ registry \in 0 .. MaxGen /\ MaxGen \in Nat
  BY TypesOf, CollectorConstants DEF ChannelInv, TypeOK
<1>3. /\ job' \in [Jobs -> JobRow] /\ \A k \in Jobs \ {j} : job'[k] = job[k]
      /\ job'[j].pc \in {"idle", "listing"}
      /\ job'[j].pc # "idle" => job'[j].gen \in Gens
  <2>1. CASE StartJob(j)
    <3> DEFINE row == [pc |-> "listing", gen |-> registry]
    <3>1. row \in JobRow /\ row.pc = "listing" /\ row.gen \in Gens
      BY <1>2, <2>1 DEF JobRow, StartJob, Gens
    <3>2. job' = [job EXCEPT ![j] = row]
      BY <2>1 DEF StartJob
    <3> HIDE DEF row
    <3> QED
      BY <1>2, <3>1, <3>2
  <2>2. CASE EndJob(j)
    <3> DEFINE row == [job[j] EXCEPT !.pc = "idle"]
    <3>1. row \in JobRow /\ row.pc = "idle"
      BY <1>2 DEF JobRow
    <3>2. job' = [job EXCEPT ![j] = row]
      BY <2>2 DEF EndJob
    <3> HIDE DEF row
    <3> QED
      BY <1>2, <3>1, <3>2
  <2> QED
    BY <2>1, <2>2
<1>4. TypeOK'
  BY <1>1, <1>3 DEF ChannelInv, TypeOK, JobRow
<1>5. JobsTrue'
  BY <1>1, <1>3 DEF ChannelInv, JobsTrue
<1>6. LocksTrue' /\ CursorsTrue'
  BY <1>1 DEF ChannelInv, LocksTrue, CursorsTrue
<1>7. \A v \in VCenters : source[v] \in Nat /\ source'[v] = source[v]
  BY <1>1, TypesOf, CollectorConstants DEF ChannelInv
<1>8. ChannelsTrue'
  <2>1. \A k \in Jobs, v \in VCenters : run[k][v].pc = "waiting" =>
            job'[k].gen = job[k].gen /\ run'[k][v] = run[k][v]
    BY <1>1, <1>3
  <2> QED
    BY <1>1, <1>7, <2>1, ChannelsKept DEF ChannelInv
<1> QED
  BY <1>4, <1>5, <1>6, <1>8 DEF ChannelInv

LEMMA JobLists ==
  ASSUME ChannelInv, NEW j \in Jobs, ListVCenters(j)
  PROVE  /\ ChannelInv'
         /\ \A k \in Jobs, v \in VCenters : <<k, v>> \in Holding' <=> <<k, v>> \in Holding
<1>1. /\ UNCHANGED <<source, stored, cursor, status, registry, regs, lock, worker, reload>>
      /\ \A v \in VCenters : run[j][v].pc = "idle"
      /\ UNCHANGED faults \/ \E kind : Fault(kind)
      /\ job[j].pc = "listing"
  BY DEF ListVCenters, database, ChannelInv, JobsTrue
<1>2. job \in [Jobs -> JobRow] /\ run \in RunsOf
  BY TypesOf DEF ChannelInv
<1>3. faults' \in 0 .. MaxFaults
  BY <1>1, CollectorConstants DEF Fault, ChannelInv, TypeOK
<1>4. /\ job' \in [Jobs -> JobRow] /\ \A k \in Jobs \ {j} : job'[k] = job[k]
      /\ job'[j].gen = job[j].gen
      /\ job'[j].pc = "running" \/ (job'[j].pc = "idle" /\ run' = run)
      /\ run' \in RunsOf /\ \A k \in Jobs \ {j} : run'[k] = run[k]
      /\ \A v \in VCenters : run'[j][v].pc \in {"idle", "begin"}
  <2>1. CASE /\ job' = [job EXCEPT ![j].pc = "running"]
             /\ run' = [run EXCEPT ![j] = [v \in VCenters |-> [Idle EXCEPT !.pc = "begin"]]]
    <3>1. [Idle EXCEPT !.pc = "begin"] \in RunRow /\ [Idle EXCEPT !.pc = "begin"].pc = "begin"
      BY IdleType DEF RunRow, RunPCs
    <3> DEFINE row == [Idle EXCEPT !.pc = "begin"]
               new == [job[j] EXCEPT !.pc = "running"]
    <3>2. new \in JobRow /\ new.pc = "running" /\ new.gen = job[j].gen
      BY <1>2 DEF JobRow
    <3>3. job' = [job EXCEPT ![j] = new] /\ run' = [run EXCEPT ![j] = [v \in VCenters |-> row]]
      BY <2>1
    <3> HIDE DEF row, new
    <3>4. /\ job' \in [Jobs -> JobRow] /\ \A k \in Jobs \ {j} : job'[k] = job[k]
          /\ job'[j] = new
      BY <1>2, <3>2, <3>3
    <3>5. row \in RunRow /\ row.pc = "begin"
      BY <3>1 DEF row
    <3>6. /\ run' \in RunsOf /\ \A k \in Jobs \ {j} : run'[k] = run[k]
          /\ \A v \in VCenters : run'[j][v] = row
      <4> DEFINE rows == [v \in VCenters |-> row]
      <4>1. rows \in [VCenters -> RunRow] /\ \A v \in VCenters : rows[v] = row
        BY <3>5
      <4>2. run' = [run EXCEPT ![j] = rows]
        BY <3>3
      <4> HIDE DEF rows
      <4> QED
        BY <1>2, <4>1, <4>2 DEF RunsOf
    <3>7. \A v \in VCenters : run'[j][v].pc \in {"idle", "begin"}
      BY <3>5, <3>6
    <3>8. job'[j].pc = "running" /\ job'[j].gen = job[j].gen
      BY <3>2, <3>4
    <3> QED
      BY <3>4, <3>6, <3>7, <3>8, Zenon
  <2>2. CASE job' = [job EXCEPT ![j].pc = "idle"] /\ UNCHANGED run
    <3> DEFINE new == [job[j] EXCEPT !.pc = "idle"]
    <3>2. new \in JobRow /\ new.pc = "idle" /\ new.gen = job[j].gen
      BY <1>2 DEF JobRow
    <3>3. job' = [job EXCEPT ![j] = new]
      BY <2>2
    <3> HIDE DEF new
    <3> QED
      BY <1>1, <1>2, <2>2, <3>2, <3>3
  <2> QED
    BY <2>1, <2>2 DEF ListVCenters
<1>5. TypeOK'
  BY <1>1, <1>3, <1>4 DEF ChannelInv, TypeOK, JobRow, RunsOf, RunRow
<1>6. JobsTrue'
  BY <1>1, <1>4 DEF ChannelInv, JobsTrue
<1>7. \A k \in Jobs, v \in VCenters :
          run'[k][v] = run[k][v] \/ (k = j /\ run'[k][v].pc \in {"idle", "begin"})
  <2>1. ASSUME NEW k \in Jobs, NEW v \in VCenters, k # j PROVE run'[k][v] = run[k][v]
    BY <1>4, <2>1, Zenon
  <2>2. \A v \in VCenters : run'[j][v].pc \in {"idle", "begin"}
    BY <1>4, Zenon
  <2> QED
    BY <2>1, <2>2, Zenon
<1>8. LocksTrue'
  <2>1. \A k \in Jobs, v \in VCenters : run'[k][v].pc \in LockPCs <=> run[k][v].pc \in LockPCs
    BY <1>1, <1>7 DEF LockPCs
  <2> QED
    BY <1>1, <2>1 DEF ChannelInv, LocksTrue
<1>9. \A v \in VCenters : source[v] \in Nat /\ source'[v] = source[v]
  BY <1>1, TypesOf, CollectorConstants DEF ChannelInv
<1>10. ChannelsTrue'
  <2>1. \A k \in Jobs, v \in VCenters : run[k][v].pc = "waiting" =>
            job'[k].gen = job[k].gen /\ run'[k][v] = run[k][v]
    BY <1>1, <1>4
  <2> QED
    BY <1>1, <1>9, <2>1, ChannelsKept DEF ChannelInv
<1>11. CursorsTrue'
  BY <1>1, <1>7, <1>9, CursorsKept DEF ChannelInv
<1> QED
  BY <1>1, <1>5, <1>6, <1>7, <1>8, <1>10, <1>11 DEF ChannelInv, Holding, Runs

\* A worker answers, hangs or dies: what it says is about the same run.
LEMMA WorkerServes ==
  ASSUME ChannelInv, NEW g \in Gens, Serve(g) \/ Hang(g) \/ Exit(g)
  PROVE  ChannelInv'
<1> DEFINE old == worker[g]
<1>1. /\ UNCHANGED <<source, stored, cursor, status, registry, regs, job, run, lock, reload>>
      /\ UNCHANGED faults \/ \E kind : Fault(kind)
  BY DEF Serve, Hang, Exit, database
<1>2. /\ worker \in WorkersOf /\ old \in Workers /\ OneRequest(old)
      /\ source \in [VCenters -> 0 .. MaxItems] /\ MaxItems \in Nat /\ MaxFaults \in Nat
  BY TypesOf, CollectorConstants DEF ChannelInv, ChannelsTrue, WorkersOf
<1>3. \E w \in Workers :
          /\ WorkerBecomes(g, w) /\ OneRequest(w) /\ w.busy = old.busy
          /\ w.inbox \in {<<>>, old.inbox}
          /\ \/ w.pipe = old.pipe
             \/ /\ old.inbox # <<>> /\ 1 \in DOMAIN old.inbox
                /\ \E b \in Batches :
                      /\ w.pipe = <<b>> /\ b.vc = old.inbox[1].vc
                      /\ b.from = old.inbox[1].from
                      /\ old.inbox[1].op = "collect" => b.to = source[old.inbox[1].vc]
  <2>1. CASE Serve(g)
    <3> DEFINE req == Head(old.inbox)
    <3>1. old.inbox \in Seq(Requests) /\ old.inbox # <<>> /\ Len(old.inbox) <= 1 /\ old.pipe = <<>>
      BY <1>2, <2>1 DEF Serve, Workers, OneRequest
    <3>2. /\ Tail(old.inbox) = <<>> /\ req \in Requests /\ req = old.inbox[1]
          /\ 1 \in DOMAIN old.inbox
      BY <3>1, OnlyOne
    <3>3. req.op = "collect" => req.vc \in VCenters
      BY SMTT(30), <1>2, <3>2 DEF OneRequest
    <3>4. PICK ok \in BOOLEAN :
             worker' = [worker EXCEPT ![g].inbox = Tail(@), ![g].hung = FALSE,
                           ![g].pipe = Append(@, [ok |-> ok, vc |-> req.vc, from |-> req.from,
                                                  to |-> IF req.op = "collect"
                                                         THEN source[req.vc] ELSE 0])]
      BY <2>1 DEF Serve
    <3> DEFINE b == [ok |-> ok, vc |-> req.vc, from |-> req.from,
                     to |-> IF req.op = "collect" THEN source[req.vc] ELSE 0]
    <3> HIDE DEF req
    <3>5. /\ b \in Batches /\ b.vc = req.vc /\ b.from = req.from
          /\ req.op = "collect" => b.to = source[req.vc]
      BY <1>2, <3>2, <3>3 DEF Batches, Requests
    <3> HIDE DEF b
    <3>6. worker' = [worker EXCEPT ![g] = [old EXCEPT !.inbox = Tail(@), !.hung = FALSE,
                                                      !.pipe = Append(@, b)]]
      BY <1>2, <3>4 DEF WorkersOf, b
    <3>7. Append(old.pipe, b) = <<b>> /\ <<b>> \in Seq(Batches) /\ <<>> \in Seq(Requests)
      <4> HIDE DEF old
      <4> QED
        BY <3>1, <3>5
    <3> DEFINE w == [old EXCEPT !.inbox = <<>>, !.hung = FALSE, !.pipe = <<b>>]
    <3>8. worker' = [worker EXCEPT ![g] = w]
      <4> HIDE DEF old
      <4>1. Tail(old.inbox) = <<>> /\ Append(old.pipe, b) = <<b>>
        BY <3>2, <3>7
      <4> QED
        BY <3>6, <4>1, Zenon
    <3>9. /\ w \in Workers /\ w.busy = old.busy /\ w.inbox = <<>> /\ w.pipe = <<b>>
      BY <1>2, <3>7 DEF Workers
    <3> HIDE DEF w
    <3>10. WorkerBecomes(g, w)
      BY <1>2, <3>8, <3>9, WorkerSet
    <3>11. OneRequest(w)
      BY <1>2, <3>1, <3>9 DEF OneRequest
    <3> QED
      BY <3>1, <3>2, <3>5, <3>9, <3>10, <3>11
  <2>2. CASE Hang(g)
    <3> DEFINE w == [old EXCEPT !.hung = TRUE]
    <3>1. worker' = [worker EXCEPT ![g] = w]
      BY <2>2 DEF Hang
    <3>2. w \in Workers /\ w.busy = old.busy /\ w.inbox = old.inbox /\ w.pipe = old.pipe
      BY <1>2 DEF Workers
    <3> HIDE DEF w
    <3>3. WorkerBecomes(g, w) /\ OneRequest(w)
      BY <1>2, <3>1, <3>2, WorkerSet DEF OneRequest
    <3> QED
      BY <3>2, <3>3
  <2>3. CASE Exit(g)
    <3> HIDE DEF old
    <3>1. PICK w : w = [Down EXCEPT !.busy = old.busy, !.pipe = old.pipe]
      OBVIOUS
    <3>2. worker' = [worker EXCEPT ![g] = w]
      BY <2>3, <3>1, Zenon DEF Exit, old
    <3>3. w \in Workers /\ w.busy = old.busy /\ w.inbox = <<>> /\ w.pipe = old.pipe
      BY <1>2, <3>1, DownType DEF Workers
    <3>4. WorkerBecomes(g, w)
      BY <1>2, <3>2, <3>3, WorkerSet
    <3>5. OneRequest(w)
      BY <1>2, <3>3 DEF OneRequest, Workers
    <3> QED
      BY <3>3, <3>4, <3>5
  <2> QED
    BY <2>1, <2>2, <2>3
<1>4. PICK w \in Workers :
          /\ WorkerBecomes(g, w) /\ OneRequest(w) /\ w.busy = old.busy
          /\ w.inbox \in {<<>>, old.inbox}
          /\ \/ w.pipe = old.pipe
             \/ /\ old.inbox # <<>> /\ 1 \in DOMAIN old.inbox
                /\ \E b \in Batches :
                      /\ w.pipe = <<b>> /\ b.vc = old.inbox[1].vc
                      /\ b.from = old.inbox[1].from
                      /\ old.inbox[1].op = "collect" => b.to = source[old.inbox[1].vc]
  BY <1>3
<1>5. ASSUME NEW j \in Jobs, NEW v \in VCenters, old.busy = <<j, v>>
      PROVE  /\ job[j].gen = g /\ run'[j][v].pc = "waiting"
             /\ \A n \in DOMAIN w.inbox : w.inbox[n] = Request("collect", v, run'[j][v].cur)
             /\ \A n \in DOMAIN w.pipe : Answers(w.pipe[n], v, run'[j][v].cur, source[v])
  <2>1. /\ job[j].gen = g /\ run[j][v].pc = "waiting"
        /\ \A n \in DOMAIN old.inbox : old.inbox[n] = Request("collect", v, run[j][v].cur)
        /\ \A n \in DOMAIN old.pipe : Answers(old.pipe[n], v, run[j][v].cur, source[v])
    BY <1>5 DEF ChannelInv, ChannelsTrue
  <2>2. cursor[v] \in Nat /\ source[v] \in Nat /\ cursor[v] <= source[v] /\ run[j][v].cur = cursor[v]
    <3>1. cursor[v] \in 0 .. MaxItems /\ source[v] \in 0 .. MaxItems
      BY RunFacts
    <3>2. cursor[v] <= source[v] /\ run[j][v].cur = cursor[v]
      BY <2>1 DEF ChannelInv, CursorsTrue
    <3> QED
      BY <1>2, <3>1, <3>2
  <2>3. \A n \in DOMAIN w.inbox : w.inbox[n] = Request("collect", v, run[j][v].cur)
    BY <1>4, <2>1
  <2>4. \A n \in DOMAIN w.pipe : Answers(w.pipe[n], v, run[j][v].cur, source[v])
    <3>1. CASE w.pipe = old.pipe
      BY <2>1, <3>1
    <3>2. ASSUME 1 \in DOMAIN old.inbox,
                 NEW b \in Batches, w.pipe = <<b>>, b.vc = old.inbox[1].vc,
                 b.from = old.inbox[1].from,
                 old.inbox[1].op = "collect" => b.to = source[old.inbox[1].vc]
          PROVE  \A n \in DOMAIN w.pipe : Answers(w.pipe[n], v, run[j][v].cur, source[v])
      <4>1. old.inbox[1] = Request("collect", v, run[j][v].cur)
        BY <2>1, <3>2
      <4>2. b.vc = v /\ b.from = run[j][v].cur /\ b.to = source[v]
        BY <3>2, <4>1 DEF Request
      <4>3. Answers(b, v, run[j][v].cur, source[v])
        BY <2>2, <4>2 DEF Answers
      <4> QED
        BY <3>2, <4>3
    <3> QED
      BY <1>4, <3>1, <3>2
  <2> QED
    BY <1>1, <2>1, <2>3, <2>4
<1>6. ChannelsTrue'
  BY <1>1, <1>4, <1>5, ChannelsChange DEF ChannelInv
<1>7. faults' \in 0 .. MaxFaults
  BY <1>1, <1>2 DEF Fault, ChannelInv, TypeOK
<1>8. worker' \in WorkersOf
  BY <1>4 DEF WorkerBecomes
<1>9. TypeOK'
  BY <1>1, <1>7, <1>8 DEF ChannelInv, TypeOK, WorkersOf
<1> QED
  BY <1>1, <1>6, <1>9, RunsKept DEF ChannelInv, JobsTrue

\* A step of the reload: at most one worker changes, and no run asks it after
\* the step that did not before.
LEMMA ReloadKeeps ==
  ASSUME ChannelInv, UNCHANGED <<source, stored, cursor, status, job, run, lock, faults>>,
         registry' \in 0 .. MaxGen,
         regs' \in [Gens -> {"none", "enabled", "disabled", "failed"}],
         reload' \in ReloadRow,
         reload'.pc \in {"draining", "stopWait", "exiting"} => reload'.prev \in Gens,
         \/ UNCHANGED worker
         \/ \E g \in Gens, w \in Workers :
               /\ WorkerBecomes(g, w) /\ OneRequest(w)
               /\ \/ w.busy \in {Null, Reloader}
                  \/ w.busy = worker[g].busy /\ w.inbox = <<>> /\ w.pipe = <<>>
  PROVE  ChannelInv'
<1>1. worker \in WorkersOf /\ \A v \in VCenters : source[v] \in Nat
  BY TypesOf, CollectorConstants DEF ChannelInv
<1>2. worker' \in WorkersOf
  BY <1>1 DEF WorkerBecomes
<1>3. TypeOK'
  BY <1>2 DEF ChannelInv, TypeOK, WorkersOf, ReloadRow
<1>4. CASE UNCHANGED worker
  <2>1. ChannelsTrue'
    BY <1>1, <1>4, ChannelsKept DEF ChannelInv
  <2> QED
    BY <1>3, <2>1, RunsKept
<1>5. ASSUME NEW g \in Gens, NEW w \in Workers, WorkerBecomes(g, w), OneRequest(w),
             \/ w.busy \in {Null, Reloader}
             \/ w.busy = worker[g].busy /\ w.inbox = <<>> /\ w.pipe = <<>>
      PROVE  ChannelInv'
  <2>1. ASSUME NEW j \in Jobs, NEW v \in VCenters, w.busy = <<j, v>>
        PROVE  /\ job[j].gen = g /\ run'[j][v].pc = "waiting"
               /\ \A n \in DOMAIN w.inbox : w.inbox[n] = Request("collect", v, run'[j][v].cur)
               /\ \A n \in DOMAIN w.pipe : Answers(w.pipe[n], v, run'[j][v].cur, source[v])
    <3>1. w.busy \notin {Null, Reloader}
      BY <2>1, CollectorConstants DEF Runs
    <3>2. worker[g].busy = <<j, v>> /\ w.inbox = <<>> /\ w.pipe = <<>>
      BY <1>5, <2>1, <3>1
    <3>3. job[j].gen = g /\ run[j][v].pc = "waiting"
      BY <3>2 DEF ChannelInv, ChannelsTrue
    <3> QED
      BY <3>2, <3>3
  <2>2. ChannelsTrue'
    BY <1>5, <2>1, ChannelsChange DEF ChannelInv
  <2> QED
    BY <1>3, <2>2, RunsKept
<1> QED
  BY <1>4, <1>5

\* The next generation becomes the active one, and the previous one is drained
\* if the plugin was enabled in it.
LEMMA Activates ==
  ASSUME ChannelInv, NEW outcome \in {"disabled", "enabled", "failed"}, Activate(outcome)
  PROVE  /\ UNCHANGED <<source, stored, cursor, status, job, run, lock>>
         /\ registry' \in 0 .. MaxGen
         /\ regs' \in [Gens -> {"none", "enabled", "disabled", "failed"}]
         /\ reload' \in ReloadRow
         /\ reload'.pc \in {"draining", "stopWait", "exiting"} => reload'.prev \in Gens
<1> DEFINE stop == reload.prev # 0 /\ regs[reload.prev] = "enabled"
           pc == IF stop THEN "draining" ELSE "idle"
           left == IF stop THEN {v \in VCenters : lock[v] # Null} ELSE {}
           row == [reload EXCEPT !.pc = pc, !.left = left]
<1>1. /\ reload \in ReloadRow /\ reload.gen \in Gens /\ MaxGen \in Nat
      /\ regs \in [Gens -> {"none", "enabled", "disabled", "failed"}]
      /\ reload.prev \in 0 .. MaxGen
  BY TypesOf, CollectorConstants DEF ChannelInv, TypeOK, ReloadRow
<1>2. reload' = row
  BY DEF Activate
<1>3. /\ row \in ReloadRow /\ row.pc \in {"idle", "draining"} /\ row.prev = reload.prev
      /\ row.pc = "draining" => reload.prev # 0
  <2>1. stop => reload.prev # 0
    OBVIOUS
  <2> HIDE DEF stop
  <2>2. pc \in {"draining", "idle"} /\ left \in SUBSET VCenters /\ (pc = "draining" => stop)
    OBVIOUS
  <2> HIDE DEF pc, left
  <2>3. pc \in ReloadPCs
    BY <2>2 DEF ReloadPCs
  <2> QED
    BY <1>1, <2>1, <2>2, <2>3 DEF ReloadRow
<1> HIDE DEF row
<1>4. UNCHANGED <<source, stored, cursor, status, job, run, lock>>
  BY DEF Activate, database
<1>5. registry' = reload.gen /\ regs' = [regs EXCEPT ![reload.gen] = outcome]
  BY DEF Activate
<1> QED
  BY <1>1, <1>2, <1>3, <1>4, <1>5 DEF Gens

LEMMA ReloadBegins ==
  ASSUME ChannelInv, BeginReload \/ ActivateDisabled
  PROVE  ChannelInv'
<1>1. reload \in ReloadRow /\ MaxGen \in Nat /\ 1 \in Gens
      /\ regs \in [Gens -> {"none", "enabled", "disabled", "failed"}]
  BY TypesOf, CollectorConstants DEF ChannelInv, TypeOK
<1>2. CASE ActivateDisabled
  BY <1>2, Activates, ReloadKeeps DEF ActivateDisabled
<1>3. CASE BeginReload
  <2>1. registry \in Gens /\ registry + 1 \in Gens /\ registry \in 0 .. MaxGen
    BY <1>1, <1>3 DEF BeginReload, Gens
  <2> DEFINE row == [Booting EXCEPT !.gen = registry + 1, !.prev = registry]
  <2>2. row \in ReloadRow /\ row.pc = "starting"
    <3>1. Booting \in ReloadRow /\ Booting.pc = "starting"
      BY <1>1 DEF Booting, ReloadRow, ReloadPCs, Gens
    <3> QED
      BY <2>1, <3>1 DEF ReloadRow
  <2>3. reload' = row /\ UNCHANGED worker
        /\ UNCHANGED <<source, stored, cursor, status, job, run, lock, faults, registry>>
    BY <1>3 DEF BeginReload, database
  <2> HIDE DEF row
  <2>4. PICK to \in {"enabled", "disabled"} : regs' = [regs EXCEPT ![registry + 1] = to]
    BY <1>3 DEF BeginReload
  <2>5. regs' \in [Gens -> {"none", "enabled", "disabled", "failed"}]
    BY <1>1, <2>4
  <2> QED
    BY <2>1, <2>2, <2>3, <2>5, ReloadKeeps
<1> QED
  BY <1>2, <1>3

\* A reload asks a worker to start or to stop.
LEMMA ReloadAsks ==
  ASSUME ChannelInv, SendStart \/ SendStop
  PROVE  ChannelInv'
<1>1. /\ reload \in ReloadRow /\ reload.gen \in Gens /\ worker \in WorkersOf /\ registry \in 0 .. MaxGen
      /\ regs \in [Gens -> {"none", "enabled", "disabled", "failed"}]
      /\ reload.pc \in {"draining", "stopWait", "exiting"} => reload.prev \in Gens
  BY TypesOf DEF ChannelInv, TypeOK, JobsTrue, ReloadRow
<1>2. ASSUME NEW g \in Gens, NEW op \in {"start", "stop"}, Send(g, Reloader, Request(op, Null, 0))
      PROVE  \E w \in Workers : WorkerBecomes(g, w) /\ OneRequest(w) /\ w.busy = Reloader
  <2> DEFINE req == Request(op, Null, 0)
  <2>1. req \in Requests /\ (req.op = "collect" => req.vc \in VCenters) /\ Reloader \in Callers
    BY CollectorConstants DEF Request, Requests, Callers
  <2>2. OneRequest(worker[g])
    BY DEF ChannelInv, ChannelsTrue
  <2>3. Send(g, Reloader, req)
    BY <1>2
  <2> HIDE DEF req
  <2> QED
    BY <1>1, <2>1, <2>2, <2>3, WorkerSends
<1>3. ASSUME NEW pc \in {"startWait", "stopWait"}, reload' = [reload EXCEPT !.pc = pc]
      PROVE  /\ reload' \in ReloadRow /\ reload'.pc = pc /\ reload'.prev = reload.prev
  BY <1>1, <1>3 DEF ReloadRow, ReloadPCs
<1>4. UNCHANGED <<source, stored, cursor, status, job, run, lock, faults, registry, regs>>
  BY DEF SendStart, SendStop, database
<1>5. CASE SendStart
  <2>1. /\ reload' \in ReloadRow /\ reload'.pc = "startWait"
        /\ \E w \in Workers :
              WorkerBecomes(reload.gen, w) /\ OneRequest(w) /\ w.busy = Reloader
    BY <1>1, <1>2, <1>3, <1>5 DEF SendStart
  <2> QED
    BY <1>1, <1>4, <2>1, ReloadKeeps
<1>6. CASE SendStop
  <2>1. /\ reload' \in ReloadRow /\ reload'.prev = reload.prev /\ reload.prev \in Gens
        /\ \E w \in Workers :
              WorkerBecomes(reload.prev, w) /\ OneRequest(w) /\ w.busy = Reloader
    BY <1>1, <1>2, <1>3, <1>6 DEF SendStop
  <2> QED
    BY <1>1, <1>4, <2>1, ReloadKeeps
<1> QED
  BY <1>5, <1>6

\* The worker of the next generation has started, or has not.
LEMMA ReloadStarts ==
  ASSUME ChannelInv, StartAnswered \/ StartLost
  PROVE  ChannelInv'
<1> DEFINE g == reload.gen
<1>1. /\ reload \in ReloadRow /\ g \in Gens /\ worker \in WorkersOf /\ UNCHANGED faults
  BY TypesOf DEF ChannelInv, ReloadRow, StartAnswered, StartLost
<1>2. OneRequest(worker[g])
  BY <1>1 DEF ChannelInv, ChannelsTrue
<1>3. \E w \in Workers : WorkerBecomes(g, w) /\ OneRequest(w) /\ w.busy = Null
  <2> HIDE DEF g
  <2>1. GiveUp(g) \/ (TakeAnswer(g) /\ worker[g].pipe # <<>>)
    BY DEF StartAnswered, StartLost, Answered, g
  <2>2. CASE GiveUp(g)
    BY <1>1, <2>2, WorkerGivenUp
  <2>3. CASE TakeAnswer(g) /\ worker[g].pipe # <<>>
    BY <1>1, <1>2, <2>3, WorkerTaken
  <2> QED
    BY <2>1, <2>2, <2>3
<1>4. \E outcome \in {"disabled", "enabled", "failed"} : Activate(outcome)
  BY DEF StartAnswered, StartLost
<1> QED
  BY <1>1, <1>3, <1>4, Activates, ReloadKeeps

\* The drain goes on to the next lock.
LEMMA ReloadDrains ==
  ASSUME ChannelInv, DrainNext \/ DrainPass
  PROVE  ChannelInv'
<1>1. /\ reload \in ReloadRow /\ registry \in 0 .. MaxGen
      /\ regs \in [Gens -> {"none", "enabled", "disabled", "failed"}]
      /\ reload.pc = "draining" /\ reload.prev \in Gens
  BY TypesOf DEF ChannelInv, TypeOK, JobsTrue, DrainNext, DrainPass
<1>2. /\ UNCHANGED <<source, stored, cursor, status, job, run, lock, faults, registry, regs>>
      /\ UNCHANGED worker
  BY DEF DrainNext, DrainPass, database
<1>3. reload' \in ReloadRow /\ reload'.prev = reload.prev
  <2>1. CASE DrainNext
    <3>1. PICK v \in reload.left : reload' = [reload EXCEPT !.at = v]
      BY <2>1 DEF DrainNext
    <3> QED
      BY <1>1, <3>1 DEF ReloadRow
  <2>2. CASE DrainPass
    <3>1. reload' = [reload EXCEPT !.at = Null, !.left = reload.left \ {reload.at}]
      BY <2>2 DEF DrainPass
    <3>2. reload.left \ {reload.at} \in SUBSET VCenters
      BY <1>1 DEF ReloadRow
    <3> QED
      BY <1>1, <3>1, <3>2 DEF ReloadRow
  <2> QED
    BY <2>1, <2>2
<1> QED
  BY <1>1, <1>2, <1>3, ReloadKeeps

\* The previous worker has answered its stop request, or ended otherwise.
LEMMA ReloadStops ==
  ASSUME ChannelInv, StopDone
  PROVE  ChannelInv'
<1> DEFINE g == reload.prev
<1>1. /\ reload \in ReloadRow /\ g \in Gens /\ worker \in WorkersOf /\ registry \in 0 .. MaxGen
      /\ regs \in [Gens -> {"none", "enabled", "disabled", "failed"}]
      /\ worker[g] \in Workers
  BY TypesOf DEF ChannelInv, TypeOK, JobsTrue, ReloadRow, StopDone, WorkersOf
<1>2. OneRequest(worker[g])
  BY <1>1 DEF ChannelInv, ChannelsTrue
<1>3. \E w \in Workers : WorkerBecomes(g, w) /\ OneRequest(w) /\ w.busy = Null
  <2> HIDE DEF g
  <2>1. CASE GiveUp(g)
    BY <1>1, <2>1, WorkerGivenUp
  <2>2. CASE /\ worker[g].pipe # <<>>
             /\ worker' = [worker EXCEPT ![g].busy = Null, ![g].pipe = Tail(@),
                                         ![g].closing = worker[g].up]
    <3> DEFINE s == [worker[g] EXCEPT !.busy = Null, !.pipe = Tail(@)]
    <3>0. worker[g].pipe # <<>>
      BY <2>2
    <3>1. s \in Workers /\ OneRequest(s) /\ s.busy = Null
      BY <1>1, <1>2, <3>0, TakeType, Zenon
    <3>2. worker' = [worker EXCEPT ![g] = [s EXCEPT !.closing = worker[g].up]]
      BY <1>1, <2>2 DEF WorkersOf
    <3> HIDE DEF s
    <3> DEFINE w == [s EXCEPT !.closing = worker[g].up]
    <3>3. worker[g].up \in BOOLEAN
      BY <1>1 DEF Workers
    <3>4. /\ w \in Workers /\ w.busy = Null /\ w.inbox = s.inbox /\ w.pipe = s.pipe
      BY <3>1, <3>3 DEF Workers
    <3>5. worker' = [worker EXCEPT ![g] = w]
      BY <3>2
    <3> HIDE DEF w
    <3>6. WorkerBecomes(g, w)
      BY <1>1, <3>4, <3>5, WorkerSet
    <3>7. OneRequest(w)
      BY <3>1, <3>4 DEF OneRequest
    <3> QED
      BY <3>4, <3>6, <3>7
  <2> QED
    BY <2>1, <2>2 DEF StopDone, Answered, g
<1>4. /\ UNCHANGED <<source, stored, cursor, status, job, run, lock, faults, registry, regs>>
      /\ reload' = [reload EXCEPT !.pc = "exiting"]
  BY DEF StopDone, database
<1>5. reload' \in ReloadRow /\ reload'.prev = g
  BY <1>1, <1>4 DEF ReloadRow, ReloadPCs
<1> QED
  BY <1>1, <1>3, <1>4, <1>5, ReloadKeeps

\* The previous worker is gone: whoever is still waiting for it reads no more.
LEMMA ReloadIsDone ==
  ASSUME ChannelInv, ReloadDone
  PROVE  ChannelInv'
<1> DEFINE g == reload.prev
<1>1. /\ reload \in ReloadRow /\ g \in Gens /\ worker \in WorkersOf /\ registry \in 0 .. MaxGen
      /\ regs \in [Gens -> {"none", "enabled", "disabled", "failed"}]
      /\ worker[g] \in Workers
  BY TypesOf DEF ChannelInv, TypeOK, JobsTrue, ReloadRow, ReloadDone, WorkersOf
<1>2. \/ UNCHANGED worker
      \/ \E w \in Workers :
            /\ WorkerBecomes(g, w) /\ OneRequest(w)
            /\ w.busy = worker[g].busy /\ w.inbox = <<>> /\ w.pipe = <<>>
  <2> HIDE DEF g
  <2>1. CASE ~worker[g].closing
    <3>1. worker' = [worker EXCEPT ![g] = worker[g]]
      BY <2>1 DEF ReloadDone, g
    <3> QED
      BY <1>1, <3>1 DEF WorkersOf
  <2>2. CASE worker[g].closing
    <3>1. PICK w : w = [Down EXCEPT !.busy = worker[g].busy]
      OBVIOUS
    <3>2. worker' = [worker EXCEPT ![g] = [Down EXCEPT !.busy = worker[g].busy]]
      BY <2>2 DEF ReloadDone, g
    <3>3. worker' = [worker EXCEPT ![g] = w]
      BY <3>1, <3>2, Zenon
    <3>4. w \in Workers /\ w.busy = worker[g].busy /\ w.inbox = <<>> /\ w.pipe = <<>>
      BY <1>1, <3>1, DownType DEF Workers
    <3>5. WorkerBecomes(g, w)
      BY <1>1, <3>3, <3>4, WorkerSet
    <3>6. OneRequest(w)
      BY <3>4 DEF OneRequest, Workers
    <3> QED
      BY <3>4, <3>5, <3>6
  <2> QED
    BY <2>1, <2>2
<1>3. /\ UNCHANGED <<source, stored, cursor, status, job, run, lock, faults, registry, regs>>
      /\ reload' = [reload EXCEPT !.pc = "idle"]
  BY DEF ReloadDone, database
<1>4. reload' \in ReloadRow /\ reload'.prev = g
  BY <1>1, <1>3 DEF ReloadRow, ReloadPCs
<1> QED
  BY <1>1, <1>2, <1>3, <1>4, ReloadKeeps

LEMMA SourceGrows ==
  ASSUME ChannelInv, NEW v \in VCenters, Produce(v)
  PROVE  /\ ChannelInv'
         /\ \A u \in VCenters : source[u] \in Nat /\ source'[u] \in Nat /\ source[u] <= source'[u]
<1>1. source \in [VCenters -> 0 .. MaxItems] /\ MaxItems \in Nat
  BY TypesOf, CollectorConstants DEF ChannelInv
<1>2. /\ source[v] < MaxItems /\ source' = [source EXCEPT ![v] = source[v] + 1]
      /\ UNCHANGED <<stored, cursor, status, registry, regs, job, run, lock, worker, reload, faults>>
  BY DEF Produce, database
<1>3. /\ source' \in [VCenters -> 0 .. MaxItems]
      /\ \A u \in VCenters : source[u] \in Nat /\ source'[u] \in Nat /\ source[u] <= source'[u]
  BY <1>1, <1>2
<1>4. TypeOK'
  BY <1>2, <1>3 DEF ChannelInv, TypeOK
<1>5. JobsTrue' /\ LocksTrue'
  BY <1>2 DEF ChannelInv, JobsTrue, LocksTrue
<1>6. ChannelsTrue'
  BY <1>2, <1>3, ChannelsKept DEF ChannelInv
<1>7. CursorsTrue'
  BY <1>2, <1>3, CursorsKept DEF ChannelInv
<1> QED
  BY <1>3, <1>4, <1>5, <1>6, <1>7 DEF ChannelInv

\* A start of the application: nothing runs, nothing is locked, no worker is up.
FreshRuntime ==
    /\ registry = 0 /\ regs = [g \in Gens |-> IF g = 1 THEN "enabled" ELSE "none"]
    /\ job = [j \in Jobs |-> [pc |-> "idle", gen |-> 0]]
    /\ run = [j \in Jobs |-> [v \in VCenters |-> Idle]]
    /\ lock = [v \in VCenters |-> Null]
    /\ worker = [g \in Gens |-> Down]
    /\ reload = Booting

FreshFacts ==
    /\ registry \in 0 .. MaxGen
    /\ regs \in [Gens -> {"none", "enabled", "disabled", "failed"}]
    /\ job \in [Jobs -> JobRow] /\ run \in RunsOf
    /\ lock \in [VCenters -> Runs \cup {Null}] /\ worker \in WorkersOf /\ reload \in ReloadRow
    /\ JobsTrue /\ LocksTrue /\ ChannelsTrue
    /\ \A j \in Jobs, v \in VCenters : run[j][v].pc = "idle"

LEMMA FreshIsTrue == FreshRuntime => FreshFacts
<1> SUFFICES ASSUME FreshRuntime PROVE FreshFacts
  OBVIOUS
<1>1. MaxGen \in Nat /\ 1 \in Gens /\ \A j \in Jobs, v \in VCenters : <<j, v>> # Null
  BY CollectorConstants DEF Runs
<1>2. /\ registry \in 0 .. MaxGen
      /\ regs \in [Gens -> {"none", "enabled", "disabled", "failed"}]
      /\ job \in [Jobs -> JobRow] /\ lock \in [VCenters -> Runs \cup {Null}]
      /\ \A j \in Jobs : job[j].pc = "idle"
      /\ \A v \in VCenters : lock[v] = Null
  BY <1>1 DEF FreshRuntime, JobRow
<1>3. reload \in ReloadRow /\ reload.pc = "starting"
  BY <1>1 DEF FreshRuntime, Booting, ReloadRow, ReloadPCs
<1>4. run \in RunsOf /\ \A j \in Jobs, v \in VCenters : run[j][v] = Idle
  BY IdleType DEF FreshRuntime, RunsOf
<1>5. \A j \in Jobs, v \in VCenters : run[j][v].pc = "idle"
  BY <1>4, IdleType
<1>6. worker \in WorkersOf /\ \A g \in Gens : worker[g] = Down
  BY DownType DEF FreshRuntime, WorkersOf
<1>7. JobsTrue
  BY <1>2, <1>3, <1>5 DEF JobsTrue
<1>8. LocksTrue
  BY <1>1, <1>2, <1>5 DEF LocksTrue, LockPCs
<1>9. ChannelsTrue
  BY <1>1, <1>6, DownType, DownClean DEF ChannelsTrue
<1> QED
  BY <1>2, <1>3, <1>4, <1>5, <1>6, <1>7, <1>8, <1>9 DEF FreshFacts

-----------------------------------------------------------------------------
(* The status: the run that holds the lock writes it.                       *)

HoldPCs == {"marked", "asking", "waiting", "persisting", "failing"}

LEMMA HoldingIs ==
  ASSUME NEW j \in Jobs, NEW v \in VCenters
  PROVE  /\ <<j, v>> \in Holding <=> run[j][v].pc \in HoldPCs
         /\ <<j, v>> \in Holding' <=> run'[j][v].pc \in HoldPCs
BY DEF Holding, HoldPCs, Runs

\* The run of a job for a vCenter is at pc now, and no other has moved.
RunMoves(j, v, pc) ==
    /\ run'[j][v].pc = pc
    /\ \A k \in Jobs, u \in VCenters : k # j \/ u # v => run'[k][u].pc = run[k][u].pc

LEMMA StatusKept ==
  ASSUME StatusTracksRun, UNCHANGED status, faults' = 0 => faults = 0,
         \A j \in Jobs, v \in VCenters : <<j, v>> \in Holding' <=> <<j, v>> \in Holding
  PROVE  StatusTracksRun'
BY DEF StatusTracksRun

LEMMA StatusMoves ==
  ASSUME ChannelInv, StatusTracksRun, NEW j \in Jobs, NEW v \in VCenters, NEW pc,
         RunMoves(j, v, pc), faults' = 0 => faults = 0,
         \A u \in VCenters \ {v} : status'[u] = status[u],
         \/ pc \in HoldPCs /\ status'[v] = "running"
         \/ pc \notin HoldPCs /\ run[j][v].pc \notin HoldPCs /\ status'[v] = status[v]
         \/ /\ pc \notin HoldPCs /\ run[j][v].pc \in HoldPCs
            /\ status'[v] # "running" \/ faults' # 0
  PROVE  StatusTracksRun'
<1>1. ASSUME NEW u \in VCenters, NEW k \in Jobs, run'[k][u].pc \in HoldPCs
      PROVE  status'[u] = "running"
  <2>1. CASE u # v
    <3>1. <<k, u>> \in Holding
      BY <1>1, <2>1, HoldingIs DEF RunMoves
    <3> QED
      BY <2>1, <3>1 DEF StatusTracksRun
  <2>2. CASE u = v /\ k = j
    BY <1>1, <2>2 DEF RunMoves
  <2>3. CASE u = v /\ k # j
    <3>1. <<k, v>> \in Holding /\ run[k][v].pc \in HoldPCs
      BY <1>1, <2>3, HoldingIs DEF RunMoves
    <3>2. lock[v] = <<k, v>>
      BY <3>1 DEF ChannelInv, LocksTrue, HoldPCs, LockPCs
    <3>3. run[j][v].pc \notin HoldPCs
      BY <2>3, <3>2 DEF ChannelInv, LocksTrue, HoldPCs, LockPCs
    <3>4. status[v] = "running"
      BY <3>1 DEF StatusTracksRun
    <3> QED
      BY <2>3, <3>3, <3>4
  <2> QED
    BY <2>1, <2>2, <2>3
<1>2. ASSUME NEW u \in VCenters, status'[u] = "running", faults' = 0
      PROVE  \E k \in Jobs : run'[k][u].pc \in HoldPCs
  <2>1. CASE u # v
    <3>1. PICK k \in Jobs : <<k, u>> \in Holding
      BY <1>2, <2>1 DEF StatusTracksRun
    <3> QED
      BY <2>1, <3>1, HoldingIs DEF RunMoves
  <2>2. CASE u = v /\ pc \in HoldPCs
    BY <2>2 DEF RunMoves
  <2>3. CASE u = v /\ pc \notin HoldPCs
    <3>1. run[j][v].pc \notin HoldPCs /\ status[v] = "running"
      BY <1>2, <2>3
    <3>2. PICK k \in Jobs : <<k, v>> \in Holding
      BY <1>2, <3>1 DEF StatusTracksRun
    <3>3. run[k][v].pc \in HoldPCs
      BY <3>2, HoldingIs
    <3> QED
      BY <2>3, <3>1, <3>3 DEF RunMoves
  <2> QED
    BY <2>1, <2>2, <2>3
<1> QED
  BY <1>1, <1>2, HoldingIs DEF StatusTracksRun

LEMMA RunStatus ==
  ASSUME ChannelInv, StatusTracksRun, NEW j \in Jobs, NEW v \in VCenters, RunStep(j, v)
  PROVE  StatusTracksRun'
<1>1. /\ run \in RunsOf /\ run[j][v] \in RunRow /\ faults \in Nat
      /\ status \in [VCenters -> CollectorRunState]
  <2>1. run \in RunsOf /\ run[j][v] \in RunRow
    BY RunFacts
  <2> QED
    BY <2>1, CollectorConstants DEF ChannelInv, TypeOK
<1>2. ASSUME NEW pc \in RunPCs, Goes(j, v, pc) PROVE RunMoves(j, v, pc)
  BY <1>1, <1>2, RunGoes DEF RunBecomes, RunMoves
<1>3. ASSUME Ends(j, v) PROVE RunMoves(j, v, "idle")
  BY <1>1, <1>3, RunEnds, IdleType DEF RunBecomes, RunMoves
<1>4. ASSUME run[j][v].pc \in HoldPCs PROVE status[v] = "running"
  BY <1>4, HoldingIs DEF StatusTracksRun
<1>5. ASSUME NEW kind, Fault(kind) PROVE faults' # 0
  BY <1>1, <1>5 DEF Fault
<1>6. {"queued", "locked", "marked", "waiting", "failing"} \subseteq RunPCs
  BY DEF RunPCs
<1>7. CASE Begin(j, v) \/ TakeLock(j, v)
  <2>1. UNCHANGED status /\ UNCHANGED faults
    BY <1>7 DEF Begin, TakeLock, database
  <2>2. \A k \in Jobs, u \in VCenters : <<k, u>> \in Holding' <=> <<k, u>> \in Holding
    BY <1>7, RunBegins
  <2> QED
    BY <2>1, <2>2, StatusKept
<1>8. CASE MarkStarted(j, v)
  <2>1. run[j][v].pc \notin HoldPCs
    BY <1>8 DEF MarkStarted, HoldPCs
  <2>2. CASE Goes(j, v, "marked") /\ status' = [status EXCEPT ![v] = "running"] /\ UNCHANGED faults
    <3>1. RunMoves(j, v, "marked") /\ "marked" \in HoldPCs
      BY <1>2, <1>6, <2>2 DEF HoldPCs
    <3>2. status'[v] = "running" /\ \A u \in VCenters \ {v} : status'[u] = status[u]
      BY <1>1, <2>2
    <3> QED
      BY <2>2, <3>1, <3>2, StatusMoves
  <2>3. CASE Ends(j, v) /\ UNCHANGED status /\ Fault("db")
    <3>1. RunMoves(j, v, "idle") /\ "idle" \notin HoldPCs /\ faults' # 0
      BY <1>3, <1>5, <2>3 DEF HoldPCs
    <3> QED
      BY <2>1, <2>3, <3>1, StatusMoves
  <2> QED
    BY <1>8, <2>2, <2>3 DEF MarkStarted
<1>9. CASE ReadCursor(j, v) \/ SendCollect(j, v) \/ CollectAnswered(j, v) \/ CollectLost(j, v)
  <2>1. run[j][v].pc \in HoldPCs /\ status[v] = "running" /\ UNCHANGED status
    BY <1>4, <1>9 DEF ReadCursor, SendCollect, CollectAnswered, CollectLost, database, HoldPCs
  <2>2. faults' = 0 => faults = 0
    BY <1>5, <1>9 DEF ReadCursor, SendCollect, CollectAnswered, CollectLost
  <2>3. \E pc \in HoldPCs : RunMoves(j, v, pc)
    <3>1. CASE ReadCursor(j, v)
      <4>1. CASE run' = [run EXCEPT ![j][v].pc = "asking", ![j][v].cur = cursor[v]]
        <5>1. run'[j][v].pc = "asking"
          BY <1>1, <4>1 DEF RunsOf, RunRow
        <5>2. \A k \in Jobs, u \in VCenters : k # j \/ u # v => run'[k][u] = run[k][u]
          BY <1>1, <4>1 DEF RunsOf, RunRow
        <5> QED
          BY <5>1, <5>2 DEF RunMoves, HoldPCs
      <4>2. CASE Goes(j, v, "failing")
        BY <1>2, <1>6, <4>2 DEF HoldPCs
      <4> QED
        BY <3>1, <4>1, <4>2 DEF ReadCursor
    <3>2. CASE SendCollect(j, v) \/ CollectLost(j, v)
      BY <1>2, <1>6, <3>2 DEF SendCollect, CollectLost, HoldPCs
    <3>3. CASE CollectAnswered(j, v)
      <4> DEFINE pc == IF Answer(job[j].gen).ok THEN "persisting" ELSE "failing"
      <4>1. pc \in HoldPCs
        BY DEF HoldPCs
      <4>2. PICK b : b = Answer(job[j].gen)
        OBVIOUS
      <4>3. run' = [run EXCEPT ![j][v].batch = b, ![j][v].pc = pc]
        BY <3>3, <4>2, Zenon DEF CollectAnswered
      <4> HIDE DEF pc
      <4>4. run'[j][v].pc = pc
        BY <1>1, <4>3 DEF RunsOf, RunRow
      <4>5. \A k \in Jobs, u \in VCenters : k # j \/ u # v => run'[k][u] = run[k][u]
        BY <1>1, <4>3 DEF RunsOf, RunRow
      <4> QED
        BY <4>1, <4>4, <4>5 DEF RunMoves
    <3> QED
      BY <1>9, <3>1, <3>2, <3>3
  <2> QED
    BY <2>1, <2>2, <2>3, StatusMoves
<1>10. CASE Persist(j, v)
  <2>1. run[j][v].pc \in HoldPCs /\ status[v] = "running"
    BY <1>4, <1>10 DEF Persist, HoldPCs
  <2>2. CASE Ends(j, v) /\ status' = [status EXCEPT ![v] = "ok"] /\ UNCHANGED faults
    <3>1. RunMoves(j, v, "idle") /\ "idle" \notin HoldPCs
      BY <1>3, <2>2 DEF HoldPCs
    <3>2. status'[v] = "ok" /\ \A u \in VCenters \ {v} : status'[u] = status[u]
      BY <1>1, <2>2
    <3> QED
      BY <2>1, <2>2, <3>1, <3>2, StatusMoves
  <2>3. CASE Goes(j, v, "failing") /\ Fault("db") /\ UNCHANGED status
    <3>1. RunMoves(j, v, "failing") /\ "failing" \in HoldPCs /\ faults' # 0
      BY <1>2, <1>5, <1>6, <2>3 DEF HoldPCs
    <3> QED
      BY <2>1, <2>3, <3>1, StatusMoves
  <2> QED
    BY <1>10, <2>2, <2>3 DEF Persist, database
<1>11. CASE MarkFailed(j, v)
  <2>1. run[j][v].pc \in HoldPCs /\ RunMoves(j, v, "idle") /\ "idle" \notin HoldPCs
    BY <1>3, <1>11 DEF MarkFailed, HoldPCs
  <2>2. CASE status' = [status EXCEPT ![v] = "failed"] /\ UNCHANGED faults
    <3>1. status'[v] = "failed" /\ \A u \in VCenters \ {v} : status'[u] = status[u]
      BY <1>1, <2>2
    <3> QED
      BY <2>1, <2>2, <3>1, StatusMoves
  <2>3. CASE Fault("db") /\ UNCHANGED status
    <3>1. faults' # 0
      BY <1>5, <2>3
    <3> QED
      BY <2>1, <2>3, <3>1, StatusMoves
  <2> QED
    BY <1>11, <2>2, <2>3 DEF MarkFailed
<1> QED
  BY <1>7, <1>8, <1>9, <1>10, <1>11 DEF RunStep

-----------------------------------------------------------------------------
(* The whole step.                                                         *)

LEMMA CollectorInit == Init => CollectorInv
<1> SUFFICES ASSUME Init PROVE CollectorInv
  OBVIOUS
<1>1. FreshRuntime /\ FreshFacts
  BY FreshIsTrue DEF Init, FreshRuntime
<1>2. /\ source = [v \in VCenters |-> 0] /\ cursor = [v \in VCenters |-> 0]
      /\ stored = [v \in VCenters |-> {}] /\ status = [v \in VCenters |-> "idle"] /\ faults = 0
  BY DEF Init
<1>3. MaxItems \in Nat /\ MaxFaults \in Nat
  BY CollectorConstants
<1>4. TypeOK
  BY <1>1, <1>2, <1>3, FreshIsTrue
     DEF FreshFacts, TypeOK, RunsOf, RunRow, JobRow, ReloadRow, WorkersOf, IngestionState, CollectorRunState
<1>5. CursorsTrue
  BY <1>1, <1>2 DEF FreshFacts, CursorsTrue
<1>6. OnlyOwnData /\ NothingSkipped
  BY <1>2 DEF OnlyOwnData, NothingSkipped, Items
<1>7. \A j \in Jobs, v \in VCenters : <<j, v>> \notin Holding
  BY <1>1 DEF FreshFacts, Holding
<1>8. StatusTracksRun
  BY <1>2, <1>7 DEF StatusTracksRun
<1> QED
  BY <1>1, <1>4, <1>5, <1>6, <1>8 DEF FreshFacts, CollectorInv, ChannelInv, RunStateIsTrue

LEMMA RestartKeeps ==
  ASSUME CollectorInv, Restart
  PROVE  CollectorInv'
<1>1. FreshRuntime' /\ UNCHANGED <<source, stored, cursor, status>>
  BY DEF Restart, FreshRuntime, database
<1>2. FreshFacts'
  BY <1>1, FreshIsTrue, PTL
<1>3. faults' \in 0 .. MaxFaults /\ faults' # 0
  BY CollectorConstants DEF Restart, Fault, CollectorInv, ChannelInv, TypeOK
<1>4. TypeOK'
  BY <1>1, <1>2, <1>3
     DEF FreshFacts, CollectorInv, ChannelInv, TypeOK, RunsOf, RunRow, JobRow, ReloadRow, WorkersOf
<1>5. CursorsTrue'
  BY <1>1, <1>2 DEF FreshFacts, CollectorInv, ChannelInv, CursorsTrue
<1>6. OnlyOwnData' /\ NothingSkipped'
  BY <1>1 DEF CollectorInv, RunStateIsTrue, OnlyOwnData, NothingSkipped
<1>7. \A j \in Jobs, v \in VCenters : <<j, v>> \notin Holding'
  BY <1>2 DEF FreshFacts, Holding
<1>8. StatusTracksRun'
  BY <1>3, <1>7 DEF StatusTracksRun
<1> QED
  BY <1>2, <1>4, <1>5, <1>6, <1>8 DEF FreshFacts, CollectorInv, ChannelInv, RunStateIsTrue

\* What is stored stays true when no batch is committed.
LEMMA DataKept ==
  ASSUME ChannelInv, OnlyOwnData, NothingSkipped, UNCHANGED <<stored, cursor>>,
         \A v \in VCenters : source[v] \in Nat /\ source'[v] \in Nat /\ source[v] <= source'[v]
  PROVE  OnlyOwnData' /\ NothingSkipped' /\ \A v \in VCenters : cursor'[v] >= cursor[v]
<1>1. \A v \in VCenters : {Item(v, n) : n \in 1 .. source[v]} \subseteq {Item(v, n) : n \in 1 .. source'[v]}
  OBVIOUS
<1>2. \A v \in VCenters : cursor[v] \in Nat
  BY TypesOf, CollectorConstants DEF ChannelInv
<1> QED
  BY <1>1, <1>2 DEF OnlyOwnData, NothingSkipped

LEMMA RunKeeps ==
  ASSUME CollectorInv, NEW j \in Jobs, NEW v \in VCenters, RunStep(j, v)
  PROVE  CollectorInv' /\ \A u \in VCenters : cursor'[u] >= cursor[u]
<1>1. ChannelInv /\ OnlyOwnData /\ NothingSkipped /\ StatusTracksRun
  BY DEF CollectorInv, RunStateIsTrue
<1>2. StatusTracksRun'
  BY <1>1, RunStatus
<1>3. CASE Persist(j, v)
  BY <1>1, <1>2, <1>3, RunPersists DEF CollectorInv, RunStateIsTrue
<1>4. CASE ~Persist(j, v)
  <2>1. ChannelInv'
    BY <1>1, <1>4, RunBegins, RunSteps, RunAsks, RunHears DEF RunStep
  <2>2. UNCHANGED <<source, stored, cursor>>
    BY <1>4 DEF RunStep, Begin, TakeLock, MarkStarted, ReadCursor, SendCollect, CollectAnswered,
                CollectLost, MarkFailed, database
  <2>3. \A u \in VCenters : source[u] \in Nat
    BY <1>1, TypesOf, CollectorConstants DEF ChannelInv
  <2>4. OnlyOwnData' /\ NothingSkipped' /\ \A u \in VCenters : cursor'[u] >= cursor[u]
    BY <1>1, <2>2, <2>3, DataKept
  <2> QED
    BY <1>2, <2>1, <2>4 DEF CollectorInv, RunStateIsTrue
<1> QED
  BY <1>3, <1>4

LEMMA OthersKeep ==
  ASSUME CollectorInv,
         \/ \E j \in Jobs : StartJob(j) \/ JobStep(j)
         \/ \E g \in Gens : Serve(g) \/ Hang(g) \/ Exit(g)
         \/ BeginReload \/ ReloadStep
         \/ \E v \in VCenters : Produce(v)
  PROVE  CollectorInv' /\ \A v \in VCenters : cursor'[v] >= cursor[v]
<1>1. ChannelInv /\ OnlyOwnData /\ NothingSkipped /\ StatusTracksRun /\ faults \in Nat
      /\ \A v \in VCenters : source[v] \in Nat
  BY TypesOf, CollectorConstants DEF CollectorInv, RunStateIsTrue, ChannelInv, TypeOK
<1> DEFINE Kept == /\ ChannelInv' /\ UNCHANGED <<stored, cursor, status>>
                   /\ faults' = 0 => faults = 0
                   /\ \A v \in VCenters : source'[v] \in Nat /\ source[v] <= source'[v]
                   /\ \A j \in Jobs, v \in VCenters : <<j, v>> \in Holding' <=> <<j, v>> \in Holding
<1>2. Kept
  <2>1. ASSUME NEW j \in Jobs, StartJob(j) \/ EndJob(j) PROVE Kept
    BY <1>1, <2>1, JobStarts DEF StartJob, EndJob, database, Holding
  <2>2. ASSUME NEW j \in Jobs, ListVCenters(j) PROVE Kept
    <3>1. UNCHANGED <<stored, cursor, status, source>> /\ (faults' = 0 => faults = 0)
      BY <1>1, <2>2 DEF ListVCenters, Fault, database
    <3> QED
      BY <1>1, <2>2, <3>1, JobLists
  <2>3. ASSUME NEW g \in Gens, Serve(g) \/ Hang(g) \/ Exit(g) PROVE Kept
    <3>1. UNCHANGED <<stored, cursor, status, source, run>> /\ (faults' = 0 => faults = 0)
      <4>1. UNCHANGED <<stored, cursor, status, source, run>>
        BY ZenonT(60), <2>3 DEF Serve, Hang, Exit, database
      <4>2. UNCHANGED faults \/ \E kind : Fault(kind)
        BY <2>3 DEF Serve, Hang, Exit
      <4> QED
        BY SMTT(30), <1>1, <4>1, <4>2 DEF Fault
    <3>2. ChannelInv'
      BY <1>1, <2>3, WorkerServes
    <3>3. \A j \in Jobs, v \in VCenters : <<j, v>> \in Holding' <=> <<j, v>> \in Holding
      BY <3>1 DEF Holding
    <3> QED
      BY <1>1, <3>1, <3>2, <3>3
  <2>4. ASSUME BeginReload \/ ReloadStep PROVE Kept
    <3>1. UNCHANGED <<stored, cursor, status, source, run, faults>>
      BY <2>4 DEF BeginReload, ReloadStep, ActivateDisabled, SendStart, StartAnswered, StartLost,
                  DrainNext, DrainPass, SendStop, StopDone, ReloadDone, Activate, database
    <3>2. ChannelInv'
      BY <1>1, <2>4, ReloadBegins, ReloadAsks, ReloadStarts, ReloadDrains, ReloadStops, ReloadIsDone
         DEF ReloadStep
    <3> QED
      BY <1>1, <3>1, <3>2 DEF Holding
  <2>5. ASSUME NEW v \in VCenters, Produce(v) PROVE Kept
    <3>1. UNCHANGED <<stored, cursor, status, run, faults>>
      BY <2>5 DEF Produce, database
    <3> QED
      BY <1>1, <2>5, <3>1, SourceGrows DEF Holding
  <2> QED
    BY <2>1, <2>2, <2>3, <2>4, <2>5 DEF JobStep
<1>3. StatusTracksRun'
  BY <1>1, <1>2, StatusKept
<1>4. OnlyOwnData' /\ NothingSkipped' /\ \A v \in VCenters : cursor'[v] >= cursor[v]
  BY <1>1, <1>2, DataKept
<1> QED
  BY <1>2, <1>3, <1>4 DEF CollectorInv, RunStateIsTrue

LEMMA CollectorStep ==
  ASSUME CollectorInv, [Next]_vars
  PROVE  CollectorInv' /\ \A v \in VCenters : cursor'[v] >= cursor[v]
<1>1. \A v \in VCenters : cursor[v] \in Nat
  BY TypesOf, CollectorConstants DEF CollectorInv, ChannelInv
<1>2. CASE UNCHANGED vars
  <2>1. UNCHANGED <<source, stored, cursor, status, registry, regs, job, run, lock, worker, reload,
                    faults>>
    BY <1>2 DEF vars, database
  <2>2. ChannelInv'
    BY <2>1 DEF CollectorInv, ChannelInv, TypeOK, JobsTrue, LocksTrue, ChannelsTrue, CursorsTrue
  <2> QED
    BY <1>1, <2>1, <2>2 DEF CollectorInv, RunStateIsTrue, OnlyOwnData, NothingSkipped,
                            StatusTracksRun, Holding
<1>3. CASE Restart
  BY <1>1, <1>3, RestartKeeps DEF Restart, database
<1> QED
  BY <1>2, <1>3, RunKeeps, OthersKeep DEF Next

THEOREM CollectorAlways == Spec => []CollectorInv
<1>1. Init => CollectorInv
  BY CollectorInit
<1>2. CollectorInv /\ [Next]_vars => CollectorInv'
  BY CollectorStep
<1> QED
  BY <1>1, <1>2, PTL DEF Spec

(* Everything the collector keeps has its type, with any number of jobs,     *)
(* vCenters and generations: in particular a job asks only workers of        *)
(* generations that exist, and the pipes carry only requests and answers.    *)
THEOREM CollectorTypes == Spec => []TypeOK
<1>1. CollectorInv => TypeOK
  BY DEF CollectorInv, ChannelInv
<1> QED
  BY <1>1, CollectorAlways, PTL

(* What is stored for a vCenter came from it, although answers are not       *)
(* matched to requests: a pipe never holds an answer that its reader did not *)
(* ask for (request, kill).                                                  *)
THEOREM OwnDataOnly == Spec => []OnlyOwnData
<1>1. CollectorInv => OnlyOwnData
  BY DEF CollectorInv
<1> QED
  BY <1>1, CollectorAlways, PTL

(* No item is skipped and the status shows whether a run collects, whatever  *)
(* faults, reloads and restarts come between the steps of a run.             *)
THEOREM RunStateTrue == Spec => []RunStateIsTrue
<1>1. CollectorInv => RunStateIsTrue
  BY DEF CollectorInv
<1> QED
  BY <1>1, CollectorAlways, PTL

(* The cursor of a vCenter never moves back: the lock of the plugin and the  *)
(* vCenter keeps reading it, collecting and committing in one run.           *)
THEOREM CursorsNeverRegress == Spec => CursorNeverRegresses
<1>1. CollectorInv /\ [Next]_vars => [\A v \in VCenters : cursor'[v] >= cursor[v]]_cursor
  BY CollectorStep
<1> QED
  BY <1>1, CollectorAlways, PTL DEF Spec, CursorNeverRegresses

-----------------------------------------------------------------------------
(* The runtime implements CollectionPromise: a run collects from where the  *)
(* status is marked until rows or failure are written.                      *)

LEMMA HeldBy ==
  ASSUME NEW rows
  PROVE  {r[2] : r \in {q \in Jobs \X VCenters : rows[q[1]][q[2]].pc \in HoldPCs}}
            = {v \in VCenters : \E j \in Jobs : rows[j][v].pc \in HoldPCs}
<1> DEFINE held == {q \in Jobs \X VCenters : rows[q[1]][q[2]].pc \in HoldPCs}
<1>1. ASSUME NEW v \in VCenters, NEW j \in Jobs, rows[j][v].pc \in HoldPCs
      PROVE  \E r \in held : r[2] = v
  <2>1. <<j, v>> \in held /\ <<j, v>>[2] = v
    BY <1>1
  <2> QED
    BY <2>1
<1>2. ASSUME NEW r \in held
      PROVE  r[2] \in VCenters /\ \E j \in Jobs : rows[j][r[2]].pc \in HoldPCs
  OBVIOUS
<1> QED
  BY <1>1, <1>2

LEMMA CollectedRuns ==
  /\ Collected = {v \in VCenters : \E j \in Jobs : run[j][v].pc \in HoldPCs}
  /\ Collected' = {v \in VCenters : \E j \in Jobs : run'[j][v].pc \in HoldPCs}
<1>1. Holding = {r \in Jobs \X VCenters : run[r[1]][r[2]].pc \in HoldPCs}
  BY DEF Holding, Runs, HoldPCs
<1>2. Holding' = {r \in Jobs \X VCenters : run'[r[1]][r[2]].pc \in HoldPCs}
  BY DEF Holding, Runs, HoldPCs
<1>3. Collected = {r[2] : r \in Holding} /\ Collected' = {r[2] : r \in Holding'}
  BY DEF Collected
<1> QED
  BY <1>1, <1>2, <1>3, HeldBy

LEMMA CollectedChanges ==
  ASSUME TypeOK, LocksTrue, NEW j \in Jobs, NEW v \in VCenters, NEW row, RunBecomes(j, v, row)
  PROVE  /\ run[j][v].pc \in HoldPCs => v \in Collected
         /\ run[j][v].pc = "locked" => v \notin Collected
         /\ row.pc \in HoldPCs => Collected' = Collected \cup {v}
         /\ row.pc \notin HoldPCs /\ run[j][v].pc \in LockPCs => Collected' = Collected \ {v}
         /\ row.pc \notin HoldPCs /\ run[j][v].pc \notin HoldPCs => Collected' = Collected
<1>1. /\ run'[j][v] = row
      /\ \A k \in Jobs, u \in VCenters : k # j \/ u # v => run'[k][u] = run[k][u]
  BY DEF RunBecomes
<1>2. ASSUME run[j][v].pc \in LockPCs, NEW k \in Jobs, k # j PROVE run[k][v].pc \notin HoldPCs
  <2>1. lock[v] = <<j, v>> /\ (run[k][v].pc \in LockPCs <=> lock[v] = <<k, v>>)
    BY <1>2 DEF LocksTrue
  <2> QED
    BY <1>2, <2>1 DEF LockPCs, HoldPCs
<1>3. /\ \A u : u \in Collected <=> u \in VCenters /\ \E k \in Jobs : run[k][u].pc \in HoldPCs
      /\ \A u : u \in Collected' <=> u \in VCenters /\ \E k \in Jobs : run'[k][u].pc \in HoldPCs
  BY CollectedRuns
<1>4. \A u : u # v => (u \in Collected' <=> u \in Collected)
  BY <1>1, <1>3
<1>5. run[j][v].pc \in HoldPCs => v \in Collected
  BY <1>3
<1>6. run[j][v].pc = "locked" => v \notin Collected
  BY <1>2, <1>3 DEF LockPCs, HoldPCs
<1>7. row.pc \in HoldPCs => v \in Collected'
  BY <1>1, <1>3
<1>8. row.pc \notin HoldPCs /\ run[j][v].pc \in LockPCs => v \notin Collected'
  BY <1>1, <1>2, <1>3
<1>9. row.pc \notin HoldPCs /\ run[j][v].pc \notin HoldPCs => (v \in Collected' <=> v \in Collected)
  BY <1>1, <1>3
<1>10. HoldPCs \subseteq LockPCs
  BY DEF HoldPCs, LockPCs
<1> QED
  BY <1>4, <1>5, <1>6, <1>7, <1>8, <1>9

LEMMA CollectedKept ==
  ASSUME \A j \in Jobs, v \in VCenters : <<j, v>> \in Holding' <=> <<j, v>> \in Holding
  PROVE  Collected' = Collected
<1>1. Holding \subseteq Jobs \X VCenters /\ Holding' \subseteq Jobs \X VCenters
  BY DEF Holding, Runs
<1>2. Holding' = Holding
  BY <1>1
<1> QED
  BY <1>2 DEF Collected

LEMMA CollectedFew ==
  /\ IsFiniteSet(Collected) /\ Cardinality(Collected) \in Nat /\ Cardinality(Holding) \in Nat
  /\ Cardinality(Collected) <= Cardinality(Holding)
<1>1. IsFiniteSet(Runs)
  BY CollectorAssumption, FS_Product DEF Runs
<1>2. IsFiniteSet(Holding)
  BY <1>1, FS_Subset DEF Holding
<1> DEFINE f == [r \in Holding |-> r[2]]
<1>3. f \in Surjection(Holding, Collected)
  <2>1. f \in [Holding -> Collected]
    BY DEF Collected
  <2>2. \A c \in Collected : \E r \in Holding : f[r] = c
    BY DEF Collected
  <2> QED
    BY <2>1, <2>2 DEF Surjection
<1> QED
  BY <1>2, <1>3, FS_Surjection, FS_CardinalityType

-----------------------------------------------------------------------------
LEMMA PromiseStutters ==
  ASSUME UNCHANGED <<source, stored, cursor, status>>, Collected' = Collected
  PROVE  UNCHANGED Promise!vars
BY DEF Promise!vars

\* A run that begins to collect, and one that fails or is refused by the database.
LEMMA PromiseRuns ==
  ASSUME CollectorInv, NEW j \in Jobs, NEW v \in VCenters,
         MarkStarted(j, v) \/ MarkFailed(j, v)
  PROVE  Promise!Begin(v) \/ Promise!Fail(v) \/ UNCHANGED Promise!vars
<1>1. TypeOK /\ LocksTrue /\ run \in RunsOf
  BY TypesOf DEF CollectorInv, ChannelInv
<1>2. CASE MarkStarted(j, v) /\ Goes(j, v, "marked")
  <2>1. /\ run[j][v].pc = "locked" /\ Cardinality(Holding) < Limit
        /\ UNCHANGED <<source, stored, cursor>>
    BY <1>2 DEF MarkStarted
  <2>2. RunBecomes(j, v, run'[j][v]) /\ run'[j][v].pc = "marked"
    BY <1>1, <1>2, RunGoes DEF RunPCs
  <2>3. v \notin Collected /\ Collected' = Collected \cup {v}
    BY <1>1, <2>1, <2>2, CollectedChanges DEF HoldPCs
  <2>4. Cardinality(Collected) < Limit
    BY <2>1, CollectedFew, CollectorConstants
  <2>5. status' = [status EXCEPT ![v] = "running"]
    <3>1. CASE status' = [status EXCEPT ![v] = "running"]
      BY <3>1
    <3>2. CASE Ends(j, v)
      BY <1>1, <2>2, <3>2, RunEnds, IdleType DEF RunBecomes
    <3> QED
      BY <1>2, <3>1, <3>2 DEF MarkStarted
  <2>6. Promise!Cardinality(Collected) = Cardinality(Collected)
    BY DEF Cardinality, Promise!Cardinality
  <2> QED
    BY <2>1, <2>3, <2>4, <2>5, <2>6 DEF Promise!Begin
<1>3. CASE MarkStarted(j, v) /\ Ends(j, v)
  <2>1. run[j][v].pc = "locked" /\ UNCHANGED <<source, stored, cursor>>
    BY <1>3 DEF MarkStarted
  <2>2. RunBecomes(j, v, Idle) /\ Idle.pc = "idle"
    BY <1>1, <1>3, RunEnds, IdleType
  <2>3. Collected' = Collected
    BY <1>1, <2>1, <2>2, CollectedChanges DEF HoldPCs
  <2>4. UNCHANGED status
    <3>1. CASE Goes(j, v, "marked")
      BY <1>1, <2>2, <3>1, RunGoes DEF RunBecomes, RunPCs
    <3> QED
      BY <1>3, <3>1 DEF MarkStarted
  <2> QED
    BY <2>1, <2>3, <2>4, PromiseStutters
<1>4. CASE MarkFailed(j, v)
  <2>1. /\ run[j][v].pc = "failing" /\ UNCHANGED <<source, stored, cursor>>
        /\ status' \in {status, [status EXCEPT ![v] = "failed"]}
    BY <1>4 DEF MarkFailed
  <2>2. RunBecomes(j, v, Idle) /\ Idle.pc = "idle"
    BY <1>1, <1>4, RunEnds, IdleType DEF MarkFailed
  <2>3. v \in Collected /\ Collected' = Collected \ {v}
    BY <1>1, <2>1, <2>2, CollectedChanges DEF HoldPCs, LockPCs
  <2> QED
    BY <2>1, <2>3 DEF Promise!Fail
<1> QED
  BY <1>2, <1>3, <1>4 DEF MarkStarted

\* Rows, cursor and status are committed together, or none of them is.
LEMMA PromiseStores ==
  ASSUME CollectorInv, NEW j \in Jobs, NEW v \in VCenters, Persist(j, v)
  PROVE  Promise!Store(v) \/ UNCHANGED Promise!vars
<1> DEFINE b == run[j][v].batch
<1>1. TypeOK /\ LocksTrue /\ run \in RunsOf
  BY TypesOf DEF CollectorInv, ChannelInv
<1>2. run[j][v].pc = "persisting"
  BY DEF Persist
<1>3. b.vc = v /\ b.from = cursor[v] /\ b.to \in cursor[v] .. source[v]
  BY <1>2 DEF CollectorInv, ChannelInv, CursorsTrue, Answers
<1>4. CASE Fault("db") /\ Goes(j, v, "failing") /\ UNCHANGED <<database, lock>>
  <2>1. RunBecomes(j, v, run'[j][v]) /\ run'[j][v].pc = "failing"
    BY <1>1, <1>4, RunGoes DEF RunPCs
  <2>2. Collected' = Collected
    <3>1. v \in Collected /\ Collected' = Collected \cup {v}
      BY <1>1, <1>2, <2>1, CollectedChanges DEF HoldPCs
    <3> QED
      BY <3>1
  <2>3. UNCHANGED <<source, stored, cursor, status>>
    BY <1>4 DEF Persist, database
  <2> QED
    BY <2>2, <2>3, PromiseStutters
<1>5. CASE /\ stored' = [stored EXCEPT ![v] = @ \cup Items(b.vc, b.from, b.to)]
           /\ \E next \in {b.to, Null} : cursor' = Advanced(v, next)
           /\ status' = [status EXCEPT ![v] = "ok"]
           /\ Ends(j, v)
  <2>1. RunBecomes(j, v, Idle) /\ Idle.pc = "idle"
    BY <1>1, <1>5, RunEnds, IdleType
  <2>2. v \in Collected /\ Collected' = Collected \ {v}
    BY <1>1, <1>2, <2>1, CollectedChanges DEF HoldPCs, LockPCs
  <2>3. Items(b.vc, b.from, b.to) = Promise!Items(v, cursor[v], b.to)
    BY <1>3, Zenon DEF Items, Item, Promise!Items
  <2>4. stored' = [stored EXCEPT ![v] = @ \cup Promise!Items(v, cursor[v], b.to)]
    BY <1>5, <2>3, Zenon
  <2>5. cursor' \in {cursor, [cursor EXCEPT ![v] = b.to]}
    BY <1>5 DEF Advanced
  <2>6. UNCHANGED source
    BY DEF Persist
  <2>7. PICK last \in cursor[v] .. source[v] : last = b.to
    BY <1>3
  <2> QED
    BY <1>5, <2>2, <2>4, <2>5, <2>6, <2>7 DEF Promise!Store
<1> QED
  BY <1>4, <1>5 DEF Persist

\* What a run does before and between leaves the promise as it is.
LEMMA PromiseWaits ==
  ASSUME CollectorInv, NEW j \in Jobs, NEW v \in VCenters,
         \/ Begin(j, v) \/ TakeLock(j, v) \/ ReadCursor(j, v) \/ SendCollect(j, v)
         \/ CollectAnswered(j, v) \/ CollectLost(j, v)
  PROVE  UNCHANGED Promise!vars
<1>1. TypeOK /\ LocksTrue /\ run \in RunsOf /\ ChannelInv
  BY TypesOf DEF CollectorInv, ChannelInv
<1>2. UNCHANGED <<source, stored, cursor, status>>
  BY DEF Begin, TakeLock, ReadCursor, SendCollect, CollectAnswered, CollectLost, database
<1>3. CASE Begin(j, v) \/ TakeLock(j, v)
  BY <1>1, <1>2, <1>3, RunBegins, CollectedKept, PromiseStutters
<1>4. ASSUME run[j][v].pc \in HoldPCs, NEW row, RunBecomes(j, v, row), row.pc \in HoldPCs
      PROVE  UNCHANGED Promise!vars
  <2>1. v \in Collected /\ Collected' = Collected \cup {v}
    BY <1>1, <1>4, CollectedChanges
  <2> QED
    BY <1>2, <2>1, PromiseStutters
<1>5. ASSUME run[j][v].pc \in HoldPCs, NEW pc \in HoldPCs, Goes(j, v, pc)
      PROVE  UNCHANGED Promise!vars
  BY <1>1, <1>4, <1>5, RunGoes DEF HoldPCs, RunPCs
<1>6. CASE SendCollect(j, v) \/ CollectLost(j, v)
  BY <1>5, <1>6 DEF SendCollect, CollectLost, HoldPCs
<1>7. CASE ReadCursor(j, v)
  <2>1. CASE Goes(j, v, "failing")
    BY <1>5, <1>7, <2>1 DEF ReadCursor, HoldPCs
  <2>2. CASE run' = [run EXCEPT ![j][v].pc = "asking", ![j][v].cur = cursor[v]]
    <3>1. run[j][v] \in RunRow /\ cursor[v] \in 0 .. MaxItems
      BY <1>1, RunFacts
    <3>2. PICK row : row = [run[j][v] EXCEPT !.pc = "asking", !.cur = cursor[v]]
      OBVIOUS
    <3>3. row \in RunRow /\ row.pc = "asking"
      BY <3>1, <3>2 DEF RunRow, RunPCs
    <3>4. run' = [run EXCEPT ![j][v] = row]
      BY <1>1, <2>2, <3>2 DEF RunsOf
    <3>5. RunBecomes(j, v, row)
      BY <1>1, <3>3, <3>4, RunSet
    <3> QED
      BY <1>4, <1>7, <3>3, <3>5 DEF ReadCursor, HoldPCs
  <2> QED
    BY <1>7, <2>1, <2>2 DEF ReadCursor
<1>8. CASE CollectAnswered(j, v)
  <2> DEFINE g == job[j].gen
  <2>1. /\ run[j][v] \in RunRow /\ run[j][v].pc = "waiting"
        /\ run' = [run EXCEPT ![j][v].batch = Answer(g),
                              ![j][v].pc = IF Answer(g).ok THEN "persisting" ELSE "failing"]
        /\ Answered(g, <<j, v>>) /\ TakeAnswer(g)
    BY <1>1, <1>8, RunFacts DEF CollectAnswered
  <2>2. Answer(g) \in Batches
    <3>1. g \in Gens /\ worker \in WorkersOf /\ OneRequest(worker[g])
      BY <1>1, <2>1, RunFacts DEF ChannelInv, ChannelsTrue
    <3> QED
      BY <2>1, <3>1, WorkerTaken DEF Answered
  <2> HIDE DEF g
  <2>3. PICK row : row = [run[j][v] EXCEPT !.batch = Answer(g),
                                           !.pc = IF Answer(g).ok THEN "persisting" ELSE "failing"]
    OBVIOUS
  <2>4. row \in RunRow /\ row.pc \in HoldPCs
    BY <2>1, <2>2, <2>3 DEF RunRow, RunPCs, HoldPCs
  <2>5. run' = [run EXCEPT ![j][v] = row]
    BY <1>1, <2>1, <2>3 DEF RunsOf
  <2>6. RunBecomes(j, v, row)
    BY <1>1, <2>4, <2>5, RunSet
  <2> QED
    BY <1>4, <2>1, <2>4, <2>6 DEF HoldPCs
<1> QED
  BY <1>3, <1>6, <1>7, <1>8

LEMMA PromiseStep ==
  ASSUME CollectorInv, [Next]_vars
  PROVE  [Promise!Next]_Promise!vars
<1>1. ASSUME NEW j \in Jobs, NEW v \in VCenters, RunStep(j, v)
      PROVE  [Promise!Next]_Promise!vars
  BY <1>1, PromiseRuns, PromiseStores, PromiseWaits DEF RunStep, Promise!Next
<1>2. ASSUME UNCHANGED <<source, stored, cursor, status>>, UNCHANGED run
      PROVE  UNCHANGED Promise!vars
  BY <1>2, PromiseStutters, CollectedKept DEF Holding
<1>3. CASE \E j \in Jobs : StartJob(j) \/ JobStep(j)
  <2>1. UNCHANGED <<source, stored, cursor, status>>
    BY <1>3 DEF StartJob, JobStep, ListVCenters, EndJob, database
  <2>2. ASSUME NEW j \in Jobs, ListVCenters(j)
        PROVE  Collected' = Collected
    <3>1. \A k \in Jobs, v \in VCenters : <<k, v>> \in Holding' <=> <<k, v>> \in Holding
      BY <2>2, JobLists DEF CollectorInv
    <3> QED
      BY <3>1, CollectedKept
  <2>3. ASSUME NEW j \in Jobs, StartJob(j) \/ EndJob(j)
        PROVE  UNCHANGED Promise!vars
    BY <1>2, <2>1, <2>3 DEF StartJob, EndJob
  <2> QED
    BY <1>3, <2>1, <2>2, <2>3, PromiseStutters DEF JobStep
<1>4. CASE \E g \in Gens : Serve(g) \/ Hang(g) \/ Exit(g)
  <2>1. UNCHANGED <<source, stored, cursor, status>> /\ UNCHANGED run
    BY <1>4 DEF Serve, Hang, Exit, database
  <2> QED
    BY <1>2, <2>1
<1>5. CASE BeginReload \/ ReloadStep
  <2>1. UNCHANGED <<source, stored, cursor, status>> /\ UNCHANGED run
    BY <1>5 DEF BeginReload, ReloadStep, ActivateDisabled, SendStart, StartAnswered, StartLost,
                DrainNext, DrainPass, SendStop, StopDone, ReloadDone, Activate, database
  <2> QED
    BY <1>2, <2>1
<1>6. ASSUME NEW v \in VCenters, Produce(v)
      PROVE  Promise!Produce(v)
  <2>1. Collected' = Collected
    BY <1>6, CollectedKept DEF Produce, Holding
  <2> QED
    BY <1>6, <2>1 DEF Produce, Promise!Produce, database
<1>7. CASE Restart
  <2>1. UNCHANGED <<source, stored, cursor, status>>
    BY <1>7 DEF Restart, database
  <2>2. \A j \in Jobs, v \in VCenters : run'[j][v].pc = "idle"
    BY <1>7 DEF Restart, Idle
  <2>3. Collected' = {}
    BY <2>2, CollectedRuns DEF HoldPCs
  <2> QED
    BY <2>1, <2>3 DEF Promise!Restart, Promise!Next
<1>8. CASE UNCHANGED vars
  BY <1>2, <1>8 DEF vars, database
<1> QED
  BY <1>1, <1>3, <1>4, <1>5, <1>6, <1>7, <1>8 DEF Next, Promise!Next

(* Every step of jobs, workers, reloads, faults and restarts is one of       *)
(* CollectionPromise or changes nothing of it: at most one collection of a   *)
(* vCenter at a time, which commits what follows the cursor, with the cursor *)
(* and the status, or nothing (run_collector_for_vcenter, _persist_batch).   *)
THEOREM CollectionImplemented == Spec => CollectsAsPromised
<1>1. Init => Promise!Init
  <2> SUFFICES ASSUME Init PROVE Promise!Init
    OBVIOUS
  <2>1. \A j \in Jobs, v \in VCenters : run[j][v].pc = "idle"
    BY DEF Init, Idle
  <2>2. Collected = {}
    BY <2>1, CollectedRuns DEF HoldPCs
  <2> QED
    BY <2>2 DEF Init, Promise!Init
<1>2. CollectorInv /\ [Next]_vars => [Promise!Next]_Promise!vars
  BY PromiseStep
<1> QED
  BY <1>1, <1>2, CollectorAlways, PTL DEF Spec, CollectsAsPromised, Promise!Spec

-----------------------------------------------------------------------------
(* Events: what a window leaves out, the next one has.                       *)

\* What is written down of time lies in the past.
Past ==
    /\ now \in Nat /\ skew \in Int
    /\ \A e \in emitted : e.at \in Int /\ e.key \in Nat /\ e.seen \in Int /\ e.seen <= now
    /\ eventCursor \in Int \cup {NoEventCursor}
    /\ promised \in Int \cup {NoEventCursor}
    /\ eventCursor # NoEventCursor => eventCursor <= now /\ promised # NoEventCursor
    /\ eventCursor = NoEventCursor => promised = NoEventCursor

\* Two events of the vCenter have two keys.
KeysDiffer ==
    /\ IsFiniteSet(emitted)
    /\ \A e \in emitted : e.key <= Cardinality(emitted)
    /\ \A d, e \in emitted : d.key = e.key => d = e

\* The window of the collection under way, by the cursor it has read.
Opened(p) == p.pc \in {"reading", "read", "storing"}
WindowTrue ==
    /\ pull \in [pc : {"idle", "connecting", "reading", "read", "storing"},
                prev : Int \cup {NoEventCursor}, since : Int, end : Int, pages : Nat,
                raw : SUBSET emitted, next : Int \cup {NoEventCursor}]
    /\ pull.pc # "idle" => pull.prev = eventCursor
    /\ kept \subseteq emitted
    /\ Opened(pull) =>
          /\ pull.end <= now
          /\ pull.since = WindowStart(pull.prev, pull.end)
          /\ \A e \in pull.raw : e.at <= pull.end

\* What of the window was not read is newer than all that was, or so late that
\* the next window has it.
NoHole ==
    Opened(pull) =>
        \A e \in emitted :
            pull.since <= e.at /\ e.at <= pull.end /\ InTime(e) =>
                \/ e \in pull.raw
                \/ \A r \in pull.raw : Older(r, e)
                \/ e.at >= pull.end - Overlap

\* What the cursor will be.
NextTrue ==
    pull.pc = "storing" =>
        /\ pull.next \in Int /\ pull.next <= now
        /\ Batch # {} => /\ \E e \in Batch : pull.next = e.at
                         /\ \A e \in Batch : e.at <= pull.next
        /\ Batch = {} /\ pull.prev # NoEventCursor => pull.next = pull.prev

\* Before the window is open nothing was read.
NothingRead == pull.pc \in {"idle", "connecting"} => pull.raw = {}

EventsInv ==
    /\ Past /\ KeysDiffer /\ WindowTrue /\ NothingRead
    /\ NoHole /\ NextTrue /\ NoEventMissed

-----------------------------------------------------------------------------
\* The constants, as the proofs use them.
LEMMA EventConstants ==
    /\ Overlap \in Nat /\ Lookback \in Nat
    /\ NoEventCursor \notin Int
    /\ \A s \in Skews : s \in Int
    /\ \A d \in Delays : d \in Nat
  BY EventCollectionAssumption DEF EventCollectionAssumption

LEMMA InvInit == EventsInit => EventsInv
  <1> SUFFICES ASSUME EventsInit PROVE EventsInv
    OBVIOUS
  <1>1. Past
    BY EventConstants DEF EventsInit, Past
  <1>2. KeysDiffer
    BY FS_EmptySet DEF EventsInit, KeysDiffer
  <1>3. WindowTrue /\ NothingRead
    BY DEF EventsInit, WindowTrue, NoPull, Opened, NothingRead
  <1>4. NoHole /\ NextTrue /\ NoEventMissed
    BY DEF EventsInit, NoHole, NextTrue, NoEventMissed, NoPull, Opened
  <1> QED BY <1>1, <1>2, <1>3, <1>4 DEF EventsInv

\* Time passes.
LEMMA InvTick == EventsInv /\ Tick => EventsInv'
  <1> SUFFICES ASSUME EventsInv, Tick PROVE EventsInv'
    OBVIOUS
  <1> USE EventConstants DEF EventsInv, Tick
  <1>1. Past'
    BY DEF Past
  <1>2. KeysDiffer'
    BY DEF KeysDiffer
  <1>3. WindowTrue' /\ NothingRead'
    BY DEF WindowTrue, Past, Opened, WindowStart, NothingRead
  <1>4. NoHole' /\ NoEventMissed'
    BY DEF NoHole, Opened, NoEventMissed, InTime, Older
  <1>5. NextTrue'
    BY DEF NextTrue, Past, Batch, Keyed
  <1> QED BY <1>1, <1>2, <1>3, <1>4, <1>5

\* An event that is readable in time is no older than the overlap, and neither
\* a cursor nor the end of a window is in the future.
LEMMA InvEmitted ==
    ASSUME NEW delay \in Delays, NEW flaw \in Flaws \cup {"none"},
           EventsInv, EventEmitted(delay, flaw)
    PROVE  EventsInv'
  <1> DEFINE new == [key |-> Cardinality(emitted) + 1, at |-> now + skew - delay,
                     seen |-> now, flaw |-> flaw]
  <1>1. /\ emitted' = emitted \cup {new}
        /\ UNCHANGED <<now, skew, kept, deleted, eventCursor, promised, pull>>
    BY DEF EventEmitted
  <1>2. Past /\ KeysDiffer /\ WindowTrue /\ NothingRead
        /\ NoHole /\ NextTrue /\ NoEventMissed
    BY DEF EventsInv
  <1>3. Cardinality(emitted) \in Nat
    BY <1>2, FS_CardinalityType DEF KeysDiffer
  <1>4. new.at \in Int /\ new.key = Cardinality(emitted) + 1 /\ new.seen = now
    BY <1>2, EventConstants DEF Past
  <1>5. \A e \in emitted : e.key # new.key
    BY <1>2, <1>3, <1>4 DEF KeysDiffer, Past
  <1> HIDE DEF new
  <1>6. Past'
    BY <1>1, <1>2, <1>3, <1>4 DEF Past
  <1>7. KeysDiffer'
    <2>1. new \notin emitted
      BY <1>5
    <2>2. IsFiniteSet(emitted') /\ Cardinality(emitted') = Cardinality(emitted) + 1
      BY <1>1, <1>2, <2>1, FS_AddElement DEF KeysDiffer
    <2>3. \A e \in emitted : e.key \in Nat /\ e.key <= Cardinality(emitted)
      BY <1>2 DEF KeysDiffer, Past
    <2>4. \A e \in emitted' : e.key <= Cardinality(emitted')
      BY <1>1, <1>3, <1>4, <2>2, <2>3
    <2>5. \A d, e \in emitted' : d.key = e.key => d = e
      BY <1>1, <1>2, <1>5 DEF KeysDiffer
    <2> QED BY <2>2, <2>4, <2>5 DEF KeysDiffer
  <1>8. WindowTrue' /\ NothingRead'
    BY <1>1, <1>2 DEF WindowTrue, Opened, WindowStart, NothingRead
  <1>9. InTime(new) => new.at >= now - Overlap
    BY <1>2, <1>4, EventConstants DEF InTime, Past
  <1>10. NoHole'
    <2> SUFFICES ASSUME Opened(pull), NEW e \in emitted',
                        pull.since <= e.at, e.at <= pull.end, InTime(e)
                 PROVE  \/ e \in pull.raw
                        \/ \A r \in pull.raw : Older(r, e)
                        \/ e.at >= pull.end - Overlap
      BY <1>1 DEF NoHole, Opened, InTime, Older
    <2>1. CASE e \in emitted
      BY <1>2, <2>1 DEF NoHole
    <2>2. CASE e = new
      BY <1>2, <1>4, <1>9, <2>2, EventConstants DEF WindowTrue, Past
    <2> QED BY <1>1, <2>1, <2>2
  <1>11. NextTrue'
    BY <1>1, <1>2 DEF NextTrue, Batch, Keyed
  <1>12. NoEventMissed'
    <2> SUFFICES ASSUME eventCursor # NoEventCursor, NEW e \in emitted',
                        e.at >= promised, e.at < eventCursor - Overlap, InTime(e), Keyed(e)
                 PROVE  e \in kept \cup deleted
      BY <1>1 DEF NoEventMissed, InTime, Keyed
    <2>1. CASE e \in emitted
      BY <1>2, <2>1 DEF NoEventMissed
    <2>2. CASE e = new
      BY <1>2, <1>4, <1>9, <2>2, EventConstants DEF Past
    <2> QED BY <1>1, <2>1, <2>2
  <1> QED BY <1>6, <1>7, <1>8, <1>10, <1>11, <1>12 DEF EventsInv

\* A collection that ends without storing leaves everything as it was.
LEMMA InvGivenUp ==
    ASSUME EventsInv, pull' = NoPull,
           UNCHANGED <<now, skew, emitted, kept, deleted, eventCursor, promised>>
    PROVE  EventsInv'
  <1>1. Past' /\ KeysDiffer' /\ NoEventMissed'
    BY DEF EventsInv, Past, KeysDiffer, NoEventMissed, InTime, Keyed
  <1>2. WindowTrue' /\ NoHole' /\ NextTrue' /\ NothingRead'
    BY DEF EventsInv, WindowTrue, NoHole, NextTrue, NoPull, Opened, NothingRead
  <1> QED BY <1>1, <1>2 DEF EventsInv

\* What a step of a collection leaves alone.
LEMMA Untouched ==
    ASSUME EventsInv, UNCHANGED <<now, skew, emitted, kept, deleted, eventCursor, promised>>
    PROVE  Past' /\ KeysDiffer' /\ NoEventMissed'
  BY DEF EventsInv, Past, KeysDiffer, NoEventMissed, InTime, Keyed

LEMMA InvBegin == EventsInv /\ BeginPull => EventsInv'
  <1> SUFFICES ASSUME EventsInv, BeginPull PROVE EventsInv'
    OBVIOUS
  <1>1. Past' /\ KeysDiffer' /\ NoEventMissed'
    BY Untouched DEF BeginPull
  <1>2. /\ pull' = [NoPull EXCEPT !.pc = "connecting", !.prev = eventCursor]
        /\ eventCursor' = eventCursor /\ kept' = kept /\ emitted' = emitted
        /\ eventCursor \in Int \cup {NoEventCursor} /\ kept \subseteq emitted
    BY DEF EventsInv, BeginPull, Past, WindowTrue
  <1>3. pull' = [pc |-> "connecting", prev |-> eventCursor, since |-> 0, end |-> 0,
                 pages |-> 0, raw |-> {}, next |-> NoEventCursor]
    BY <1>2 DEF NoPull
  <1>4. WindowTrue'
    BY <1>2, <1>3 DEF WindowTrue, Opened
  <1>5. NoHole' /\ NextTrue' /\ NothingRead'
    BY <1>3 DEF NoHole, NextTrue, Opened, NothingRead
  <1> QED BY <1>1, <1>4, <1>5 DEF EventsInv

LEMMA InvOpen == EventsInv /\ OpenWindow => EventsInv'
  <1> SUFFICES ASSUME EventsInv, OpenWindow PROVE EventsInv'
    OBVIOUS
  <1>1. Past' /\ KeysDiffer' /\ NoEventMissed'
    BY Untouched DEF OpenWindow
  <1>2. pull.raw = {}
    BY DEF EventsInv, OpenWindow, NothingRead
  <1> DEFINE since == WindowStart(pull.prev, now)
  <1>3. /\ pull' = [pull EXCEPT !.pc = "reading", !.end = now, !.since = since]
        /\ now' = now /\ kept' = kept /\ emitted' = emitted /\ eventCursor' = eventCursor
        /\ now \in Int /\ WindowTrue /\ pull.pc = "connecting"
    BY DEF EventsInv, OpenWindow, Past
  <1>4. since \in Int
    BY <1>3, EventConstants DEF WindowTrue, WindowStart
  <1>5. pull'.since = WindowStart(pull'.prev, pull'.end)
    BY <1>3 DEF WindowTrue
  <1> HIDE DEF since
  <1>6. /\ pull'.pc = "reading" /\ pull'.end = now /\ pull'.prev = pull.prev /\ pull'.raw = {}
        /\ pull.prev = eventCursor
        /\ pull' \in [pc : {"idle", "connecting", "reading", "read", "storing"},
                      prev : Int \cup {NoEventCursor}, since : Int, end : Int, pages : Nat,
                      raw : SUBSET emitted, next : Int \cup {NoEventCursor}]
    BY <1>2, <1>3, <1>4 DEF WindowTrue
  <1>7. WindowTrue' /\ NothingRead'
    BY <1>3, <1>5, <1>6 DEF WindowTrue, NothingRead, Opened
  <1>8. NoHole' /\ NextTrue'
    BY <1>6 DEF NoHole, NextTrue
  <1> QED BY <1>1, <1>7, <1>8 DEF EventsInv

\* A page takes the oldest of what is ahead, so what stays ahead is newer.
LEMMA InvRead == EventsInv /\ ReadPage => EventsInv'
  <1> SUFFICES ASSUME EventsInv, ReadPage PROVE EventsInv'
    OBVIOUS
  <1>1. Past' /\ KeysDiffer' /\ NoEventMissed'
    BY Untouched DEF ReadPage
  <1>2. PICK page \in SUBSET Ahead :
           /\ IsPage(page)
           /\ pull' = IF pull.pages = MaxPages \/ page = {} THEN [pull EXCEPT !.pc = "read"]
                      ELSE [pull EXCEPT !.pages = @ + 1, !.raw = @ \cup page]
    BY DEF ReadPage
  <1>3. pull.pc = "reading" /\ emitted' = emitted /\ now' = now /\ eventCursor' = eventCursor
        /\ kept' = kept
    BY DEF ReadPage
  <1>4. CASE pull' = [pull EXCEPT !.pc = "read"]
    <2>1. WindowTrue' /\ NothingRead'
      BY <1>3, <1>4 DEF EventsInv, WindowTrue, Opened, WindowStart, NothingRead
    <2>2. NoHole' /\ NextTrue'
      BY <1>3, <1>4 DEF EventsInv, WindowTrue, Opened, NoHole, NextTrue, InTime, Older
    <2> QED BY <1>1, <2>1, <2>2 DEF EventsInv
  <1>5. CASE pull' = [pull EXCEPT !.pages = @ + 1, !.raw = @ \cup page]
    <2>1. /\ pull'.raw = pull.raw \cup page /\ pull'.since = pull.since /\ pull'.end = pull.end
          /\ pull'.pc = "reading"
      BY <1>3, <1>5 DEF EventsInv, WindowTrue
    <2>2. page \subseteq emitted /\ \A e \in page : e.at <= pull.end
      BY DEF Ahead
    <2>3. WindowTrue' /\ NothingRead'
      <3> DEFINE raw == pull.raw \cup page
                 pages == pull.pages + 1
      <3>1. raw \in SUBSET emitted /\ pages \in Nat /\ WindowTrue
        BY <2>2 DEF EventsInv, WindowTrue
      <3>2. pull' = [pull EXCEPT !.pages = pages, !.raw = raw]
        BY <1>5
      <3> HIDE DEF raw, pages
      <3>3. /\ pull'.prev = pull.prev
            /\ pull' \in [pc : {"idle", "connecting", "reading", "read", "storing"},
                          prev : Int \cup {NoEventCursor}, since : Int, end : Int, pages : Nat,
                          raw : SUBSET emitted, next : Int \cup {NoEventCursor}]
        BY <3>1, <3>2 DEF WindowTrue
      <3> QED BY <1>3, <2>1, <2>2, <3>1, <3>3 DEF WindowTrue, Opened, NothingRead
    <2>4. NoHole'
      <3> SUFFICES ASSUME NEW e \in emitted, pull.since <= e.at, e.at <= pull.end, InTime(e),
                          e \notin pull.raw \cup page, ~ (e.at >= pull.end - Overlap)
                   PROVE  \A r \in pull.raw \cup page : Older(r, e)
        BY <1>3, <2>1 DEF NoHole, InTime, Older, Opened
      <3>1. \A r \in pull.raw : Older(r, e)
        BY <1>3 DEF EventsInv, NoHole, Opened
      <3>2. e \in Ahead \ page
        BY <3>1 DEF Ahead
      <3>3. \A d \in page : Older(d, e)
        BY <1>2, <3>2 DEF IsPage
      <3> QED BY <3>1, <3>3
    <2>5. NextTrue'
      BY <2>1 DEF NextTrue
    <2> QED BY <1>1, <2>3, <2>4, <2>5 DEF EventsInv
  <1> QED BY <1>2, <1>4, <1>5

LEMMA InvCheck == EventsInv /\ CheckBatch => EventsInv'
  <1> SUFFICES ASSUME EventsInv, CheckBatch PROVE EventsInv'
    OBVIOUS
  <1>1. CASE pull' = NoPull
    BY <1>1, InvGivenUp DEF CheckBatch
  <1>2. CASE pull' # NoPull
    <2>1. Past' /\ KeysDiffer' /\ NoEventMissed'
      BY Untouched DEF CheckBatch
    <2>2. PICK next \in {e.at : e \in emitted} \cup {eventCursor, pull.end, now} :
             /\ NextCursor(Batch, next)
             /\ pull' = [pull EXCEPT !.pc = "storing", !.next = next]
      BY <1>2 DEF CheckBatch
    <2>3. pull.pc = "read" /\ emitted' = emitted /\ now' = now /\ eventCursor' = eventCursor
          /\ kept' = kept
      BY DEF CheckBatch
    <2>4. Batch \subseteq emitted /\ \A e \in Batch : e.at \in Int /\ e.at <= pull.end
      BY <2>3 DEF EventsInv, WindowTrue, Batch, Opened, Past
    <2>5. pull.prev # NoEventCursor => pull.prev \in Int /\ pull.prev <= now
      BY <2>3 DEF EventsInv, WindowTrue, Past
    <2>6. next \in Int /\ next <= now
      BY <2>2, <2>3, <2>4, <2>5 DEF NextCursor, EventsInv, WindowTrue, Past, Opened
    <2>7. /\ pull'.raw = pull.raw /\ pull'.since = pull.since /\ pull'.end = pull.end
          /\ pull'.pc = "storing" /\ pull'.next = next /\ pull'.prev = pull.prev
      BY <2>2 DEF EventsInv, WindowTrue
    <2>8. WindowTrue' /\ NothingRead'
      BY <2>2, <2>3, <2>6 DEF EventsInv, WindowTrue, Opened, WindowStart, NothingRead
    <2>9. NoHole'
      BY <2>3, <2>7 DEF EventsInv, NoHole, Opened, InTime, Older
    <2>10. NextTrue'
      <3>1. Batch' = Batch
        BY <2>7 DEF Batch, Keyed
      <3> QED BY <2>2, <2>3, <2>6, <2>7, <3>1 DEF NextTrue, NextCursor
    <2> QED BY <2>1, <2>8, <2>9, <2>10 DEF EventsInv
  <1> QED BY <1>1, <1>2

\* The cursor moves to the latest event of the batch: what is older by more than
\* the overlap was in the batch, or was there before.
LEMMA InvStore == EventsInv /\ StoreBatch => EventsInv'
  <1> SUFFICES ASSUME EventsInv, StoreBatch PROVE EventsInv'
    OBVIOUS
  <1>1. /\ pull.pc = "storing" /\ pull' = NoPull /\ eventCursor' = pull.next
        /\ kept' = kept \cup {e \in Batch : ~ \E k \in kept : k.key = e.key}
        /\ promised' = IF promised # NoEventCursor THEN promised
                       ELSE IF Batch = {} THEN pull.next - Overlap ELSE pull.since
        /\ now' = now /\ skew' = skew /\ emitted' = emitted /\ deleted' = deleted
    BY DEF StoreBatch
  <1>2. Past /\ KeysDiffer /\ WindowTrue /\ NothingRead
        /\ NoHole /\ NextTrue /\ NoEventMissed
    BY DEF EventsInv
  <1>3. pull.next \in Int /\ pull.next <= now /\ pull.since \in Int
    BY <1>1, <1>2 DEF NextTrue, WindowTrue
  <1>4. Past'
    BY <1>1, <1>2, <1>3, EventConstants DEF Past
  <1>5. KeysDiffer'
    BY <1>1, <1>2 DEF KeysDiffer
  <1>6. WindowTrue' /\ NoHole' /\ NextTrue' /\ NothingRead'
    BY <1>1, <1>2 DEF WindowTrue, NoHole, NextTrue, NoPull, Opened, Batch, NothingRead
  <1>7. Batch \subseteq kept'
    BY <1>1, <1>2 DEF WindowTrue, KeysDiffer, Batch
  <1>8. NoEventMissed'
    <2> SUFFICES ASSUME NEW e \in emitted, e.at >= promised', e.at < pull.next - Overlap,
                        InTime(e), Keyed(e)
                 PROVE  e \in kept' \cup deleted
      BY <1>1 DEF NoEventMissed, InTime, Keyed
    <2>1. e.at \in Int
      BY <1>2 DEF Past
    <2>2. CASE pull.since <= e.at
      <3>1. CASE Batch = {}
        <4>1. pull.prev = NoEventCursor => promised' = pull.next - Overlap
          BY <1>1, <1>2, <3>1 DEF WindowTrue, Past
        <4>2. pull.prev # NoEventCursor => e \in kept \cup deleted
          BY <1>1, <1>2, <3>1 DEF WindowTrue, Past, NextTrue, NoEventMissed
        <4> QED BY <1>1, <1>3, <2>1, <4>1, <4>2, EventConstants
      <3>2. CASE Batch # {}
        <4>1. PICK last \in Batch : pull.next = last.at
          BY <1>1, <1>2, <3>2 DEF NextTrue
        <4>2. last \in pull.raw /\ last.at <= pull.end /\ last.at \in Int /\ pull.end \in Int
          BY <1>1, <1>2 DEF WindowTrue, Batch, Opened, Past
        <4>3. e.at <= pull.end /\ ~ (e.at >= pull.end - Overlap)
          BY <2>1, <4>1, <4>2, EventConstants
        <4>4. ~ Older(last, e)
          BY <2>1, <4>1, <4>2, EventConstants DEF Older
        <4>5. e \in pull.raw
          BY <1>1, <1>2, <2>2, <4>2, <4>3, <4>4 DEF NoHole, Opened
        <4> QED BY <1>7, <4>5 DEF Batch
      <3> QED BY <3>1, <3>2
    <2>3. CASE ~ (pull.since <= e.at)
      <3>1. promised # NoEventCursor /\ promised' = promised
        <4>1. CASE promised = NoEventCursor
          <5>1. eventCursor = NoEventCursor /\ pull.prev = NoEventCursor
            BY <1>1, <1>2, <4>1 DEF Past, WindowTrue
          <5>2. Batch = {}
            BY <1>1, <1>3, <2>1, <2>3, <4>1
          <5> QED BY <1>1, <1>3, <2>1, <4>1, <5>2, EventConstants
        <4> QED BY <1>1, <4>1
      <3>2. pull.prev = eventCursor /\ eventCursor # NoEventCursor /\ eventCursor \in Int
        BY <1>1, <1>2, <3>1 DEF Past, WindowTrue
      <3>3. pull.since = eventCursor - Overlap
        BY <1>1, <1>2, <3>2 DEF WindowTrue, Opened, WindowStart
      <3>4. e.at < eventCursor - Overlap
        BY <1>3, <2>1, <2>3, <3>2, <3>3, EventConstants
      <3> QED BY <1>1, <1>2, <3>1, <3>2, <3>4 DEF NoEventMissed
    <2> QED BY <2>2, <2>3
  <1> QED BY <1>4, <1>5, <1>6, <1>8 DEF EventsInv

LEMMA InvPurge == EventsInv /\ PurgeEvents => EventsInv'
  <1> SUFFICES ASSUME EventsInv, PurgeEvents PROVE EventsInv'
    OBVIOUS
  <1>1. /\ kept' \cup deleted' = kept \cup deleted /\ kept' \subseteq kept
        /\ UNCHANGED <<now, skew, emitted, eventCursor, promised, pull>>
    BY DEF PurgeEvents
  <1>2. Past' /\ KeysDiffer' /\ NoEventMissed'
    BY <1>1 DEF EventsInv, Past, KeysDiffer, NoEventMissed, InTime, Keyed
  <1>3. WindowTrue' /\ NoHole' /\ NextTrue' /\ NothingRead'
    BY <1>1 DEF EventsInv, WindowTrue, NoHole, NextTrue, Opened, WindowStart, InTime, Older,
       Batch, Keyed, NothingRead
  <1> QED BY <1>2, <1>3 DEF EventsInv

LEMMA EventsInv_Always == EventsSpec => []EventsInv
  <1>1. EventsInv /\ [EventsNext]_eventVars => EventsInv'
    <2> SUFFICES ASSUME EventsInv, [EventsNext]_eventVars PROVE EventsInv'
      OBVIOUS
    <2>1. CASE Tick
      BY <2>1, InvTick
    <2>2. CASE PurgeEvents
      BY <2>2, InvPurge
    <2>3. CASE \E delay \in Delays, flaw \in Flaws \cup {"none"} : EventEmitted(delay, flaw)
      BY <2>3, InvEmitted
    <2>4. CASE BeginPull
      BY <2>4, InvBegin
    <2>5. CASE OpenWindow
      BY <2>5, InvOpen
    <2>6. CASE ReadPage
      BY <2>6, InvRead
    <2>7. CASE CheckBatch
      BY <2>7, InvCheck
    <2>8. CASE StoreBatch
      BY <2>8, InvStore
    <2>9. CASE ConnectionFails
      BY <2>9, InvGivenUp DEF ConnectionFails
    <2>10. CASE PullFails
      BY <2>10, InvGivenUp DEF PullFails
    <2>11. CASE UNCHANGED eventVars
      <3>1. Past' /\ KeysDiffer' /\ NoEventMissed'
        BY <2>11, Untouched DEF eventVars
      <3>2. WindowTrue' /\ NoHole' /\ NextTrue' /\ NothingRead'
        BY <2>11 DEF eventVars, EventsInv, WindowTrue, NoHole, NextTrue, Opened, WindowStart,
           InTime, Older, Batch, Keyed, NothingRead
      <3> QED BY <3>1, <3>2 DEF EventsInv
    <2> QED BY <2>1, <2>2, <2>3, <2>4, <2>5, <2>6, <2>7, <2>8, <2>9, <2>10, <2>11 DEF EventsNext
  <1> QED BY InvInit, <1>1, PTL DEF EventsSpec

\* EventsInv is an invariant, and with it NoEventMissed: what a cursor has left
\* behind was stored, for every difference of the clocks and every length.
THEOREM NothingIsMissed == EventsSpec => []NoEventMissed
  <1>1. EventsInv => NoEventMissed
    BY DEF EventsInv
  <1> QED BY EventsInv_Always, <1>1, PTL

-----------------------------------------------------------------------------
(* Scores: who changes a rule, and who inserts events by it, knows the rule  *)
(* as it is, or knows that it was overtaken.                                 *)

\* Functions from some of the event types.
Partial(V) == UNION {[S -> V] : S \in SUBSET EventTypes}
MaybeRule == {NoRule} \cup EventScoreRule
ReadEdits ==
    [phase : {"read"}, verb : {"create", "patch", "delete", "import"}, file : Partial(Int),
     overwrite : BOOLEAN, remove : BOOLEAN, found : Partial(MaybeRule), overtaken : SUBSET EventTypes]
LockedEdits ==
    [phase : Locking, verb : {"create", "patch", "delete", "import"}, writes : Partial(MaybeRule),
     deltas : Partial(Int), dirty : SUBSET (1 .. MaxScored), overtaken : SUBSET EventTypes]
ScoreBatches == [open : BOOLEAN, deltas : [EventTypes -> Int], overtaken : SUBSET EventTypes]

ScoresShaped ==
    /\ ScoresTypeOK /\ ruleId \in 0 .. MaxRuleId
    /\ edits \in [Editors -> {NoEdit} \cup ReadEdits \cup LockedEdits]
    /\ batch \in ScoreBatches
    /\ IsFiniteSet(scored)

DeltaOf(rule) == IF rule = NoRule THEN 0 ELSE rule.delta

\* A request that has not written knows the rules (R) of its file, and its verb
\* says which of them there were.
ReadTrue(q, R) ==
    /\ DOMAIN q.found = DOMAIN q.file
    /\ q.verb # "delete" => \A t \in DOMAIN q.file : q.file[t] \in ScoreDeltas
    /\ q.verb = "create" => \A t \in DOMAIN q.file : q.found[t] = NoRule
    /\ q.verb = "patch" => q.overwrite /\ \A t \in DOMAIN q.file : q.found[t] # NoRule
    /\ q.verb = "delete" => ~ q.overwrite /\ \A t \in DOMAIN q.file : q.found[t] # NoRule /\ q.file[t] = 0
    /\ q.verb # "import" => ~ q.remove
    /\ \A t \in DOMAIN q.file \ q.overtaken : q.found[t] = R[t]

\* A transaction rescores every type it writes, by the rule there is afterwards.
LoadedTrue(x, R) ==
    /\ DOMAIN x.writes \subseteq DOMAIN x.deltas
    /\ \A t \in DOMAIN x.writes : x.deltas[t] = DeltaOf(x.writes[t])
    /\ \A t \in DOMAIN x.deltas \ (x.overtaken \cup DOMAIN x.writes) : x.deltas[t] = DeltaOf(R[t])

\* Of the stored events, it has read those whose score is not by its deltas.
ScannedTrue(x, rows) ==
    \A e \in rows : e.type \in DOMAIN x.deltas \ x.overtaken =>
        e.key \in x.dirty \/ e.score = FinalScore(e, x.deltas[e.type])

EditTrue(w, R, rows) ==
    /\ w.phase = "read" => ReadTrue(w, R)
    /\ w.phase \in {"loaded", "scanned"} => LoadedTrue(w, R)
    /\ w.phase = "scanned" => ScannedTrue(w, rows)

BatchTrue(b, R) == b.open => \A t \in EventTypes \ b.overtaken : b.deltas[t] = DeltaOf(R[t])

\* Every stored score is the base score and the delta of the rule.
Follows(rows, t, R) == \A e \in rows : e.type = t => e.score = FinalScore(e, DeltaOf(R[t]))

ScoresInv ==
    /\ ScoresShaped
    /\ \A p \in Editors : EditTrue(edits[p], scoreRules, scored)
    /\ BatchTrue(batch, scoreRules)
    /\ \A t \in EventTypes \ disturbed : Follows(scored, t, scoreRules)

LEMMA PartialOut ==
    ASSUME NEW V, NEW f \in Partial(V)
    PROVE  /\ DOMAIN f \subseteq EventTypes
           /\ \A t \in DOMAIN f : f[t] \in V
  BY DEF Partial

LEMMA PartialIn ==
    ASSUME NEW V, NEW S \in SUBSET EventTypes, NEW f \in [S -> V]
    PROVE  f \in Partial(V) /\ DOMAIN f = S
  BY DEF Partial

LEMMA DeltaInt ==
    ASSUME NEW r \in MaybeRule PROVE DeltaOf(r) \in Int
  <1>1. ASSUME NEW x \in EventScoreRule PROVE x.delta \in Int
    BY <1>1, ScoreRulesAssumption DEF EventScoreRule
  <1> QED BY <1>1 DEF MaybeRule, DeltaOf

\* The map of all deltas says of each type what its rule says.
LEMMA DeltaMapFacts ==
    ASSUME NEW R \in [EventTypes -> MaybeRule]
    PROVE  /\ DeltaMap(R) \in [EventTypes -> Int]
           /\ \A t \in EventTypes : DeltaMap(R)[t] = DeltaOf(R[t])
  <1>1. \A t \in EventTypes : DeltaMap(R)[t] = DeltaOf(R[t])
    BY DEF DeltaMap, DeltaOf
  <1>2. \A t \in EventTypes : DeltaOf(R[t]) \in Int
    BY DeltaInt
  <1> QED BY <1>1, <1>2 DEF DeltaMap

LEMMA ClampRange == ASSUME NEW n \in Int PROVE Clamp(n) \in 0 .. 100
  BY DEF Clamp

LEMMA FinalRange ==
    ASSUME NEW e, NEW d \in Int PROVE FinalScore(e, d) \in 0 .. 100
  <1>1. SeverityWeight(e.severity) \in Int
    BY DEF SeverityWeight
  <1>2. BaseScore(e.type, e.severity, e.keyword) \in Int
    BY <1>1 DEF BaseScore
  <1> QED BY <1>2, ClampRange DEF FinalScore

\* The lists that score anew show what is stored.
LEMMA ScoresInv_Follows == ScoresInv => ScoresFollowRules
  <1> SUFFICES ASSUME ScoresInv, NEW t \in EventTypes \ disturbed
               PROVE  /\ \A e \in scored : e.type = t => e.score = FinalScore(e, DeltaMap(scoreRules)[t])
                      /\ ShownMax(t) = Max({0} \cup {e.score : e \in {x \in scored : x.type = t}})
    BY DEF ScoresFollowRules
  <1> PICK d : d = DeltaMap(scoreRules)[t]
    OBVIOUS
  <1>1. d = DeltaOf(scoreRules[t])
    BY DeltaMapFacts DEF ScoresInv, ScoresShaped, ScoresTypeOK, MaybeRule
  <1>2. \A e \in scored : e.type = t => e.score = FinalScore(e, d)
    BY <1>1 DEF ScoresInv, Follows
  <1> PICK rows : rows = {x \in scored : x.type = t}
    OBVIOUS
  <1> PICK inputs : inputs = {[type |-> t, severity |-> e.severity, keyword |-> e.keyword] : e \in rows}
    OBVIOUS
  <1>3. \A e \in rows : FinalScore([type |-> t, severity |-> e.severity, keyword |-> e.keyword], d) = e.score
    BY <1>2 DEF FinalScore
  <1>4. {FinalScore(i, d) : i \in inputs} = {e.score : e \in rows}
    <2>1. ASSUME NEW i \in inputs PROVE \E e \in rows : FinalScore(i, d) = e.score
      BY <2>1, <1>3
    <2>2. ASSUME NEW e \in rows PROVE \E i \in inputs : FinalScore(i, d) = e.score
      BY <2>2, <1>3
    <2> HIDE <1>3
    <2> QED BY <2>1, <2>2
  <1>5. ShownMax(t) = Max({0} \cup {FinalScore(i, d) : i \in inputs})
    BY DEF ShownMax
  <1> QED BY <1>2, <1>4, <1>5

LEMMA ScoresInv_Init == ScoresInit => ScoresInv
  <1> SUFFICES ASSUME ScoresInit PROVE ScoresInv
    OBVIOUS
  <1>1. NoEdit.phase = "none"
    BY DEF NoEdit
  <1>2. NoBatchOpen \in ScoreBatches /\ ~ NoBatchOpen.open
    BY DEF NoBatchOpen, ScoreBatches
  <1>3. edits \in [Editors -> {NoEdit} \cup ReadEdits \cup LockedEdits]
    BY DEF ScoresInit
  <1>4. ScoresTypeOK /\ ruleId \in 0 .. MaxRuleId
    BY ScoreRulesAssumption DEF ScoresInit, ScoresTypeOK
  <1>5. \A p \in Editors : EditTrue(edits[p], scoreRules, scored)
    BY <1>1 DEF ScoresInit, EditTrue
  <1>6. \A t \in EventTypes \ disturbed : Follows(scored, t, scoreRules)
    BY DEF ScoresInit, Follows
  <1>7. IsFiniteSet(scored)
    BY FS_EmptySet DEF ScoresInit
  <1> QED BY <1>2, <1>3, <1>4, <1>5, <1>6, <1>7 DEF ScoresInv, ScoresShaped, ScoresInit, BatchTrue

-----------------------------------------------------------------------------
LEMMA ReadDeltas_Keeps ==
    ASSUME ScoresInv, ReadDeltas PROVE ScoresInv'
  <1>1. batch' = [open |-> TRUE, deltas |-> DeltaMap(scoreRules), overtaken |-> {}]
        /\ UNCHANGED <<scoreRules, ruleId, scored, edits, disturbed>>
    BY DEF ReadDeltas
  <1>2. /\ DeltaMap(scoreRules) \in [EventTypes -> Int]
        /\ \A t \in EventTypes : DeltaMap(scoreRules)[t] = DeltaOf(scoreRules[t])
    BY DeltaMapFacts DEF ScoresInv, ScoresShaped, ScoresTypeOK, MaybeRule
  <1>3. batch' \in ScoreBatches
    BY <1>1, <1>2 DEF ScoreBatches
  <1>4. BatchTrue(batch, scoreRules)'
    BY <1>1, <1>2 DEF BatchTrue
  <1> QED BY <1>1, <1>3, <1>4 DEF ScoresInv, ScoresShaped, ScoresTypeOK, EditTrue, ReadTrue,
                                  LoadedTrue, ScannedTrue, Follows

LEMMA BatchFails_Keeps ==
    ASSUME ScoresInv, BatchFails PROVE ScoresInv'
  <1>1. batch' = NoBatchOpen /\ UNCHANGED <<scoreRules, ruleId, scored, edits, disturbed>>
    BY DEF BatchFails
  <1>2. NoBatchOpen \in ScoreBatches /\ ~ NoBatchOpen.open
    BY DEF NoBatchOpen, ScoreBatches
  <1> QED BY <1>1, <1>2 DEF ScoresInv, ScoresShaped, ScoresTypeOK, EditTrue, ReadTrue,
                            LoadedTrue, ScannedTrue, Follows, BatchTrue

\* Rules and rows before and after a commit that changes some rules and scores by
\* some deltas.
Commits(R, R2, rows, rows2, changed, by) ==
    /\ changed \subseteq EventTypes
    /\ \A t \in EventTypes \ changed : R2[t] = R[t]
    /\ \A e \in rows2 : e \in rows \/ (e.type \in DOMAIN by /\ e.score = FinalScore(e, by[e.type]))

\* Who did not know of a commit knows that it was overtaken.
LEMMA OvertakenFacts ==
    ASSUME NEW R, NEW R2, NEW rows, NEW rows2, NEW changed, NEW by,
           Commits(R, R2, rows, rows2, changed, by),
           NEW w \in {NoEdit} \cup ReadEdits \cup LockedEdits, EditTrue(w, R, rows)
    PROVE  /\ Overtaken(w, changed, by) \in {NoEdit} \cup ReadEdits \cup LockedEdits
           /\ EditTrue(Overtaken(w, changed, by), R2, rows2)
  <1>1. CASE w = NoEdit
    BY <1>1 DEF Overtaken, NoEdit, EditTrue
  <1>2. CASE w \in ReadEdits
    <2> PICK over : over = w.overtaken \cup (changed \cap DOMAIN w.file)
      OBVIOUS
    <2> PICK v : v = [phase |-> "read", verb |-> w.verb, file |-> w.file, overwrite |-> w.overwrite,
                      remove |-> w.remove, found |-> w.found, overtaken |-> over]
      OBVIOUS
    <2>1. w.phase = "read" /\ w.overtaken \subseteq EventTypes /\ DOMAIN w.file \subseteq EventTypes
      BY <1>2, PartialOut DEF ReadEdits, Commits
    <2>2. [w EXCEPT !.overtaken = over] = v
      BY SMTT(30), <1>2, <2>1 DEF ReadEdits
    <2>3. Overtaken(w, changed, by) = v
      BY <2>1, <2>2 DEF Overtaken
    <2>4. v \in ReadEdits
      BY <1>2, <2>1 DEF ReadEdits
    <2>5. ReadTrue(v, R2)
      BY <2>1 DEF EditTrue, ReadTrue, Commits
    <2> QED BY <2>3, <2>4, <2>5 DEF EditTrue
  <1>3. CASE w \in LockedEdits
    <2> PICK over : over = w.overtaken \cup (changed \cap DOMAIN w.deltas) \cup
            {t \in DOMAIN by \cap DOMAIN w.deltas : w.phase = "scanned" /\ by[t] # w.deltas[t]}
      OBVIOUS
    <2> PICK v : v = [phase |-> w.phase, verb |-> w.verb, writes |-> w.writes, deltas |-> w.deltas,
                      dirty |-> w.dirty, overtaken |-> over]
      OBVIOUS
    <2>1. w.phase \in Locking /\ w.overtaken \subseteq EventTypes /\ DOMAIN w.deltas \subseteq EventTypes
      BY <1>3, PartialOut DEF LockedEdits
    <2>2. [w EXCEPT !.overtaken = over] = v
      BY SMTT(30), <1>3, <2>1 DEF LockedEdits
    <2>3. Overtaken(w, changed, by) = v
      BY <2>1, <2>2 DEF Overtaken, Locking
    <2>4. v \in LockedEdits
      BY <1>3, <2>1 DEF LockedEdits
    <2>5. w.phase \in {"loaded", "scanned"} => LoadedTrue(v, R2)
      BY <2>1 DEF EditTrue, LoadedTrue, Commits
    <2>6. ASSUME w.phase = "scanned" PROVE ScannedTrue(v, rows2)
      <3> SUFFICES ASSUME NEW e \in rows2, e.type \in DOMAIN w.deltas \ over
                   PROVE  e.key \in w.dirty \/ e.score = FinalScore(e, w.deltas[e.type])
        BY DEF ScannedTrue
      <3>1. CASE e \in rows
        BY <2>6, <3>1 DEF EditTrue, ScannedTrue
      <3>2. CASE e.type \in DOMAIN by /\ e.score = FinalScore(e, by[e.type])
        <4>1. by[e.type] = w.deltas[e.type]
          BY <2>6, <3>2
        <4> QED BY <3>2, <4>1
      <3> QED BY <3>1, <3>2 DEF Commits
    <2>7. v.phase = w.phase /\ w.phase # "read"
      BY <2>1 DEF Locking
    <2> QED BY <2>3, <2>4, <2>5, <2>6, <2>7 DEF EditTrue
  <1> QED BY <1>1, <1>2, <1>3

\* The score of the row inserted is by the delta the batch has read.
LEMMA InsertScored_Keeps ==
    ASSUME ScoresInv, NEW type \in EventTypes, NEW severity \in Severities, NEW keyword \in Keywords,
           InsertScored(type, severity, keyword)
    PROVE  ScoresInv'
  <1> PICK k : k = Cardinality(scored) + 1
    OBVIOUS
  <1> PICK row : row = [key |-> k, type |-> type, severity |-> severity, keyword |-> keyword, score |-> 0]
    OBVIOUS
  <1> PICK d : d = batch.deltas[type]
    OBVIOUS
  <1> PICK new : new = [key |-> k, type |-> type, severity |-> severity, keyword |-> keyword,
                        score |-> FinalScore(row, d)]
    OBVIOUS
  <1>1. [row EXCEPT !.score = FinalScore(row, d)] = new
    OBVIOUS
  <1>2. /\ batch.open /\ Cardinality(scored) < MaxScored
        /\ scored' = scored \cup {new}
        /\ disturbed' = disturbed \cup ({type} \cap batch.overtaken)
        /\ batch' = NoBatchOpen
        /\ edits' = [p \in Editors |-> Overtaken(edits[p], {}, Restrict(batch.deltas, {type}))]
        /\ UNCHANGED <<scoreRules, ruleId>>
    BY <1>1 DEF InsertScored
  <1>3. batch \in ScoreBatches /\ d \in Int
    BY DEF ScoresInv, ScoresShaped, ScoreBatches
  <1>4. FinalScore(row, d) \in 0 .. 100
    BY <1>3, FinalRange
  <1>5. FinalScore(row, d) = FinalScore(new, d)
    BY DEF FinalScore
  <1>6. k \in 1 .. MaxScored
    BY <1>2, FS_CardinalityType, ScoreRulesAssumption DEF ScoresInv, ScoresShaped
  <1>7. new \in EventRecord
    BY <1>4, <1>6 DEF EventRecord
  <1>8. NoBatchOpen \in ScoreBatches /\ ~ NoBatchOpen.open
    BY DEF NoBatchOpen, ScoreBatches
  <1>9. IsFiniteSet(scored')
    BY <1>2, FS_AddElement DEF ScoresInv, ScoresShaped
  <1> PICK by : by = Restrict(batch.deltas, {type})
    OBVIOUS
  <1>10. DOMAIN by = {type} /\ by[type] = d
    BY <1>3 DEF Restrict, ScoreBatches
  <1>11. \A o \in Editors : /\ edits'[o] \in {NoEdit} \cup ReadEdits \cup LockedEdits
                           /\ EditTrue(edits'[o], scoreRules', scored')
    <2> TAKE o \in Editors
    <2>1. edits'[o] = Overtaken(edits[o], {}, by)
      BY <1>2
    <2>2. edits[o] \in {NoEdit} \cup ReadEdits \cup LockedEdits /\ EditTrue(edits[o], scoreRules, scored)
      BY DEF ScoresInv, ScoresShaped
    <2>3. Commits(scoreRules, scoreRules', scored, scored', {}, by)
      BY <1>2, <1>5, <1>10 DEF Commits
    <2> QED BY <2>1, <2>2, <2>3, OvertakenFacts
  <1>12. ScoresShaped'
    BY <1>2, <1>3, <1>7, <1>8, <1>9, <1>11 DEF ScoresInv, ScoresShaped, ScoresTypeOK
  <1>13. ASSUME NEW t \in EventTypes \ disturbed' PROVE Follows(scored, t, scoreRules)'
    <2>1. t \notin disturbed /\ (t = type => t \notin batch.overtaken)
      BY <1>2, <1>13
    <2>2. t = type => d = DeltaOf(scoreRules[t])
      BY <1>2, <2>1 DEF ScoresInv, BatchTrue
    <2>3. new.type = type /\ new.score = FinalScore(row, d)
      OBVIOUS
    <2> QED BY <1>2, <1>5, <2>1, <2>2, <2>3 DEF ScoresInv, Follows
  <1>14. BatchTrue(batch, scoreRules)'
    BY <1>2, <1>8 DEF BatchTrue
  <1> QED BY <1>11, <1>12, <1>13, <1>14 DEF ScoresInv

-----------------------------------------------------------------------------
\* What an edit leaves as it is, and that the others know no less.
LEMMA Edits_Keep ==
    ASSUME ScoresInv, NEW p \in Editors, NEW w \in {NoEdit} \cup ReadEdits \cup LockedEdits,
           EditTrue(w, scoreRules, scored), edits' = [edits EXCEPT ![p] = w],
           ruleId' \in 0 .. MaxRuleId, UNCHANGED <<scoreRules, scored, batch, disturbed>>
    PROVE  ScoresInv'
  <1>1. edits' \in [Editors -> {NoEdit} \cup ReadEdits \cup LockedEdits]
    BY DEF ScoresInv, ScoresShaped
  <1>2. \A o \in Editors : edits'[o] = IF o = p THEN w ELSE edits[o]
    BY DEF ScoresInv, ScoresShaped
  <1>3. \A o \in Editors : EditTrue(edits'[o], scoreRules, scored)
    BY <1>2 DEF ScoresInv
  <1> QED BY <1>1, <1>3 DEF ScoresInv, ScoresShaped, ScoresTypeOK, BatchTrue, Follows, EditTrue, ReadTrue,
                            LoadedTrue, ScannedTrue

LEMMA NoEditTrue == EditTrue(NoEdit, scoreRules, scored)
  BY DEF EditTrue, NoEdit

LEMMA EditFails_Keeps ==
    ASSUME ScoresInv, NEW p \in Editors, EditFails(p) PROVE ScoresInv'
  BY Edits_Keep, NoEditTrue DEF EditFails, ScoresInv, ScoresShaped

\* A request begins with the rules of its file.
LEMMA BeginEdit_Keeps ==
    ASSUME ScoresInv, NEW p \in Editors,
           NEW verb \in {"create", "patch", "delete", "import"}, NEW file \in Partial(Int),
           NEW overwrite \in BOOLEAN, NEW remove \in BOOLEAN,
           BeginEdit(p, RuleRequest(verb, file, overwrite, remove)),
           verb # "delete" => \A t \in DOMAIN file : file[t] \in ScoreDeltas,
           verb = "create" => \A t \in DOMAIN file : scoreRules[t] = NoRule,
           verb = "patch" => overwrite /\ \A t \in DOMAIN file : scoreRules[t] # NoRule,
           verb = "delete" => ~ overwrite /\ \A t \in DOMAIN file : scoreRules[t] # NoRule /\ file[t] = 0,
           verb # "import" => ~ remove
    PROVE  ScoresInv'
  <1> PICK known : known = Restrict(scoreRules, DOMAIN file)
    OBVIOUS
  <1> PICK q : q = [phase |-> "read", verb |-> verb, file |-> file, overwrite |-> overwrite,
                    remove |-> remove, found |-> known, overtaken |-> {}]
    OBVIOUS
  <1>1. RuleRequest(verb, file, overwrite, remove) = q
    BY DEF RuleRequest
  <1>2. DOMAIN file \subseteq EventTypes
    BY PartialOut
  <1>3. known = [t \in DOMAIN file |-> scoreRules[t]]
    BY DEF Restrict
  <1>4. known \in [DOMAIN file -> MaybeRule]
    BY <1>2, <1>3 DEF ScoresInv, ScoresShaped, ScoresTypeOK, MaybeRule
  <1>5. known \in Partial(MaybeRule)
    BY <1>2, <1>4, PartialIn
  <1>6. q \in ReadEdits
    BY <1>5 DEF ReadEdits
  <1>7. ReadTrue(q, scoreRules)
    BY <1>3 DEF ReadTrue
  <1>8. EditTrue(q, scoreRules, scored)
    BY <1>7 DEF EditTrue
  <1> QED BY <1>1, <1>6, <1>8, Edits_Keep DEF BeginEdit, ScoresInv, ScoresShaped

LEMMA OneInFile ==
    ASSUME NEW t \in EventTypes, NEW d \in Int
    PROVE  [x \in {t} |-> d] \in Partial(Int) /\ DOMAIN [x \in {t} |-> d] = {t}
  <1>1. [x \in {t} |-> d] \in [{t} -> Int]
    OBVIOUS
  <1> QED BY <1>1, PartialIn

LEMMA EditBegins_Keeps ==
    ASSUME ScoresInv, NEW p \in Editors,
           CreateRule(p) \/ PatchRule(p) \/ DeleteRule(p) \/ ImportRules(p)
    PROVE  ScoresInv'
  <1> USE ScoreRulesAssumption
  <1>1. CASE CreateRule(p)
    <2> PICK t \in EventTypes, d \in ScoreDeltas :
            scoreRules[t] = NoRule /\ BeginEdit(p, RuleRequest("create", [x \in {t} |-> d], FALSE, FALSE))
      BY <1>1 DEF CreateRule
    <2> PICK file : file = [x \in {t} |-> d]
      OBVIOUS
    <2>1. file \in Partial(Int) /\ DOMAIN file = {t} /\ file[t] = d
      BY OneInFile
    <2> QED BY <2>1, BeginEdit_Keeps
  <1>2. CASE PatchRule(p)
    <2> PICK t \in EventTypes, d \in ScoreDeltas :
            scoreRules[t] # NoRule /\ BeginEdit(p, RuleRequest("patch", [x \in {t} |-> d], TRUE, FALSE))
      BY <1>2 DEF PatchRule
    <2> PICK file : file = [x \in {t} |-> d]
      OBVIOUS
    <2>1. file \in Partial(Int) /\ DOMAIN file = {t} /\ file[t] = d
      BY OneInFile
    <2> QED BY <2>1, BeginEdit_Keeps
  <1>3. CASE DeleteRule(p)
    <2> PICK t \in EventTypes :
            scoreRules[t] # NoRule /\ BeginEdit(p, RuleRequest("delete", [x \in {t} |-> 0], FALSE, FALSE))
      BY <1>3 DEF DeleteRule
    <2> PICK none \in Int : none = 0
      OBVIOUS
    <2> PICK file : file = [x \in {t} |-> none]
      OBVIOUS
    <2>1. file \in Partial(Int) /\ DOMAIN file = {t} /\ file[t] = none
      BY OneInFile
    <2> QED BY <2>1, BeginEdit_Keeps
  <1>4. CASE ImportRules(p)
    <2> PICK file \in Files, overwrite \in BOOLEAN, remove \in BOOLEAN :
            BeginEdit(p, RuleRequest("import", file, overwrite, remove))
      BY <1>4 DEF ImportRules
    <2>1. PICK S \in SUBSET EventTypes : file \in [S -> ScoreDeltas]
      BY DEF Files
    <2>2. file \in Partial(Int) /\ DOMAIN file = S
      <3>1. file \in [S -> Int]
        BY <2>1
      <3> QED BY <3>1, PartialIn
    <2>3. \A t \in DOMAIN file : file[t] \in ScoreDeltas
      BY <2>1
    <2> QED BY <2>2, <2>3, BeginEdit_Keeps
  <1> QED BY <1>1, <1>2, <1>3, <1>4

\* What is written is rescored by what is written.
LEMMA WritesFacts ==
    ASSUME ScoresShaped, NEW q \in ReadEdits, ReadTrue(q, scoreRules),
           Inserted(q) # {} => ruleId < MaxRuleId
    PROVE  /\ Writes(q) \in Partial(MaybeRule)
           /\ DOMAIN Writes(q) = Inserted(q) \cup Updated(q) \cup Removed(q)
           /\ \A t \in Inserted(q) \cup Updated(q) : DeltaOf(Writes(q)[t]) = q.file[t]
           /\ \A t \in Removed(q) \ (Inserted(q) \cup Updated(q)) : Writes(q)[t] = NoRule
  <1> PICK D : D = Inserted(q) \cup Updated(q) \cup Removed(q)
    OBVIOUS
  <1> PICK W : W = Writes(q)
    OBVIOUS
  <1>1. /\ q.file \in Partial(Int) /\ q.found \in Partial(MaybeRule)
        /\ DOMAIN q.file \subseteq EventTypes
    BY PartialOut DEF ReadEdits
  <1>2. D \subseteq EventTypes
    BY <1>1 DEF Inserted, Updated, Removed
  <1>3. W = [t \in D |->
        IF t \in Inserted(q) THEN [id |-> ruleId + 1, delta |-> q.file[t]]
        ELSE IF t \in Updated(q) THEN [id |-> q.found[t].id, delta |-> q.file[t]]
        ELSE NoRule]
    BY DEF Writes
  <1>4. ASSUME NEW t \in Inserted(q)
        PROVE  W[t] \in EventScoreRule /\ W[t].delta = q.file[t]
    <2>1. ruleId + 1 \in 1 .. MaxRuleId
      BY <1>4, ScoreRulesAssumption DEF ScoresShaped
    <2>2. q.file[t] \in ScoreDeltas
      BY <1>4 DEF Inserted, ReadTrue
    <2>3. W[t] = [id |-> ruleId + 1, delta |-> q.file[t]]
      BY <1>3, <1>4
    <2> QED BY <2>1, <2>2, <2>3 DEF EventScoreRule
  <1>5. ASSUME NEW t \in Updated(q) \ Inserted(q)
        PROVE  W[t] \in EventScoreRule /\ W[t].delta = q.file[t]
    <2>1. q.found[t] \in EventScoreRule
      BY <1>1, <1>5, PartialOut DEF Updated, ReadTrue, MaybeRule
    <2>2. q.file[t] \in ScoreDeltas
      BY <1>5 DEF Updated, ReadTrue
    <2>3. W[t] = [id |-> q.found[t].id, delta |-> q.file[t]]
      BY <1>3, <1>5
    <2> QED BY <2>1, <2>2, <2>3 DEF EventScoreRule
  <1>6. \A t \in Removed(q) \ (Inserted(q) \cup Updated(q)) : W[t] = NoRule
    BY <1>3
  <1>7. W \in [D -> MaybeRule]
    BY <1>3, <1>4, <1>5, <1>6 DEF MaybeRule
  <1>8. W \in Partial(MaybeRule) /\ DOMAIN W = D
    BY <1>2, <1>7, PartialIn
  <1>9. ASSUME NEW t \in Inserted(q) \cup Updated(q) PROVE DeltaOf(W[t]) = q.file[t]
    <2>1. W[t] \in EventScoreRule /\ W[t].delta = q.file[t]
      BY <1>4, <1>5, <1>9
    <2> QED BY <2>1, ScoreRulesAssumption DEF DeltaOf, EventScoreRule
  <1> QED BY <1>6, <1>8, <1>9

\* A transaction knows the rules as they will be, of all types it rescores and
\* was not overtaken about.
LEMMA TransactionFacts ==
    ASSUME ScoresShaped, NEW q \in ReadEdits, ReadTrue(q, scoreRules), ~ Collides(q),
           Inserted(q) # {} => ruleId < MaxRuleId
    PROVE  Transaction(q) \in LockedEdits /\ EditTrue(Transaction(q), scoreRules, scored)
  <1> PICK W : W = Writes(q)
    OBVIOUS
  <1>1. /\ W \in Partial(MaybeRule)
        /\ DOMAIN W = Inserted(q) \cup Updated(q) \cup Removed(q)
        /\ \A t \in Inserted(q) \cup Updated(q) : DeltaOf(W[t]) = q.file[t]
        /\ \A t \in Removed(q) \ (Inserted(q) \cup Updated(q)) : W[t] = NoRule
    BY WritesFacts
  <1>2. DOMAIN W \subseteq EventTypes /\ \A t \in DOMAIN W : W[t] \in MaybeRule
    BY <1>1, PartialOut
  <1>3. q.file \in Partial(Int) /\ DOMAIN q.file \subseteq EventTypes
    BY PartialOut DEF ReadEdits
  <1> PICK over : over = q.overtaken \ DOMAIN W
    OBVIOUS
  <1> PICK phase : phase = IF q.verb = "import" THEN "flushed" ELSE "loaded"
    OBVIOUS
  <1> PICK tx : tx = [phase |-> phase, verb |-> q.verb, writes |-> W, deltas |-> q.file,
                      dirty |-> {}, overtaken |-> over]
    OBVIOUS
  <1>6. Transaction(q) = tx
    BY DEF Transaction
  <1>8. tx \in LockedEdits
    <2>1. q.overtaken \subseteq EventTypes /\ q.verb \in {"create", "patch", "delete", "import"}
      BY DEF ReadEdits
    <2>2. {} \in SUBSET (1 .. MaxScored) /\ phase \in Locking
      BY DEF Locking
    <2> QED BY <1>1, <1>3, <2>1, <2>2 DEF LockedEdits
  <1>9. CASE q.verb = "import"
    BY <1>6, <1>8, <1>9 DEF EditTrue
  <1>10. CASE q.verb # "import"
    <2>2. LoadedTrue(tx, scoreRules)
      <3>1. tx.deltas = q.file /\ tx.writes = W /\ tx.overtaken = q.overtaken \ DOMAIN W
        OBVIOUS
      <3>2. ~ q.remove
        BY <1>10 DEF ReadTrue
      <3>3. DOMAIN W \subseteq DOMAIN q.file
        BY <1>1, <3>2 DEF Inserted, Updated, Removed
      <3>4. ASSUME NEW t \in DOMAIN W PROVE q.file[t] = DeltaOf(W[t])
        <4>1. CASE t \in Inserted(q) \cup Updated(q)
          BY <1>1, <4>1
        <4>2. CASE t \notin Inserted(q) \cup Updated(q)
          <5>1. t \in Removed(q) /\ W[t] = NoRule
            BY <1>1, <3>4, <4>2
          <5>2. q.verb = "delete"
            BY <3>2, <5>1 DEF Removed
          <5> QED BY <3>3, <3>4, <5>1, <5>2 DEF ReadTrue, DeltaOf
        <4> QED BY <4>1, <4>2
      <3>5. ASSUME NEW t \in DOMAIN q.file, t \notin q.overtaken, t \notin DOMAIN W
            PROVE  q.file[t] = DeltaOf(scoreRules[t])
        <4>1. q.found[t] = scoreRules[t]
          BY <3>5 DEF ReadTrue
        <4>2. t \notin Inserted(q) /\ t \notin Updated(q) /\ t \notin Removed(q)
          BY <1>1, <3>5
        <4>3. CASE q.verb = "create"
          BY <3>5, <4>2, <4>3 DEF Inserted, ReadTrue
        <4>4. CASE q.verb = "patch"
          BY <3>5, <4>1, <4>2, <4>4 DEF Updated, ReadTrue, DeltaOf
        <4>5. CASE q.verb = "delete"
          BY <3>5, <4>1, <4>2, <4>5 DEF Removed, Same, ReadTrue
        <4> QED BY <1>10, <4>3, <4>4, <4>5 DEF ReadEdits
      <3> QED BY <3>1, <3>3, <3>4, <3>5 DEF LoadedTrue
    <2>3. tx.phase = "loaded"
      BY <1>10
    <2> QED BY <1>6, <1>8, <2>2, <2>3 DEF EditTrue
  <1> QED BY <1>9, <1>10

LEMMA FlushEdit_Keeps ==
    ASSUME ScoresInv, NEW p \in Editors, FlushEdit(p) PROVE ScoresInv'
  <1> PICK q : q = edits[p]
    OBVIOUS
  <1>1. q.phase = "read" /\ UNCHANGED <<scoreRules, scored, batch, disturbed>>
    BY DEF FlushEdit
  <1>2. q \in ReadEdits
    BY <1>1 DEF ScoresInv, ScoresShaped, NoEdit, ReadEdits, LockedEdits, Locking
  <1>3. ReadTrue(q, scoreRules) /\ ScoresShaped
    BY <1>1 DEF ScoresInv, EditTrue
  <1>4. CASE Collides(q)
    BY <1>1, <1>4, Edits_Keep, NoEditTrue DEF FlushEdit, ScoresInv, ScoresShaped
  <1>5. CASE ~ Collides(q)
    <2>1. /\ ruleId < MaxRuleId \/ Inserted(q) = {}
          /\ edits' = [edits EXCEPT ![p] = Transaction(q)]
          /\ ruleId' = IF Inserted(q) = {} THEN ruleId ELSE ruleId + 1
      BY <1>5 DEF FlushEdit
    <2>2. Transaction(q) \in LockedEdits /\ EditTrue(Transaction(q), scoreRules, scored)
      BY <1>2, <1>3, <1>5, <2>1, TransactionFacts
    <2>3. ruleId' \in 0 .. MaxRuleId
      BY <1>3, <2>1, ScoreRulesAssumption DEF ScoresShaped
    <2> QED BY <1>1, <2>1, <2>2, <2>3, Edits_Keep
  <1> QED BY <1>4, <1>5

\* A rescored row differs in its score, which is by the delta at hand.
LEMMA RescoredFacts ==
    ASSUME NEW e \in EventRecord, NEW d \in Int
    PROVE  /\ Rescored(e, d) \in EventRecord
           /\ Rescored(e, d).type = e.type
           /\ Rescored(e, d).score = FinalScore(Rescored(e, d), d)
  <1> PICK new : new = [key |-> e.key, type |-> e.type, severity |-> e.severity, keyword |-> e.keyword,
                        score |-> FinalScore(e, d)]
    OBVIOUS
  <1>1. FinalScore(e, d) \in 0 .. 100
    BY FinalRange
  <1>2. Rescored(e, d) = new
    BY DEF Rescored, EventRecord
  <1>3. FinalScore(e, d) = FinalScore(new, d)
    BY DEF FinalScore
  <1>4. new \in EventRecord /\ new.type = e.type /\ new.score = FinalScore(e, d)
    BY <1>1 DEF EventRecord
  <1> QED BY <1>2, <1>3, <1>4

\* The rules as a transaction leaves them.
LEMMA RulesAfterFacts ==
    ASSUME ScoresShaped, NEW x \in LockedEdits
    PROVE  /\ RulesAfter(x) \in [EventTypes -> MaybeRule]
           /\ DOMAIN x.writes \subseteq EventTypes
           /\ \A t \in DOMAIN x.writes : RulesAfter(x)[t] = x.writes[t]
           /\ \A t \in EventTypes \ DOMAIN x.writes : RulesAfter(x)[t] = scoreRules[t]
  <1>1. DOMAIN x.writes \subseteq EventTypes /\ \A t \in DOMAIN x.writes : x.writes[t] \in MaybeRule
    BY PartialOut DEF LockedEdits
  <1> QED BY <1>1 DEF RulesAfter, ScoresShaped, ScoresTypeOK, MaybeRule

\* The map that an import loads has its own changes, and else the rules of now.
LEMMA LoadDeltas_Keeps ==
    ASSUME ScoresInv, NEW p \in Editors, LoadDeltas(p) PROVE ScoresInv'
  <1> PICK x : x = edits[p]
    OBVIOUS
  <1> PICK after : after = RulesAfter(x)
    OBVIOUS
  <1> PICK map : map = DeltaMap(after)
    OBVIOUS
  <1> PICK tx : tx = [x EXCEPT !.phase = "loaded", !.overtaken = {}, !.deltas = map]
    OBVIOUS
  <1>1. /\ x.phase = "flushed" /\ UNCHANGED <<scoreRules, ruleId, scored, batch, disturbed>>
        /\ edits' = [edits EXCEPT ![p] = tx]
    BY DEF LoadDeltas, ScoresInv, ScoresShaped
  <1>2. x \in LockedEdits /\ ScoresShaped
    BY <1>1 DEF ScoresInv, ScoresShaped, NoEdit, ReadEdits
  <1>4. /\ after \in [EventTypes -> MaybeRule] /\ DOMAIN x.writes \subseteq EventTypes
        /\ \A t \in DOMAIN x.writes : after[t] = x.writes[t]
        /\ \A t \in EventTypes \ DOMAIN x.writes : after[t] = scoreRules[t]
    BY <1>2, RulesAfterFacts
  <1>5. /\ map \in [EventTypes -> Int]
        /\ \A t \in EventTypes : map[t] = DeltaOf(after[t])
    BY <1>4, DeltaMapFacts
  <1>6. map \in Partial(Int) /\ DOMAIN map = EventTypes
    BY <1>5, PartialIn
  <1>7. /\ tx \in LockedEdits /\ tx.phase = "loaded"
        /\ tx.writes = x.writes /\ tx.deltas = map
    <2>1. tx.phase = "loaded" /\ tx.overtaken = {}
      BY <1>2 DEF LockedEdits
    <2>2. tx.deltas = map /\ tx.writes = x.writes
      BY <1>2 DEF LockedEdits
    <2>3. "loaded" \in Locking
      BY DEF Locking
    <2>4. tx \in LockedEdits
      BY <1>2, <1>6, <2>3 DEF LockedEdits
    <2> QED BY <2>1, <2>2, <2>4
  <1>8. LoadedTrue(tx, scoreRules)
    BY <1>4, <1>5, <1>6, <1>7 DEF LoadedTrue
  <1>9. EditTrue(tx, scoreRules, scored)
    BY <1>7, <1>8 DEF EditTrue
  <1> QED BY <1>1, <1>2, <1>7, <1>9, Edits_Keep DEF ScoresShaped

\* A row that was read and is not written has the score it would be given.
LEMMA ReadStored_Keeps ==
    ASSUME ScoresInv, NEW p \in Editors, ReadStored(p) PROVE ScoresInv'
  <1> PICK x : x = edits[p]
    OBVIOUS
  <1> PICK map : map = x.deltas
    OBVIOUS
  <1> PICK keys : keys = {e.key : e \in {r \in {y \in scored : y.type \in DOMAIN map} :
                                          Rescored(r, map[r.type]) # r}}
    OBVIOUS
  <1> PICK tx : tx = [x EXCEPT !.phase = "scanned", !.dirty = keys]
    OBVIOUS
  <1>1. /\ x.phase = "loaded" /\ UNCHANGED <<scoreRules, ruleId, scored, batch, disturbed>>
        /\ edits' = [edits EXCEPT ![p] = tx]
    BY DEF ReadStored, ScoresInv, ScoresShaped
  <1>2. x \in LockedEdits /\ ScoresShaped /\ LoadedTrue(x, scoreRules)
    BY <1>1 DEF ScoresInv, ScoresShaped, NoEdit, ReadEdits, EditTrue
  <1>4. \A e \in scored : e \in EventRecord /\ e.key \in 1 .. MaxScored
    BY DEF ScoresInv, ScoresShaped, ScoresTypeOK, EventRecord
  <1>5. keys \subseteq 1 .. MaxScored
    BY <1>4
  <1>6. /\ tx \in LockedEdits /\ tx.phase = "scanned"
        /\ tx.writes = x.writes /\ tx.deltas = map /\ tx.dirty = keys /\ tx.overtaken = x.overtaken
    <2>1. tx.phase = "scanned" /\ tx.dirty = keys
      BY <1>2 DEF LockedEdits
    <2>2. tx.deltas = map /\ tx.writes = x.writes /\ tx.overtaken = x.overtaken
      BY <1>2 DEF LockedEdits
    <2>3. "scanned" \in Locking
      BY DEF Locking
    <2>4. tx \in LockedEdits
      BY <1>2, <1>5, <2>3 DEF LockedEdits
    <2> QED BY <2>1, <2>2, <2>4
  <1>7. LoadedTrue(tx, scoreRules)
    BY <1>2, <1>6 DEF LoadedTrue
  <1>8. ScannedTrue(tx, scored)
    <2> SUFFICES ASSUME NEW e \in scored, e.type \in DOMAIN map, e.key \notin keys
                 PROVE  e.score = FinalScore(e, map[e.type])
      BY <1>6 DEF ScannedTrue
    <2>1. Rescored(e, map[e.type]) = e
      OBVIOUS
    <2>2. Rescored(e, map[e.type]).score = FinalScore(e, map[e.type])
      BY <1>4 DEF Rescored, EventRecord
    <2> QED BY <2>1, <2>2
  <1>9. EditTrue(tx, scoreRules, scored)
    BY <1>6, <1>7, <1>8 DEF EditTrue
  <1> QED BY <1>1, <1>2, <1>6, <1>9, Edits_Keep DEF ScoresShaped

LEMMA CommitEdit_Keeps ==
    ASSUME ScoresInv, NEW p \in Editors, CommitEdit(p) PROVE ScoresInv'
  <1> PICK tx : tx = edits[p]
    OBVIOUS
  <1> PICK types : types = DOMAIN tx.writes
    OBVIOUS
  <1> PICK range : range = DOMAIN tx.deltas
    OBVIOUS
  <1> DEFINE After(e) == IF e.type \in range /\ e.key \in tx.dirty
                         THEN Rescored(e, tx.deltas[e.type]) ELSE e
  <1>1. /\ tx.phase = "scanned"
        /\ scoreRules' = RulesAfter(tx)
        /\ scored' = {After(e) : e \in scored}
        /\ edits' = [o \in Editors |-> IF o = p THEN NoEdit
                                         ELSE Overtaken(edits[o], types, tx.deltas)]
        /\ batch' = IF batch.open THEN [batch EXCEPT !.overtaken = @ \cup types] ELSE batch
        /\ disturbed' = (disturbed \ range) \cup tx.overtaken
        /\ UNCHANGED ruleId
    BY DEF CommitEdit
  <1>2. /\ tx \in LockedEdits /\ ScoresShaped
        /\ LoadedTrue(tx, scoreRules) /\ ScannedTrue(tx, scored)
    BY <1>1 DEF ScoresInv, ScoresShaped, EditTrue, NoEdit, ReadEdits
  <1>3. /\ types \subseteq range /\ range \subseteq EventTypes /\ tx.overtaken \subseteq EventTypes
        /\ \A t \in range : tx.deltas[t] \in Int
    BY <1>2, PartialOut DEF LockedEdits, LoadedTrue
  <1>4. /\ scoreRules' \in [EventTypes -> MaybeRule]
        /\ \A t \in types : scoreRules'[t] = tx.writes[t]
    BY <1>1, <1>2, RulesAfterFacts
  <1>5. \A t \in EventTypes \ types : scoreRules'[t] = scoreRules[t]
    BY <1>1, <1>2, RulesAfterFacts
  <1>6. \A t \in range \ tx.overtaken : tx.deltas[t] = DeltaOf(scoreRules'[t])
    BY <1>2, <1>3, <1>4, <1>5 DEF LoadedTrue
  <1>7. ASSUME NEW e \in scored
        PROVE  /\ After(e) \in EventRecord /\ After(e).type = e.type
               /\ After(e) = e \/ (e.type \in range /\ After(e).score = FinalScore(After(e), tx.deltas[e.type]))
               /\ e.type \in range \ tx.overtaken => After(e).score = FinalScore(After(e), tx.deltas[e.type])
    <2>1. e \in EventRecord
      BY DEF ScoresInv, ScoresShaped, ScoresTypeOK
    <2>2. e.type \in range => tx.deltas[e.type] \in Int
      BY <1>3
    <2>3. e.type \in range \ tx.overtaken /\ e.key \notin tx.dirty => e.score = FinalScore(e, tx.deltas[e.type])
      BY <1>2 DEF ScannedTrue
    <2>4. CASE e.type \in range /\ e.key \in tx.dirty
      BY <2>1, <2>2, <2>4, RescoredFacts
    <2>5. CASE ~ (e.type \in range /\ e.key \in tx.dirty)
      BY <2>1, <2>3, <2>5
    <2> QED BY <2>4, <2>5
  <1>8. scored' \subseteq EventRecord /\ IsFiniteSet(scored')
    <2> PICK f : f = [e \in scored |-> After(e)]
      OBVIOUS
    <2>1. f \in Surjection(scored, scored')
      BY <1>1 DEF Surjection
    <2>2. IsFiniteSet(scored)
      BY DEF ScoresInv, ScoresShaped
    <2>3. IsFiniteSet(scored')
      BY <2>1, <2>2, FS_Surjection
    <2> QED BY <1>1, <1>7, <2>3
  <1>9. \A o \in Editors : /\ edits'[o] \in {NoEdit} \cup ReadEdits \cup LockedEdits
                           /\ EditTrue(edits'[o], scoreRules', scored')
    <2> TAKE o \in Editors
    <2>1. CASE o = p
      BY <1>1, <2>1 DEF EditTrue, NoEdit
    <2>2. CASE o # p
      <3>1. edits'[o] = Overtaken(edits[o], types, tx.deltas)
        BY <1>1, <2>2
      <3>2. edits[o] \in {NoEdit} \cup ReadEdits \cup LockedEdits /\ EditTrue(edits[o], scoreRules, scored)
        BY DEF ScoresInv, ScoresShaped
      <3>3. types \subseteq EventTypes
        BY <1>3
      <3>4. \A e \in scored' : \/ e \in scored
                               \/ e.type \in DOMAIN tx.deltas /\ e.score = FinalScore(e, tx.deltas[e.type])
        <4> SUFFICES ASSUME NEW e \in scored
                     PROVE  \/ After(e) \in scored
                            \/ /\ After(e).type \in range
                               /\ After(e).score = FinalScore(After(e), tx.deltas[After(e).type])
          BY <1>1
        <4> HIDE DEF After
        <4> QED BY <1>7
      <3>5. Commits(scoreRules, scoreRules', scored, scored', types, tx.deltas)
        BY <1>5, <3>3, <3>4 DEF Commits
      <3> QED BY <3>1, <3>2, <3>5, OvertakenFacts
    <2> QED BY <2>1, <2>2
  <1>10. batch' \in ScoreBatches /\ BatchTrue(batch, scoreRules)'
    <2>1. batch \in ScoreBatches /\ BatchTrue(batch, scoreRules)
      BY DEF ScoresInv, ScoresShaped
    <2>2. CASE ~ batch.open
      BY <1>1, <2>1, <2>2 DEF BatchTrue
    <2>3. CASE batch.open
      <3> PICK over : over = batch.overtaken \cup types
        OBVIOUS
      <3>1. batch' = [open |-> TRUE, deltas |-> batch.deltas, overtaken |-> over]
        BY <1>1, <2>1, <2>3 DEF ScoreBatches
      <3>2. over \subseteq EventTypes
        BY <1>3, <2>1 DEF ScoreBatches
      <3> QED BY <1>5, <2>1, <2>3, <3>1, <3>2 DEF ScoreBatches, BatchTrue
    <2> QED BY <2>2, <2>3
  <1>11. ASSUME NEW t \in EventTypes \ disturbed' PROVE Follows(scored', t, scoreRules')
    <2> SUFFICES ASSUME NEW e \in scored, e.type = t
                 PROVE  After(e).score = FinalScore(After(e), DeltaOf(scoreRules'[t]))
      BY <1>1, <1>7 DEF Follows
    <2>1. t \notin tx.overtaken /\ (t \notin disturbed \/ t \in range)
      BY <1>1, <1>11
    <2>2. CASE t \in range
      BY <1>6, <1>7, <2>1, <2>2
    <2>3. CASE t \notin range
      <3>1. After(e) = e /\ scoreRules'[t] = scoreRules[t]
        BY <1>3, <1>5, <2>3
      <3>2. Follows(scored, t, scoreRules)
        BY <1>11, <2>1, <2>3 DEF ScoresInv
      <3> QED BY <3>1, <3>2 DEF Follows
    <2> QED BY <2>2, <2>3
  <1>12. ScoresShaped'
    BY <1>1, <1>3, <1>4, <1>8, <1>9, <1>10 DEF ScoresInv, ScoresShaped, ScoresTypeOK, MaybeRule
  <1> QED BY <1>9, <1>10, <1>11, <1>12 DEF ScoresInv

LEMMA ScoresInv_Always == ScoresSpec => []ScoresInv
  <1>1. ScoresInv /\ [ScoresNext]_scoreVars => ScoresInv'
    <2> SUFFICES ASSUME ScoresInv, [ScoresNext]_scoreVars PROVE ScoresInv'
      OBVIOUS
    <2>1. CASE UNCHANGED scoreVars
      BY <2>1 DEF scoreVars, ScoresInv, ScoresShaped, ScoresTypeOK, EditTrue, ReadTrue, LoadedTrue, ScannedTrue,
                  BatchTrue, Follows
    <2> QED BY <2>1, ReadDeltas_Keeps, BatchFails_Keeps, InsertScored_Keeps, EditBegins_Keeps,
               FlushEdit_Keeps, LoadDeltas_Keeps, ReadStored_Keeps,
               CommitEdit_Keeps, EditFails_Keeps
            DEF ScoresNext
  <1> QED BY <1>1, ScoresInv_Init, PTL DEF ScoresSpec

\* ScoresFollowRules: a stored score is the one by the present rule, unless two
\* transactions about its type overlapped, whatever rules are created, patched,
\* deleted and imported while batches are scored.
THEOREM ScoresAlwaysFollow == ScoresSpec => []ScoresFollowRules
  BY ScoresInv_Always, ScoresInv_Follows, PTL

-----------------------------------------------------------------------------
(* The three machines side by side, as one run has them.                     *)

LEMMA EventsTypes == EventsSpec => []EventsTypeOK
  <1>1. EventsInit => deleted \subseteq emitted
    BY DEF EventsInit
  <1>2. EventsInv /\ deleted \subseteq emitted /\ [EventsNext]_eventVars => (deleted \subseteq emitted)'
    <2> SUFFICES ASSUME EventsInv, deleted \subseteq emitted, [EventsNext]_eventVars
                 PROVE  deleted' \subseteq emitted'
      OBVIOUS
    <2>1. CASE PurgeEvents
      BY <2>1 DEF PurgeEvents, EventsInv, WindowTrue
    <2>2. CASE \E delay \in Delays, flaw \in Flaws \cup {"none"} : EventEmitted(delay, flaw)
      BY <2>2 DEF EventEmitted
    <2>3. CASE UNCHANGED <<deleted, emitted>>
      BY <2>3
    <2> QED BY <2>1, <2>2, <2>3 DEF EventsNext, eventVars, Tick, BeginPull, OpenWindow, ReadPage,
               CheckBatch, StoreBatch, ConnectionFails, PullFails
  <1>3. EventsInv /\ deleted \subseteq emitted => EventsTypeOK
    BY DEF EventsInv, Past, WindowTrue, EventsTypeOK
  <1> QED BY EventsInv_Always, <1>1, <1>2, <1>3, PTL DEF EventsSpec

\* A behaviour of the run is one of each machine: what is proved of the three
\* holds of what runs beside each other, and what the run shows is of them.
THEOREM MachinesSideBySide == MCSpec => Spec /\ EventsSpec /\ ScoresSpec
  <1>1. MCInit => Init /\ EventsInit /\ ScoresInit
    BY DEF MCInit
  <1>2. [MCNext]_MCVars => [Next]_vars /\ [EventsNext]_eventVars /\ [ScoresNext]_scoreVars
    BY DEF MCNext, MCVars
  <1> QED BY <1>1, <1>2, PTL DEF MCSpec, Spec, EventsSpec, ScoresSpec

\* Channels, runs, windows, events, rules and transactions keep their shape, for
\* any vCenters, jobs, generations, clocks and editors.
THEOREM CollectionTypes == MCSpec => []CollectionTypeOK
  <1>1. ScoresInv => ScoresTypeOK
    BY DEF ScoresInv, ScoresShaped
  <1>2. TypeOK /\ EventsTypeOK /\ ScoresTypeOK => CollectionTypeOK
    BY DEF CollectionTypeOK
  <1> QED BY MachinesSideBySide, CollectorTypes, EventsTypes, ScoresInv_Always, <1>1, <1>2, PTL
===============================================================================
